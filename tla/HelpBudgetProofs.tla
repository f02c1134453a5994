--------------------------- MODULE HelpBudgetProofs ---------------------------
(***************************************************************************)
(* Proofs about HelpBudget, for every set of requests and of workers, every *)
(* limit and every age: the budget is kept and the provider is called once *)
(* for a request, through retries, crashes and power losses.               *)
(***************************************************************************)
EXTENDS HelpBudget, FiniteSetTheorems, TLAPS

\* The charged requests of any log are finitely many.
LEMMA ChargedIsFinite ==
    ASSUME NEW c PROVE IsFiniteSet(Charged(c))
<1>1. Charged(c) \subseteq Requests
  BY DEF Charged, Recorded
<1>. QED  BY <1>1, HelpAssumption, FS_Subset

\* Fewer charged requests are fewer charges.
LEMMA ChargesAreMonotone ==
    ASSUME NEW c, NEW d, Charged(d) \subseteq Charged(c)
    PROVE  /\ Cardinality(Charged(c)) \in Nat /\ Cardinality(Charged(d)) \in Nat
           /\ Cardinality(Charged(d)) <= Cardinality(Charged(c))
<1>1. IsFiniteSet(Charged(c)) /\ IsFiniteSet(Charged(d))
  BY ChargedIsFinite
<1>. QED  BY <1>1, FS_Subset, FS_CardinalityType

\* release_stale_provider_reservations loses no request, charges none and leaves
\* the reservations of active calls alone.
LEMMA ReleaseIsSound ==
    ASSUME NEW c \in Log, NEW t \in Nat
    PROVE  /\ Release(c, t) \in Log
           /\ \A id \in Requests : c[id] = None <=> Release(c, t)[id] = None
           /\ Charged(Release(c, t)) \subseteq Charged(c)
           /\ \A id \in Requests :
                id \in active /\ Reserved(c, id) => Reserved(Release(c, t), id)
<1>. DEFINE Ended(id) == [c[id] EXCEPT !.status = "interrupted", !.charged = FALSE]
<1>1. ASSUME NEW id \in Requests, c[id] # None
      PROVE  /\ c[id] \in Event /\ Ended(id) \in Event
             /\ Ended(id) # None /\ ~Ended(id).charged
  BY <1>1, HelpAssumption DEF Log, Event, Statuses
<1>2. ASSUME NEW id \in Requests
      PROVE  Release(c, t)[id] = IF Overdue(c, id, t) /\ id \notin active
                                 THEN Ended(id) ELSE c[id]
  BY DEF Release
<1>3. ASSUME NEW id \in Requests, Overdue(c, id, t) PROVE c[id] # None
  BY <1>3 DEF Overdue
<1>. HIDE DEF Ended
<1>4. Release(c, t) \in Log
  <2>1. ASSUME NEW id \in Requests PROVE Release(c, t)[id] \in Event \cup {None}
    BY <1>1, <1>2, <1>3 DEF Log
  <2>2. Release(c, t) = [id \in Requests |-> Release(c, t)[id]]
    BY DEF Release
  <2>. QED  BY <2>1, <2>2 DEF Log
<1>5. \A id \in Requests : c[id] = None <=> Release(c, t)[id] = None
  BY <1>1, <1>2, <1>3
<1>6. Charged(Release(c, t)) \subseteq Charged(c)
  BY <1>1, <1>2, <1>3 DEF Charged, Recorded
<1>7. \A id \in Requests : id \in active /\ Reserved(c, id) => Reserved(Release(c, t), id)
  BY <1>2 DEF Reserved
<1>. QED  BY <1>4, <1>5, <1>6, <1>7

\* What Enter may save for a worker: the log keeps its requests, the budget and
\* the reservations of the other calls, and a call to make is a new one.
SoundOutcome(w, o) ==
    LET id == job[w].id IN
    /\ o.content \in Log /\ o.out \in Statuses \cup {None}
    /\ o.then \in {"idle", "call", "clear"}
    /\ \A i \in Requests : log.now[i] # None => o.content[i] # None
    /\ Limit # 0 => Cardinality(Charged(o.content)) <= Limit
    /\ o.then # "idle" => id \in Requests
    /\ o.then = "call" => log.now[id] = None /\ Reserved(o.content, id)
    /\ o.then = "clear" => At(w, "settle")
    /\ \A v \in Workers \ {w} : Calling(v) => Reserved(o.content, job[v].id)

\* The log as every process sees it keeps the budget.
LEMMA LogKeepsBudget ==
    ASSUME TypeOK, BudgetHolds, Limit # 0
    PROVE  Cardinality(Charged(log.now)) <= Limit
BY DEF TypeOK, BudgetHolds

\* A reconciliation alone is a sound outcome, whatever it returns.
LEMMA ReconciledIsSound ==
    ASSUME Inv, NEW w \in Workers, ~Calling(w), NEW t \in Nat,
           NEW out \in Statuses \cup {None}
    PROVE  SoundOutcome(w, Outcome(Release(log.now, t), out, "idle"))
<1>. DEFINE c == Release(log.now, t)
<1>0. log.now \in Log /\ Limit \in Nat
  BY HelpAssumption DEF Inv, TypeOK
<1>1. /\ c \in Log
      /\ \A i \in Requests : log.now[i] # None => c[i] # None
      /\ Charged(c) \subseteq Charged(log.now)
      /\ \A i \in Requests : i \in active /\ Reserved(log.now, i) => Reserved(c, i)
  BY <1>0, ReleaseIsSound
<1>. HIDE DEF c
<1>2. Limit # 0 => Cardinality(Charged(c)) <= Limit
  BY <1>0, <1>1, ChargesAreMonotone, LogKeepsBudget DEF Inv
<1>3. \A v \in Workers : Calling(v) => Reserved(c, job[v].id)
  BY <1>1 DEF Inv, RunningCallsAreReserved, JobsAreOrderly, Engaged
<1>. QED  BY <1>1, <1>2, <1>3 DEF SoundOutcome, Outcome, c

\* So is leaving the log as it is.
LEMMA UnchangedIsSound ==
    ASSUME Inv, NEW w \in Workers
    PROVE  SoundOutcome(w, Outcome(log.now, None, "idle"))
<1>1. \A v \in Workers : Calling(v) => Reserved(log.now, job[v].id)
  BY DEF Inv, RunningCallsAreReserved
<1>2. Limit # 0 => Cardinality(Charged(log.now)) <= Limit
  BY LogKeepsBudget DEF Inv
<1>. QED  BY <1>1, <1>2 DEF SoundOutcome, Outcome, Inv, TypeOK

\* A new event goes over no limit (apply_budget_limit).
LEMMA NewEventIsSound ==
    ASSUME NEW c \in Log, NEW id \in Requests, NEW kind \in Kinds, NEW t \in Nat,
           c[id] = None, NEW allowed, allowed = Allows(c, kind),
           Limit # 0 => Cardinality(Charged(c)) <= Limit
    PROVE  LET d == [c EXCEPT ![id] = NewEvent(kind, allowed, t)] IN
           /\ d \in Log /\ d[id] # None
           /\ \A i \in Requests \ {id} : d[i] = c[i]
           /\ Limit # 0 => Cardinality(Charged(d)) <= Limit
           /\ allowed => Reserved(d, id)
<1>. DEFINE e == NewEvent(kind, allowed, t)
            d == [c EXCEPT ![id] = e]
<1>0. allowed \in BOOLEAN
  BY DEF Allows
<1>1. e \in Event /\ e # None
  <2>1. NewEvent(kind, TRUE, t) \in Event /\ NewEvent(kind, FALSE, t) \in Event
    BY DEF NewEvent, Event, Statuses
  <2>2. allowed = TRUE \/ allowed = FALSE
    BY <1>0
  <2>3. e \in Event
    BY <2>1, <2>2
  <2>. QED  BY <2>3, HelpAssumption
<1>2. e.kind = kind /\ e.allowed = allowed /\ e.charged /\ (allowed => e.status = "pending")
  BY DEF NewEvent
<1>. HIDE DEF e
<1>3. d \in Log /\ d[id] = e /\ \A i \in Requests \ {id} : d[i] = c[i]
  BY <1>1 DEF Log
<1>. HIDE DEF d
<1>4. ASSUME Limit # 0 PROVE Cardinality(Charged(d)) <= Limit
  <2>1. CASE kind = "ai" /\ allowed
    <3>1. Charged(d) \subseteq Charged(c) \cup {id}
      BY <1>3 DEF Charged, Recorded
    <3>2. Cardinality(Charged(c)) \in Nat /\ ~(Cardinality(Charged(c)) >= Limit)
      BY <1>4, <2>1, ChargesAreMonotone DEF Allows, Exhausted
    <3>3. IsFiniteSet(Charged(c) \cup {id}) /\ IsFiniteSet(Charged(c))
      BY ChargedIsFinite, FS_AddElement
    <3>4. /\ Cardinality(Charged(c) \cup {id}) \in Nat
          /\ Cardinality(Charged(c) \cup {id}) <= Cardinality(Charged(c)) + 1
      BY <3>2, <3>3, FS_AddElement, FS_CardinalityType
    <3>5. /\ Cardinality(Charged(d)) \in Nat
          /\ Cardinality(Charged(d)) <= Cardinality(Charged(c) \cup {id})
      BY <3>1, <3>3, FS_Subset, ChargedIsFinite, FS_CardinalityType
    <3>. QED  BY <3>2, <3>4, <3>5, HelpAssumption
  <2>2. CASE ~(kind = "ai" /\ allowed)
    <3>1. Charged(d) \subseteq Charged(c)
      BY <1>2, <1>3, <2>2 DEF Charged, Recorded
    <3>. QED  BY <1>4, <3>1, ChargesAreMonotone, HelpAssumption
  <2>. QED  BY <2>1, <2>2
<1>5. allowed => Reserved(d, id)
  BY <1>1, <1>2, <1>3 DEF Reserved
<1>. QED  BY <1>1, <1>3, <1>4, <1>5 DEF d, e

\* The first block of record_help_request is sound.
LEMMA RecordIsSound ==
    ASSUME Inv, NEW w \in Workers, At(w, "lock")
    PROVE  SoundOutcome(w, RecordOutcome(job[w]))
<1>. DEFINE j == job[w]
            c == Release(log.now, j.at)
            allowed == Allows(c, j.kind)
            d == [c EXCEPT ![j.id] = NewEvent(j.kind, allowed, j.at)]
<1>0. /\ j.id \in Requests /\ j.kind \in Kinds /\ j.at \in Nat
      /\ log.now \in Log /\ ~Calling(w)
  BY DEF Inv, TypeOK, JobsAreOrderly, Job, At, Calling
<1>1. /\ c \in Log
      /\ \A i \in Requests : log.now[i] = None <=> c[i] = None
      /\ Charged(c) \subseteq Charged(log.now)
  BY <1>0, ReleaseIsSound
<1>2. ASSUME NEW out \in Statuses \cup {None}
      PROVE  SoundOutcome(w, Outcome(c, out, "idle"))
  BY <1>0, ReconciledIsSound
<1>3. /\ Limit # 0 => Cardinality(Charged(c)) <= Limit
      /\ \A v \in Workers \ {w} : Calling(v) => Reserved(c, job[v].id)
  BY <1>2 DEF SoundOutcome, Outcome
<1>4. SoundOutcome(w, Outcome(log.now, None, "idle"))
  BY UnchangedIsSound
<1>5. ASSUME c[j.id] # None
      PROVE  (IF c[j.id].status = "pending" THEN None ELSE c[j.id].status)
                \in Statuses \cup {None}
  BY <1>0, <1>1, <1>5 DEF Log, Event
<1>. HIDE DEF c
<1>6. ASSUME c[j.id] = None
      PROVE  SoundOutcome(w, Outcome(d, IF allowed THEN None ELSE "none",
                                     IF allowed THEN "call" ELSE "idle"))
  <2>1. /\ d \in Log /\ d[j.id] # None
        /\ \A i \in Requests \ {j.id} : d[i] = c[i]
        /\ Limit # 0 => Cardinality(Charged(d)) <= Limit
        /\ allowed => Reserved(d, j.id)
    BY <1>0, <1>1, <1>3, <1>6, NewEventIsSound
  <2>. HIDE DEF d, allowed
  <2>2. \A i \in Requests : log.now[i] # None => d[i] # None
    BY <1>0, <1>1, <2>1
  <2>3. ASSUME NEW v \in Workers \ {w}, Calling(v) PROVE Reserved(d, job[v].id)
    <3>1. job[v].id \in Requests
      BY <2>3 DEF Inv, JobsAreOrderly, Engaged
    <3>2. Reserved(c, job[v].id)
      BY <1>3, <2>3
    <3>. QED  BY <1>6, <2>1, <3>1, <3>2 DEF Reserved
  <2>4. log.now[j.id] = None
    BY <1>0, <1>1, <1>6
  <2>5. CASE allowed
    BY <1>0, <2>1, <2>2, <2>3, <2>4, <2>5 DEF SoundOutcome, Outcome
  <2>6. CASE ~allowed
    BY <1>0, <2>1, <2>2, <2>3, <2>6 DEF SoundOutcome, Outcome, Statuses
  <2>. QED  BY <2>5, <2>6
<1>. HIDE DEF d, allowed
<1>7. RecordOutcome(j) =
        IF c[j.id] # None THEN
            IF c[j.id].kind # j.kind THEN Outcome(log.now, None, "idle")
            ELSE Outcome(c, IF c[j.id].status = "pending" THEN None ELSE c[j.id].status, "idle")
        ELSE IF j.only THEN Outcome(c, None, "idle")
        ELSE IF Cardinality(Recorded(c)) >= MaxEvents THEN Outcome(log.now, None, "idle")
        ELSE Outcome(d, IF allowed THEN None ELSE "none", IF allowed THEN "call" ELSE "idle")
  BY DEF RecordOutcome, c, d, allowed
<1>8. CASE c[j.id] # None
  <2>1. CASE c[j.id].kind # j.kind
    BY <1>4, <1>7, <1>8, <2>1
  <2>2. CASE c[j.id].kind = j.kind
    BY <1>2, <1>5, <1>7, <1>8, <2>2
  <2>. QED  BY <2>1, <2>2
<1>9. CASE c[j.id] = None
  <2>1. CASE j.only
    BY <1>2, <1>7, <1>9, <2>1
  <2>2. CASE ~j.only /\ Cardinality(Recorded(c)) >= MaxEvents
    BY <1>4, <1>7, <1>9, <2>2
  <2>3. CASE ~j.only /\ ~(Cardinality(Recorded(c)) >= MaxEvents)
    BY <1>6, <1>7, <1>9, <2>3
  <2>. QED  BY <2>1, <2>2, <2>3
<1>. QED  BY <1>8, <1>9

\* Settling a call charges nothing that was not reserved.
LEMMA SettleIsSound ==
    ASSUME Inv, NEW w \in Workers, At(w, "settle")
    PROVE  SoundOutcome(w, SettleOutcome(job[w]))
<1>. DEFINE id == job[w].id
            c == log.now
            e == [c[id] EXCEPT !.status = "completed", !.charged = TRUE]
            d == [c EXCEPT ![id] = e]
<1>0. c \in Log /\ id \in Requests /\ Reserved(c, id)
  BY DEF Inv, TypeOK, JobsAreOrderly, Engaged, Calling, RunningCallsAreReserved
<1>1. c[id] \in Event
  BY <1>0 DEF Reserved, Log
<1>2. e \in Event /\ e # None /\ e.kind = c[id].kind /\ e.allowed = c[id].allowed
  BY <1>1, HelpAssumption DEF Event, Statuses
<1>. HIDE DEF e
<1>3. d[id] = e /\ \A i \in Requests \ {id} : d[i] = c[i]
  BY <1>0 DEF Log
<1>4. d \in Log
  BY <1>0, <1>2 DEF Log
<1>. HIDE DEF d
<1>5. d[id].kind = c[id].kind /\ d[id].allowed = c[id].allowed
  BY <1>3, <1>2
<1>6. Charged(d) \subseteq Charged(c)
  BY <1>0, <1>3, <1>5 DEF Charged, Recorded, Reserved
<1>7. Limit # 0 => Cardinality(Charged(d)) <= Limit
  BY <1>6, ChargesAreMonotone, LogKeepsBudget, HelpAssumption DEF Inv
<1>8. ASSUME NEW v \in Workers \ {w}, Calling(v) PROVE Reserved(d, job[v].id)
  <2>1. job[v].id \in Requests \ {id} /\ Reserved(c, job[v].id)
    BY <1>8 DEF Inv, JobsAreOrderly, Engaged, Calling, RunningCallsAreReserved
  <2>. QED  BY <1>3, <2>1 DEF Reserved
<1>9. \A i \in Requests : c[i] # None => d[i] # None
  BY <1>3, <1>2
<1>. QED  BY <1>0, <1>4, <1>7, <1>8, <1>9 DEF SoundOutcome, SettleOutcome, Outcome, Statuses, d, e

\* A worker that becomes idle, outside the lock or leaving it, disturbs nothing:
\* what the invariant says of a worker, it says of one that is not idle.
LEMMA RestKeepsInv ==
    ASSUME Inv, NEW w \in Workers, job' = [job EXCEPT ![w] = Idle],
           UNCHANGED <<log, called>>, now' \in Nat,
           \/ UNCHANGED holder
           \/ Saving(w) /\ holder' = None,
           active' \subseteq Requests,
           \A v \in Workers \ {w} : Calling(v) => job[v].id \in active'
    PROVE  Inv'
<1>1. Idle \in Job
  BY HelpAssumption DEF Idle, Job, Kinds, Statuses
<1>2. /\ job \in [Workers -> Job] /\ job'[w] = Idle
      /\ \A v \in Workers \ {w} : job'[v] = job[v]
  BY DEF Inv, TypeOK
<1>3. /\ ~Saving(w)' /\ ~Calling(w)' /\ ~Engaged(w)'
      /\ ~At(w, "write")' /\ ~At(w, "sync")' /\ ~At(w, "lock")' /\ ~At(w, "call")'
      /\ ~At(w, "settle")' /\ ~At(w, "clear")'
  BY <1>2 DEF Saving, Calling, Engaged, At, Idle
<1>4. TypeOK'
  BY <1>1 DEF Inv, TypeOK
<1>5. JobsAreOrderly'
  BY <1>2, <1>3 DEF Inv, JobsAreOrderly, Saving, Calling, Engaged, At
<1>6. RunningCallsAreReserved'
  BY <1>2, <1>3 DEF Inv, RunningCallsAreReserved, Calling, At, Reserved
<1>7. SavesAreSound'
  BY <1>2, <1>3 DEF Inv, SavesAreSound, Calling, At, Reserved
<1>8. CallsAreCounted'
  BY <1>2, <1>3 DEF Inv, CallsAreCounted, Saving, At, Reserved
<1>9. CallsAreRecorded'
  BY <1>2, <1>3 DEF Inv, CallsAreRecorded, At
<1>10. BudgetHolds' /\ OneCallPerRequest'
  BY DEF Inv, BudgetHolds, OneCallPerRequest
<1>. QED  BY <1>4, <1>5, <1>6, <1>7, <1>8, <1>9, <1>10 DEF Inv

\* Entering the lock with a sound outcome keeps the invariant.
LEMMA EnterKeepsInv ==
    ASSUME Inv, NEW w \in Workers, NEW o, SoundOutcome(w, o),
           At(w, "lock") \/ At(w, "read") \/ At(w, "settle"),
           Enter(w, job[w], o)
    PROVE  Inv'
<1>1. CASE o.content = log.now
  <2>1. \A v \in Workers : Calling(v) => job[v].id \in active
    BY DEF Inv, RunningCallsAreReserved
  <2>2. /\ job' = [job EXCEPT ![w] = Idle] /\ UNCHANGED <<log, called, active, holder, now>>
    BY <1>1 DEF Enter
  <2>3. now' \in Nat /\ active' \subseteq Requests
    BY <2>2 DEF Inv, TypeOK
  <2>. QED  BY <2>1, <2>2, <2>3, RestKeepsInv
<1>2. CASE o.content # log.now
  <2>. DEFINE k == [job[w] EXCEPT !.pc = "write", !.content = o.content,
                                  !.out = o.out, !.then = o.then]
  <2>1. /\ job' = [job EXCEPT ![w] = k]
        /\ holder = None /\ holder' = w
        /\ UNCHANGED <<log, active, now, called>>
    BY <1>2 DEF Enter
  <2>2. job[w] \in Job /\ job \in [Workers -> Job] /\ None \notin Workers
    BY HelpAssumption DEF Inv, TypeOK
  <2>3. /\ k \in Job /\ k.pc = "write" /\ k.content = o.content /\ k.then = o.then
        /\ k.id = job[w].id /\ k.kind = job[w].kind
    BY <2>2 DEF SoundOutcome, Job
  <2>. HIDE DEF k
  <2>4. job'[w] = k /\ \A v \in Workers \ {w} : job'[v] = job[v]
    BY <2>1, <2>2
  <2>5. /\ At(w, "write")' /\ Saving(w)' /\ ~Calling(w)' /\ ~At(w, "sync")'
        /\ ~At(w, "lock")' /\ ~At(w, "clear")' /\ ~At(w, "call")' /\ ~At(w, "settle")'
    BY <2>3, <2>4 DEF At, Saving, Calling
  <2>6. \A v \in Workers : ~Saving(v)
    BY <2>1, <2>2 DEF Inv, JobsAreOrderly
  <2>7. ASSUME NEW v \in Workers \ {w}
        PROVE  /\ ~Saving(v)'
               /\ Calling(v)' <=> Calling(v)
               /\ Engaged(v)' => Calling(v) \/ At(v, "clear")
               /\ \A l \in STRING : At(v, l)' <=> At(v, l)
    BY <2>4, <2>6 DEF Saving, Calling, Engaged, At
  <2>8. TypeOK'
    BY <2>1, <2>2, <2>3 DEF Inv, TypeOK
  <2>9. JobsAreOrderly'
    <3>1. ASSUME NEW v \in Workers \ {w}, Engaged(v)', Engaged(w)'
          PROVE  job'[v].id # job'[w].id
      <4>1. o.then # "idle" /\ (Calling(v) \/ At(v, "clear"))
        BY <2>3, <2>4, <2>5, <2>7, <3>1 DEF Engaged
      <4>2. CASE o.then = "call"
        <5>1. log.now[job[w].id] = None
          BY <4>2 DEF SoundOutcome
        <5>2. CASE Calling(v)
          BY <2>3, <2>4, <5>1, <5>2 DEF Inv, RunningCallsAreReserved, Reserved
        <5>3. CASE At(v, "clear")
          <6>1. job[v].id \in Requests /\ called[job[v].id] # 0 /\ log.now \in log.after
            BY <5>3 DEF Inv, TypeOK, JobsAreOrderly, Engaged, CallsAreCounted
          <6>2. log.now[job[v].id] # None
            BY <6>1 DEF Inv, CallsAreRecorded
          <6>. QED  BY <2>3, <2>4, <5>1, <6>2
        <5>. QED  BY <4>1, <5>2, <5>3
      <4>3. CASE o.then = "clear"
        <5>1. Engaged(w) /\ Engaged(v)
          BY <4>1, <4>3 DEF SoundOutcome, Engaged, Calling
        <5>. QED  BY <2>3, <2>4, <5>1 DEF Inv, JobsAreOrderly
      <4>. QED  BY <4>1, <4>2, <4>3 DEF SoundOutcome
    <3>2. Engaged(w)' => job'[w].id \in Requests
      BY <2>3, <2>4, <2>5 DEF Engaged, SoundOutcome
    <3>3. job'[w].content \in Log
      BY <2>3, <2>4 DEF SoundOutcome
    <3>4. ASSUME NEW v \in Workers \ {w}
          PROVE  /\ At(v, "lock")' => job'[v].id \in Requests /\ job'[v].kind \in Kinds
                 /\ At(v, "write")' => job'[v].content \in Log
                 /\ Engaged(v)' => job'[v].id \in Requests
                 /\ ~Saving(v)'
      BY <2>4, <2>7 DEF Inv, JobsAreOrderly, Engaged, At
    <3>5. ASSUME NEW u \in Workers \ {w}, NEW v \in Workers \ {w}, u # v,
                 Engaged(u)', Engaged(v)'
          PROVE  job'[u].id # job'[v].id
      BY <2>4, <2>7, <3>5 DEF Inv, JobsAreOrderly, Engaged
    <3>. QED  BY <2>1, <2>5, <3>1, <3>2, <3>3, <3>4, <3>5 DEF JobsAreOrderly
  <2>10. RunningCallsAreReserved'
    BY <2>1, <2>4, <2>5, <2>7 DEF Inv, RunningCallsAreReserved, Reserved
  <2>11. SavesAreSound'
    <3>1. ASSUME NEW v \in Workers \ {w} PROVE ~At(v, "write")'
      BY <2>7 DEF Saving
    <3>2. ASSUME NEW v \in Workers, Calling(v)' PROVE Reserved(o.content, job'[v].id)
      BY <2>4, <2>5, <2>7, <3>2 DEF SoundOutcome
    <3>3. o.then = "call" => Reserved(o.content, job'[w].id)
      BY <2>3, <2>4 DEF SoundOutcome
    <3>4. job'[w].content = o.content /\ job'[w].then = o.then
      BY <2>3, <2>4
    <3>5. /\ \A i \in Requests : log'.now[i] # None => o.content[i] # None
          /\ Limit # 0 => Cardinality(Charged(o.content)) <= Limit
      BY <2>1 DEF SoundOutcome
    <3>. QED  BY <3>1, <3>2, <3>3, <3>4, <3>5 DEF SavesAreSound
  <2>12. CallsAreCounted'
    <3>1. ASSUME NEW v \in Workers \ {w}
          PROVE  /\ At(v, "call")' => called'[job'[v].id] = 0
                 /\ At(v, "settle")' \/ At(v, "clear")' => called'[job'[v].id] # 0
                 /\ ~Saving(v)' /\ ~At(v, "sync")'
      BY <2>1, <2>4, <2>7 DEF Inv, CallsAreCounted, At, Saving
    <3>2. o.then = "call" => called[job[w].id] = 0
      <4>1. log.now \in log.after
        BY DEF Inv, TypeOK
      <4>. QED  BY <4>1 DEF Inv, CallsAreRecorded, SoundOutcome
    <3>3. o.then = "clear" => called[job[w].id] # 0
      BY DEF Inv, CallsAreCounted, SoundOutcome
    <3>. QED  BY <2>1, <2>3, <2>4, <2>5, <3>1, <3>2, <3>3 DEF CallsAreCounted
  <2>13. CallsAreRecorded'
    BY <2>1, <2>4, <2>5, <2>7 DEF Inv, CallsAreRecorded, At
  <2>14. BudgetHolds' /\ OneCallPerRequest'
    BY <2>1 DEF Inv, BudgetHolds, OneCallPerRequest, Charged, Recorded
  <2>. QED  BY <2>8, <2>9, <2>10, <2>11, <2>12, <2>13, <2>14 DEF Inv
<1>. QED  BY <1>1, <1>2

\* A request or a reader that arrives is not engaged in anything yet.
LEMMA ArrivalKeepsInv ==
    ASSUME Inv, NEW w \in Workers, At(w, "idle"),
           ReadSummary(w) \/ \E id \in Requests, kind \in Kinds, only \in BOOLEAN :
                                Request(w, id, kind, only)
    PROVE  Inv'
<1>1. PICK k \in Job :
        /\ job' = [job EXCEPT ![w] = k]
        /\ k.pc = "read" \/ (k.pc = "lock" /\ k.id \in Requests /\ k.kind \in Kinds)
  <2>0. job[w] \in Job /\ now \in Nat
    BY DEF Inv, TypeOK
  <2>1. CASE ReadSummary(w)
    <3>1. [job[w] EXCEPT !.pc = "read"] \in Job
      BY <2>0 DEF Job
    <3>. QED  BY <2>0, <2>1, <3>1 DEF ReadSummary, Job
  <2>2. ASSUME NEW id \in Requests, NEW kind \in Kinds, NEW only \in BOOLEAN,
               Request(w, id, kind, only)
        PROVE  \E k \in Job :
                /\ job' = [job EXCEPT ![w] = k]
                /\ k.pc = "read" \/ (k.pc = "lock" /\ k.id \in Requests /\ k.kind \in Kinds)
    <3>. DEFINE k == [Idle EXCEPT !.pc = "lock", !.id = id, !.kind = kind,
                                  !.only = only, !.at = now]
    <3>1. k \in Job /\ k.pc = "lock" /\ k.id = id /\ k.kind = kind
      BY <2>0, HelpAssumption DEF Idle, Job, Statuses
    <3>2. job' = [job EXCEPT ![w] = k]
      BY <2>2 DEF Request
    <3>. QED  BY <3>1, <3>2
  <2>. QED  BY <2>1, <2>2
<1>2. UNCHANGED <<log, active, holder, now, called>>
  BY DEF ReadSummary, Request
<1>3. /\ job \in [Workers -> Job] /\ job'[w] = k
      /\ \A v \in Workers \ {w} : job'[v] = job[v]
  BY <1>1 DEF Inv, TypeOK
<1>4. /\ ~Saving(w)' /\ ~Calling(w)' /\ ~Engaged(w)'
      /\ ~At(w, "write")' /\ ~At(w, "sync")' /\ ~At(w, "call")'
      /\ ~At(w, "settle")' /\ ~At(w, "clear")'
      /\ At(w, "lock")' => job'[w].id \in Requests /\ job'[w].kind \in Kinds
  BY <1>1, <1>3 DEF Saving, Calling, Engaged, At
<1>5. TypeOK'
  BY <1>1, <1>2 DEF Inv, TypeOK
<1>6. JobsAreOrderly'
  BY <1>2, <1>3, <1>4 DEF Inv, JobsAreOrderly, Saving, Calling, Engaged, At
<1>7. RunningCallsAreReserved'
  BY <1>2, <1>3, <1>4 DEF Inv, RunningCallsAreReserved, Calling, At, Reserved
<1>8. SavesAreSound'
  BY <1>2, <1>3, <1>4 DEF Inv, SavesAreSound, Calling, At, Reserved
<1>9. CallsAreCounted'
  BY <1>2, <1>3, <1>4 DEF Inv, CallsAreCounted, Saving, At, Reserved
<1>10. CallsAreRecorded'
  BY <1>2, <1>3, <1>4 DEF Inv, CallsAreRecorded, At
<1>11. BudgetHolds' /\ OneCallPerRequest'
  BY <1>2 DEF Inv, BudgetHolds, OneCallPerRequest
<1>. QED  BY <1>5, <1>6, <1>7, <1>8, <1>9, <1>10, <1>11 DEF Inv

\* While a worker saves, no other does.
LEMMA OneSaver ==
    ASSUME Inv, NEW w \in Workers, Saving(w), NEW v \in Workers \ {w}
    PROVE  ~Saving(v) /\ ~At(v, "write") /\ ~At(v, "sync")
BY DEF Inv, JobsAreOrderly, Saving

\* os.replace of the log: what was sound to save is now what is there.
LEMMA ReplaceKeepsInv ==
    ASSUME Inv, NEW w \in Workers, Replace(w)
    PROVE  Inv'
<1>. DEFINE c == job[w].content
            k == [job[w] EXCEPT !.pc = "sync", !.content = None]
<1>1. /\ At(w, "write") /\ Saving(w) /\ job' = [job EXCEPT ![w] = k]
      /\ log' = [now |-> c, after |-> log.after \cup {c}]
      /\ UNCHANGED <<active, holder, now, called>>
  BY DEF Replace, Changed, Saving, Inv, TypeOK
<1>2. /\ job \in [Workers -> Job] /\ job[w] \in Job /\ c \in Log
      /\ \A i \in Requests : log.now[i] # None => c[i] # None
      /\ Limit # 0 => Cardinality(Charged(c)) <= Limit
      /\ job[w].then = "call" => Reserved(c, job[w].id)
      /\ \A v \in Workers : Calling(v) => Reserved(c, job[v].id)
  BY <1>1 DEF Inv, TypeOK, JobsAreOrderly, SavesAreSound
<1>3. k \in Job /\ k.pc = "sync" /\ k.id = job[w].id /\ k.then = job[w].then
  BY <1>2 DEF Job
<1>. HIDE DEF k, c
<1>4. job'[w] = k /\ \A v \in Workers \ {w} : job'[v] = job[v]
  BY <1>1, <1>2
<1>5. /\ At(w, "sync")' /\ Saving(w)' /\ ~Calling(w)' /\ ~Calling(w) /\ ~At(w, "write")'
      /\ ~At(w, "lock")' /\ ~At(w, "clear")' /\ ~At(w, "call")' /\ ~At(w, "settle")'
      /\ Engaged(w)' <=> Engaged(w)
  BY <1>1, <1>3, <1>4 DEF At, Saving, Calling, Engaged
<1>6. ASSUME NEW v \in Workers \ {w}
      PROVE  /\ ~Saving(v)' /\ ~At(v, "write")' /\ ~At(v, "sync")'
             /\ Calling(v)' <=> Calling(v)
             /\ Engaged(v)' <=> Engaged(v)
             /\ At(v, "call")' <=> At(v, "call")
  BY <1>1, <1>4, OneSaver DEF Saving, Calling, Engaged, At
<1>7. log'.now = c /\ log'.after = log.after \cup {c} /\ DOMAIN log' = {"now", "after"}
  BY <1>1
<1>8. TypeOK'
  BY <1>1, <1>2, <1>3, <1>7 DEF Inv, TypeOK
<1>9. JobsAreOrderly'
  BY <1>1, <1>3, <1>4, <1>5, <1>6 DEF Inv, JobsAreOrderly, At, Saving
<1>10. RunningCallsAreReserved'
  <2>1. ASSUME NEW v \in Workers, Calling(v)'
        PROVE  job'[v].id \in active' /\ Reserved(log'.now, job'[v].id)
    BY <1>1, <1>2, <1>4, <1>5, <1>6, <1>7, <2>1 DEF Inv, RunningCallsAreReserved
  <2>. QED  BY <2>1 DEF RunningCallsAreReserved
<1>11. SavesAreSound'
  BY <1>5, <1>6 DEF SavesAreSound
<1>12. CallsAreCounted'
  <2>1. ASSUME NEW v \in Workers \ {w}
        PROVE  /\ At(v, "call")' => called'[job'[v].id] = 0
               /\ At(v, "settle")' \/ At(v, "clear")' => called'[job'[v].id] # 0
    BY <1>1, <1>4 DEF Inv, CallsAreCounted, At
  <2>2. /\ job'[w].then = "call" => called'[job'[w].id] = 0 /\ Reserved(log'.now, job'[w].id)
        /\ job'[w].then = "clear" => called'[job'[w].id] # 0
    BY <1>1, <1>2, <1>3, <1>4, <1>7 DEF Inv, CallsAreCounted
  <2>. QED  BY <1>5, <1>6, <2>1, <2>2 DEF CallsAreCounted
<1>13. CallsAreRecorded'
  <2>1. ASSUME NEW i \in Requests,
               called'[i] # 0 \/ \E v \in Workers : At(v, "call")' /\ job'[v].id = i
        PROVE  called[i] # 0 \/ \E v \in Workers : At(v, "call") /\ job[v].id = i
    BY <1>1, <1>4, <1>5, <1>6, <2>1
  <2>2. log.now \in log.after
    BY DEF Inv, TypeOK
  <2>3. ASSUME NEW i \in Requests,
               called'[i] # 0 \/ \E v \in Workers : At(v, "call")' /\ job'[v].id = i
        PROVE  c[i] # None /\ \A d \in log.after : d[i] # None
    BY <1>2, <2>1, <2>2, <2>3 DEF Inv, CallsAreRecorded
  <2>. QED  BY <1>7, <2>3 DEF CallsAreRecorded
<1>14. BudgetHolds'
  BY <1>2, <1>7 DEF Inv, BudgetHolds
<1>15. OneCallPerRequest'
  BY <1>1 DEF Inv, OneCallPerRequest
<1>. QED  BY <1>8, <1>9, <1>10, <1>11, <1>12, <1>13, <1>14, <1>15 DEF Inv

\* The sync that ends a save puts the log on disk, ends the call, or starts the
\* reserved call and makes it active.
LEMMA SyncKeepsInv ==
    ASSUME Inv, NEW w \in Workers, Sync(w)
    PROVE  Inv'
<1>. DEFINE then == job[w].then
            k == IF then = "idle" THEN Idle ELSE [job[w] EXCEPT !.pc = then]
<1>1. /\ At(w, "sync") /\ Saving(w) /\ job' = [job EXCEPT ![w] = k]
      /\ log' = [now |-> log.now, after |-> {log.now}]
      /\ holder' = None
      /\ active' = IF then = "call" THEN active \cup {job[w].id} ELSE active
      /\ UNCHANGED <<now, called>>
  BY DEF Sync, Synced, OnDisk, Saving
<1>2. /\ job \in [Workers -> Job] /\ job[w] \in Job /\ then \in {"idle", "call", "clear"}
      /\ log.now \in Log /\ log.now \in log.after
  BY DEF Inv, TypeOK, Job
<1>3. /\ k \in Job
      /\ k.pc = then
      /\ then # "idle" => k.id = job[w].id
  <2>1. CASE then = "idle"
    BY <2>1, HelpAssumption DEF Idle, Job, Kinds, Statuses
  <2>2. CASE then # "idle"
    BY <1>2, <2>2 DEF Job
  <2>. QED  BY <2>1, <2>2
<1>4. then # "idle" => Engaged(w) /\ job[w].id \in Requests
  BY <1>1 DEF Inv, JobsAreOrderly, Engaged
<1>5. /\ then = "call" => called[job[w].id] = 0 /\ Reserved(log.now, job[w].id)
      /\ then = "clear" => called[job[w].id] # 0
  BY <1>1 DEF Inv, CallsAreCounted
<1>. HIDE DEF k
<1>6. job'[w] = k /\ \A v \in Workers \ {w} : job'[v] = job[v]
  BY <1>1, <1>2
<1>7. /\ ~Saving(w)' /\ ~At(w, "write")' /\ ~At(w, "sync")' /\ ~At(w, "lock")'
      /\ ~At(w, "settle")'
      /\ At(w, "call")' <=> then = "call"
      /\ Calling(w)' <=> then = "call"
      /\ At(w, "clear")' <=> then = "clear"
      /\ Engaged(w)' <=> then # "idle"
  BY <1>2, <1>3, <1>6 DEF At, Saving, Calling, Engaged
<1>8. ASSUME NEW v \in Workers \ {w}
      PROVE  /\ ~Saving(v)' /\ ~At(v, "write")' /\ ~At(v, "sync")'
             /\ Calling(v)' <=> Calling(v)
             /\ Engaged(v)' <=> Engaged(v)
             /\ At(v, "call")' <=> At(v, "call")
  BY <1>1, <1>6, OneSaver DEF Saving, Calling, Engaged, At
<1>9. log'.now = log.now /\ log'.after = {log.now} /\ DOMAIN log' = {"now", "after"}
  BY <1>1
<1>10. TypeOK'
  <2>1. active' \subseteq Requests
    BY <1>1, <1>4 DEF Inv, TypeOK
  <2>. QED  BY <1>1, <1>2, <1>3, <1>9, <2>1 DEF Inv, TypeOK
<1>11. JobsAreOrderly'
  <2>1. ASSUME NEW v \in Workers
        PROVE  /\ ~Saving(v)' /\ ~At(v, "write")'
               /\ At(v, "lock")' => job'[v].id \in Requests /\ job'[v].kind \in Kinds
               /\ Engaged(v)' => Engaged(v) /\ job'[v].id = job[v].id
    BY <1>3, <1>4, <1>6, <1>7, <1>8 DEF Inv, JobsAreOrderly, At
  <2>. QED  BY <2>1 DEF Inv, JobsAreOrderly
<1>12. RunningCallsAreReserved'
  <2>1. ASSUME NEW v \in Workers, Calling(v)'
        PROVE  job'[v].id \in active' /\ Reserved(log'.now, job'[v].id)
    BY <1>1, <1>3, <1>5, <1>6, <1>7, <1>8, <1>9, <2>1 DEF Inv, RunningCallsAreReserved
  <2>. QED  BY <2>1 DEF RunningCallsAreReserved
<1>13. SavesAreSound'
  BY <1>7, <1>8 DEF SavesAreSound
<1>14. CallsAreCounted'
  <2>1. ASSUME NEW v \in Workers \ {w}
        PROVE  /\ At(v, "call")' => called'[job'[v].id] = 0
               /\ At(v, "settle")' \/ At(v, "clear")' => called'[job'[v].id] # 0
    BY <1>1, <1>6 DEF Inv, CallsAreCounted, At
  <2>2. /\ At(w, "call")' => called'[job'[w].id] = 0
        /\ At(w, "clear")' => called'[job'[w].id] # 0
    BY <1>1, <1>3, <1>5, <1>6, <1>7
  <2>. QED  BY <1>7, <1>8, <2>1, <2>2 DEF CallsAreCounted
<1>15. CallsAreRecorded'
  <2>1. ASSUME NEW i \in Requests,
               called'[i] # 0 \/ \E v \in Workers : At(v, "call")' /\ job'[v].id = i
        PROVE  log.now[i] # None
    <3>1. CASE called[i] # 0
      BY <1>2, <3>1 DEF Inv, CallsAreRecorded
    <3>2. ASSUME NEW v \in Workers \ {w}, At(v, "call")', job'[v].id = i
          PROVE  log.now[i] # None
      BY <1>2, <1>6, <1>8, <3>2 DEF Inv, CallsAreRecorded
    <3>3. CASE At(w, "call")' /\ job'[w].id = i
      BY <1>3, <1>5, <1>6, <1>7, <3>3 DEF Reserved
    <3>. QED  BY <1>1, <2>1, <3>1, <3>2, <3>3
  <2>. QED  BY <1>9, <2>1 DEF CallsAreRecorded
<1>16. BudgetHolds'
  BY <1>2, <1>9 DEF Inv, BudgetHolds
<1>17. OneCallPerRequest'
  BY <1>1 DEF Inv, OneCallPerRequest
<1>. QED  BY <1>10, <1>11, <1>12, <1>13, <1>14, <1>15, <1>16, <1>17 DEF Inv

\* A save that fails leaves the reservations as they were: a reserved call is
\* never made, and a call that was made is ended.
LEMMA SaveFailsKeepsInv ==
    ASSUME Inv, NEW w \in Workers, SaveFails(w)
    PROVE  Inv'
<1>. DEFINE k == [job[w] EXCEPT !.pc = "clear", !.content = None]
<1>1. /\ Saving(w) /\ holder' = None
      /\ UNCHANGED <<log, active, now, called>>
  BY DEF SaveFails, Saving
<1>2. CASE job[w].then # "clear"
  <2>1. job' = [job EXCEPT ![w] = Idle]
    BY <1>2 DEF SaveFails
  <2>2. now' \in Nat /\ active' \subseteq Requests
    BY <1>1 DEF Inv, TypeOK
  <2>3. \A v \in Workers : Calling(v) => job[v].id \in active'
    BY <1>1 DEF Inv, RunningCallsAreReserved
  <2>. QED  BY <1>1, <2>1, <2>2, <2>3, RestKeepsInv
<1>3. CASE job[w].then = "clear"
  <2>1. job' = [job EXCEPT ![w] = k]
    BY <1>3 DEF SaveFails
  <2>2. job \in [Workers -> Job] /\ job[w] \in Job
    BY DEF Inv, TypeOK
  <2>3. k \in Job /\ k.pc = "clear" /\ k.id = job[w].id
    BY <2>2 DEF Job
  <2>4. Engaged(w) /\ called[job[w].id] # 0
    BY <1>1, <1>3 DEF Engaged, Inv, CallsAreCounted
  <2>. HIDE DEF k
  <2>5. job'[w] = k /\ \A v \in Workers \ {w} : job'[v] = job[v]
    BY <2>1, <2>2
  <2>6. /\ ~Saving(w)' /\ ~At(w, "write")' /\ ~At(w, "sync")' /\ ~At(w, "lock")'
        /\ ~Calling(w)' /\ ~At(w, "call")' /\ ~At(w, "settle")' /\ Engaged(w)'
    BY <2>3, <2>5 DEF At, Saving, Calling, Engaged
  <2>7. ASSUME NEW v \in Workers \ {w}
        PROVE  /\ ~Saving(v)' /\ ~At(v, "write")' /\ ~At(v, "sync")'
               /\ Calling(v)' <=> Calling(v)
               /\ Engaged(v)' <=> Engaged(v)
    BY <1>1, <2>5, OneSaver DEF Saving, Calling, Engaged, At
  <2>8. TypeOK'
    BY <1>1, <2>1, <2>2, <2>3 DEF Inv, TypeOK
  <2>9. JobsAreOrderly'
    <3>1. ASSUME NEW v \in Workers
          PROVE  /\ ~Saving(v)' /\ ~At(v, "write")'
                 /\ At(v, "lock")' => job'[v].id \in Requests /\ job'[v].kind \in Kinds
                 /\ Engaged(v)' => Engaged(v) /\ job'[v].id = job[v].id
      BY <2>3, <2>4, <2>5, <2>6, <2>7 DEF Inv, JobsAreOrderly, At
    <3>. QED  BY <3>1 DEF Inv, JobsAreOrderly
  <2>10. RunningCallsAreReserved'
    BY <1>1, <2>5, <2>6, <2>7 DEF Inv, RunningCallsAreReserved
  <2>11. SavesAreSound'
    BY <2>6, <2>7 DEF SavesAreSound
  <2>12. CallsAreCounted'
    <3>1. ASSUME NEW v \in Workers \ {w}
          PROVE  /\ At(v, "call")' => called'[job'[v].id] = 0
                 /\ At(v, "settle")' \/ At(v, "clear")' => called'[job'[v].id] # 0
      BY <1>1, <2>5 DEF Inv, CallsAreCounted, At
    <3>2. called'[job'[w].id] # 0
      BY <1>1, <2>3, <2>4, <2>5
    <3>. QED  BY <2>6, <2>7, <3>1, <3>2 DEF CallsAreCounted
  <2>13. CallsAreRecorded'
    BY <1>1, <2>5, <2>6 DEF Inv, CallsAreRecorded, At
  <2>14. BudgetHolds' /\ OneCallPerRequest'
    BY <1>1 DEF Inv, BudgetHolds, OneCallPerRequest
  <2>. QED  BY <2>8, <2>9, <2>10, <2>11, <2>12, <2>13, <2>14 DEF Inv
<1>. QED  BY <1>2, <1>3

\* The provider is called for a request that was reserved and never called.
LEMMA CallKeepsInv ==
    ASSUME Inv, NEW w \in Workers, Call(w)
    PROVE  Inv'
<1>. DEFINE k == [job[w] EXCEPT !.pc = "settle"]
            id == job[w].id
<1>1. /\ At(w, "call") /\ Calling(w) /\ Engaged(w) /\ job' = [job EXCEPT ![w] = k]
      /\ called' = [called EXCEPT ![id] = called[id] + 1]
      /\ UNCHANGED <<log, active, holder, now>>
  BY DEF Call, Calling, Engaged
<1>2. /\ job \in [Workers -> Job] /\ job[w] \in Job /\ id \in Requests
      /\ called \in [Requests -> Nat] /\ called[id] = 0
  BY <1>1 DEF Inv, TypeOK, JobsAreOrderly, CallsAreCounted
<1>3. k \in Job /\ k.pc = "settle" /\ k.id = id
  BY <1>2 DEF Job
<1>4. /\ called' \in [Requests -> Nat] /\ called'[id] = 1
      /\ \A i \in Requests \ {id} : called'[i] = called[i]
  BY <1>1, <1>2
<1>. HIDE DEF k
<1>5. job'[w] = k /\ \A v \in Workers \ {w} : job'[v] = job[v]
  BY <1>1, <1>2
<1>6. /\ ~Saving(w)' /\ ~At(w, "write")' /\ ~At(w, "sync")' /\ ~At(w, "lock")'
      /\ Calling(w)' /\ ~At(w, "call")' /\ Engaged(w)'
  BY <1>3, <1>5 DEF At, Saving, Calling, Engaged
<1>7. ASSUME NEW v \in Workers \ {w}
      PROVE  /\ Saving(v)' <=> Saving(v)
             /\ Calling(v)' <=> Calling(v)
             /\ Engaged(v)' <=> Engaged(v)
             /\ At(v, "write")' <=> At(v, "write")
             /\ At(v, "sync")' <=> At(v, "sync")
             /\ At(v, "call")' <=> At(v, "call")
             /\ At(v, "settle")' <=> At(v, "settle")
             /\ At(v, "clear")' <=> At(v, "clear")
             /\ Engaged(v) => job[v].id \in Requests \ {id}
  BY <1>1, <1>5 DEF Inv, JobsAreOrderly, Saving, Calling, Engaged, At
<1>8. TypeOK'
  BY <1>1, <1>2, <1>3, <1>4 DEF Inv, TypeOK
<1>9. JobsAreOrderly'
  BY <1>1, <1>3, <1>5, <1>6, <1>7 DEF Inv, JobsAreOrderly, At
<1>10. RunningCallsAreReserved'
  BY <1>1, <1>3, <1>5, <1>6, <1>7 DEF Inv, RunningCallsAreReserved
<1>11. SavesAreSound'
  <2>1. ASSUME NEW v \in Workers, At(v, "write")'
        PROVE  /\ v # w /\ At(v, "write") /\ job'[v] = job[v]
               /\ \A u \in Workers : Calling(u)' => Calling(u) /\ job'[u].id = job[u].id
    BY <1>1, <1>3, <1>5, <1>6, <1>7, <2>1 DEF At
  <2>. QED  BY <1>1, <2>1 DEF Inv, SavesAreSound
<1>12. CallsAreCounted'
  <2>1. ASSUME NEW v \in Workers \ {w}
        PROVE  /\ Saving(v)' /\ job'[v].then = "call" => called'[job'[v].id] = 0
               /\ At(v, "sync")' /\ job'[v].then = "call" => Reserved(log'.now, job'[v].id)
               /\ At(v, "call")' => called'[job'[v].id] = 0
               /\ At(v, "settle")' \/ At(v, "clear")' => called'[job'[v].id] # 0
               /\ Saving(v)' /\ job'[v].then = "clear" => called'[job'[v].id] # 0
    <3>1. Engaged(v) => called'[job[v].id] = called[job[v].id]
      BY <1>4, <1>7
    <3>2. /\ Saving(v) /\ job[v].then # "idle" => Engaged(v)
          /\ At(v, "call") \/ At(v, "settle") \/ At(v, "clear") => Engaged(v)
      BY DEF Engaged, Calling
    <3>. QED  BY <1>1, <1>5, <1>7, <3>1, <3>2 DEF Inv, CallsAreCounted
  <2>2. called'[job'[w].id] # 0
    BY <1>3, <1>4, <1>5
  <2>. QED  BY <1>6, <2>1, <2>2 DEF CallsAreCounted
<1>13. CallsAreRecorded'
  <2>1. ASSUME NEW i \in Requests,
               called'[i] # 0 \/ \E v \in Workers : At(v, "call")' /\ job'[v].id = i
        PROVE  called[i] # 0 \/ \E v \in Workers : At(v, "call") /\ job[v].id = i
    BY <1>1, <1>4, <1>5, <1>6, <1>7, <2>1
  <2>. QED  BY <1>1, <2>1 DEF Inv, CallsAreRecorded
<1>14. BudgetHolds'
  BY <1>1 DEF Inv, BudgetHolds
<1>15. OneCallPerRequest'
  BY <1>4 DEF Inv, OneCallPerRequest
<1>. QED  BY <1>8, <1>9, <1>10, <1>11, <1>12, <1>13, <1>14, <1>15 DEF Inv

\* The finally clause takes away no other call's mark: no two are for one request.
LEMMA ClearKeepsInv ==
    ASSUME Inv, NEW w \in Workers, Clear(w)
    PROVE  Inv'
<1>1. /\ Engaged(w) /\ job' = [job EXCEPT ![w] = Idle]
      /\ active' = active \ {job[w].id}
      /\ UNCHANGED <<log, holder, now, called>>
  BY DEF Clear, Engaged
<1>2. now' \in Nat /\ active' \subseteq Requests
  BY <1>1 DEF Inv, TypeOK
<1>3. ASSUME NEW v \in Workers \ {w}, Calling(v) PROVE job[v].id \in active'
  BY <1>1, <1>3 DEF Inv, JobsAreOrderly, RunningCallsAreReserved, Engaged
<1>. QED  BY <1>1, <1>2, <1>3, RestKeepsInv

\* After a crash, or a power loss that leaves one of the contents since the last
\* sync, nobody is at work and the log still has every request called for.
LEMMA StopKeepsInv ==
    ASSUME Inv, Crash \/ LosePower
    PROVE  Inv'
<1>1. /\ log'.now \in log.after /\ log'.now \in log'.after
      /\ log'.after \subseteq log.after /\ DOMAIN log' = {"now", "after"}
  <2>1. CASE Crash
    BY <2>1 DEF Crash, Stop, Inv, TypeOK
  <2>2. CASE LosePower
    BY <2>2 DEF LosePower, Stop, OnDisk, Inv, TypeOK
  <2>. QED  BY <2>1, <2>2
<1>2. /\ active' = {} /\ holder' = None /\ job' = [w \in Workers |-> Idle]
      /\ UNCHANGED <<now, called>>
  BY DEF Crash, LosePower, Stop
<1>3. ASSUME NEW w \in Workers
      PROVE  /\ ~Saving(w)' /\ ~Calling(w)' /\ ~Engaged(w)'
             /\ ~At(w, "write")' /\ ~At(w, "sync")' /\ ~At(w, "lock")'
             /\ ~At(w, "call")' /\ ~At(w, "settle")' /\ ~At(w, "clear")'
  BY <1>2 DEF Saving, Calling, Engaged, At, Idle
<1>4. Idle \in Job
  BY HelpAssumption DEF Idle, Job, Kinds, Statuses
<1>5. TypeOK'
  BY <1>1, <1>2, <1>4 DEF Inv, TypeOK
<1>6. JobsAreOrderly' /\ RunningCallsAreReserved' /\ SavesAreSound' /\ CallsAreCounted'
  BY <1>3 DEF JobsAreOrderly, RunningCallsAreReserved, SavesAreSound, CallsAreCounted
<1>7. CallsAreRecorded'
  BY <1>1, <1>2, <1>3 DEF Inv, CallsAreRecorded
<1>8. BudgetHolds' /\ OneCallPerRequest'
  BY <1>1, <1>2 DEF Inv, BudgetHolds, OneCallPerRequest
<1>. QED  BY <1>5, <1>6, <1>7, <1>8 DEF Inv

\* The invariant does not read the clock.
LEMMA ClockKeepsInv ==
    ASSUME Inv, now' \in Nat, UNCHANGED <<log, active, holder, job, called>>
    PROVE  Inv'
<1>1. ASSUME NEW w \in Workers
      PROVE  /\ Saving(w)' <=> Saving(w)
             /\ Calling(w)' <=> Calling(w)
             /\ Engaged(w)' <=> Engaged(w)
             /\ At(w, "write")' <=> At(w, "write")
             /\ At(w, "sync")' <=> At(w, "sync")
             /\ At(w, "lock")' <=> At(w, "lock")
             /\ At(w, "call")' <=> At(w, "call")
             /\ At(w, "settle")' <=> At(w, "settle")
             /\ At(w, "clear")' <=> At(w, "clear")
  BY DEF Saving, Calling, Engaged, At
<1>2. TypeOK' /\ BudgetHolds' /\ OneCallPerRequest'
  BY DEF Inv, TypeOK, BudgetHolds, OneCallPerRequest
<1>3. JobsAreOrderly' /\ RunningCallsAreReserved'
  BY <1>1 DEF Inv, JobsAreOrderly, RunningCallsAreReserved
<1>4. SavesAreSound' /\ CallsAreCounted' /\ CallsAreRecorded'
  BY <1>1 DEF Inv, SavesAreSound, CallsAreCounted, CallsAreRecorded
<1>. QED  BY <1>2, <1>3, <1>4 DEF Inv

\* The invariant holds of an empty log with nobody at work.
LEMMA InitInv == Init => Inv
<1>. SUFFICES ASSUME Init PROVE Inv
  OBVIOUS
<1>. DEFINE empty == [id \in Requests |-> None]
<1>1. /\ log.now = empty /\ log.after = {empty} /\ DOMAIN log = {"now", "after"}
      /\ job = [w \in Workers |-> Idle]
  BY DEF Init, OnDisk
<1>2. Idle \in Job /\ Idle.pc = "idle" /\ empty \in Log
  BY HelpAssumption DEF Idle, Job, Kinds, Statuses, Log
<1>3. ASSUME NEW w \in Workers
      PROVE  /\ ~Saving(w) /\ ~Calling(w) /\ ~Engaged(w)
             /\ ~At(w, "write") /\ ~At(w, "sync") /\ ~At(w, "lock")
             /\ ~At(w, "call") /\ ~At(w, "settle") /\ ~At(w, "clear")
  BY <1>1, <1>2 DEF Saving, Calling, Engaged, At
<1>4. TypeOK
  BY <1>1, <1>2 DEF Init, TypeOK
<1>5. JobsAreOrderly /\ RunningCallsAreReserved /\ SavesAreSound /\ CallsAreCounted
  BY <1>3 DEF JobsAreOrderly, RunningCallsAreReserved, SavesAreSound, CallsAreCounted
<1>6. CallsAreRecorded /\ OneCallPerRequest
  BY <1>3 DEF Init, CallsAreRecorded, OneCallPerRequest
<1>7. BudgetHolds
  <2>1. Charged(empty) = {}
    BY DEF Charged, Recorded
  <2>2. Cardinality(Charged(empty)) = 0
    BY <2>1, FS_EmptySet
  <2>. QED  BY <1>1, <2>2, HelpAssumption DEF BudgetHolds
<1>. QED  BY <1>4, <1>5, <1>6, <1>7 DEF Inv

\* Every step keeps the invariant.
LEMMA NextInv == Inv /\ [Next]_vars => Inv'
<1>. SUFFICES ASSUME Inv, [Next]_vars PROVE Inv'
  OBVIOUS
<1>1. ASSUME NEW w \in Workers, NEW id \in Requests, NEW kind \in Kinds,
             NEW only \in BOOLEAN, Request(w, id, kind, only)
      PROVE  Inv'
  BY <1>1, ArrivalKeepsInv DEF Request
<1>2. ASSUME NEW w \in Workers, ReadSummary(w) PROVE Inv'
  BY <1>2, ArrivalKeepsInv DEF ReadSummary
<1>3. ASSUME NEW w \in Workers, Record(w) PROVE Inv'
  BY <1>3, RecordIsSound, EnterKeepsInv DEF Record
<1>4. ASSUME NEW w \in Workers, Reconcile(w) PROVE Inv'
  <2>1. ~Calling(w) /\ now \in Nat
    BY <1>4 DEF Reconcile, Calling, At, Inv, TypeOK
  <2>2. SoundOutcome(w, Outcome(Release(log.now, now), None, "idle"))
    BY <2>1, ReconciledIsSound
  <2>. QED  BY <1>4, <2>2, EnterKeepsInv DEF Reconcile
<1>5. ASSUME NEW w \in Workers, Settle(w) PROVE Inv'
  BY <1>5, SettleIsSound, EnterKeepsInv DEF Settle
<1>6. ASSUME NEW w \in Workers, Replace(w) PROVE Inv'
  BY <1>6, ReplaceKeepsInv
<1>7. ASSUME NEW w \in Workers, Sync(w) PROVE Inv'
  BY <1>7, SyncKeepsInv
<1>8. ASSUME NEW w \in Workers, Call(w) PROVE Inv'
  BY <1>8, CallKeepsInv
<1>9. ASSUME NEW w \in Workers, Clear(w) PROVE Inv'
  BY <1>9, ClearKeepsInv
<1>10. ASSUME NEW w \in Workers, SaveFails(w) PROVE Inv'
  BY <1>10, SaveFailsKeepsInv
<1>11. CASE Crash \/ LosePower
  BY <1>11, StopKeepsInv
<1>12. CASE Tick
  <2>1. now' \in Nat /\ UNCHANGED <<log, active, holder, job, called>>
    BY <1>12 DEF Tick, Inv, TypeOK
  <2>. QED  BY <2>1, ClockKeepsInv
<1>13. CASE UNCHANGED vars
  <2>1. now' \in Nat /\ UNCHANGED <<log, active, holder, job, called>>
    BY <1>13 DEF vars, Inv, TypeOK
  <2>. QED  BY <2>1, ClockKeepsInv
<1>. QED
  BY <1>1, <1>2, <1>3, <1>4, <1>5, <1>6, <1>7, <1>8, <1>9, <1>10, <1>11, <1>12, <1>13
  DEF Next, WorkerStep

\* The help service keeps its inductive invariant, the types of its state included.
THEOREM HelpInvariant == Spec => []Inv
<1>. QED  BY InitInv, NextInv, PTL DEF Spec

\* record_help_request and the reconciliations never charge a student more AI
\* requests than ai_request_limit, for any number of requests, threads, crashes
\* and power losses, on disk as well.
THEOREM BudgetIsKept == Spec => []BudgetHolds
<1>1. Inv => BudgetHolds
  BY DEF Inv
<1>. QED  BY <1>1, HelpInvariant, PTL

\* record_help_request never calls the provider twice for one request id.
THEOREM ProviderIsCalledOnce == Spec => []OneCallPerRequest
<1>1. Inv => OneCallPerRequest
  BY DEF Inv
<1>. QED  BY <1>1, HelpInvariant, PTL

\* No reconciliation, retry or crash recovery takes the reservation of a call
\* that is still running.
THEOREM RunningCallsKeepReservation == Spec => []RunningCallsAreReserved
<1>1. Inv => RunningCallsAreReserved
  BY DEF Inv
<1>. QED  BY <1>1, HelpInvariant, PTL

-----------------------------------------------------------------------------
(***************************************************************************)
(* Answers                                                                 *)
(***************************************************************************)

\* What Enter may save or return for a worker, as to answers: the final events
\* stay, and the answer is final in what is saved.
AnswerOutcome(w, o) ==
    /\ \A id \in Requests, s \in Statuses : Final(log.now, id, s) => Final(o.content, id, s)
    /\ o.out # None => Final(o.content, job[w].id, o.out)

\* A release ends only pending requests.
LEMMA ReleaseKeepsFinal ==
    ASSUME NEW c, NEW t, NEW id, NEW s, Final(c, id, s)
    PROVE  Final(Release(c, t), id, s)
<1>1. ~Overdue(c, id, t) /\ id \in Requests
  BY DEF Overdue, Final
<1>2. Release(c, t)[id] = c[id]
  BY <1>1 DEF Release
<1>. QED  BY <1>2 DEF Final

\* The first block of record_help_request changes no final event.
LEMMA RecordKeepsAnswers ==
    ASSUME Inv, NEW w \in Workers, At(w, "lock")
    PROVE  AnswerOutcome(w, RecordOutcome(job[w]))
<1>. DEFINE j == job[w]
            c == Release(log.now, j.at)
            allowed == Allows(c, j.kind)
            e == NewEvent(j.kind, allowed, j.at)
            d == [c EXCEPT ![j.id] = e]
<1>1. j.id \in Requests /\ j.kind \in Kinds /\ j.at \in Nat /\ log.now \in Log
  BY DEF Inv, TypeOK, JobsAreOrderly, Job, At
<1>2. \A id \in Requests, s \in Statuses : Final(log.now, id, s) => Final(c, id, s)
  BY ReleaseKeepsFinal
<1>3. c \in Log
  BY <1>1, ReleaseIsSound
<1>4. ~allowed => e.status = "none"
  BY DEF NewEvent
<1>5. e \in Event /\ e # None
  <2>1. NewEvent(j.kind, TRUE, j.at) \in Event /\ NewEvent(j.kind, FALSE, j.at) \in Event
    BY <1>1 DEF NewEvent, Event, Statuses
  <2>2. allowed \in BOOLEAN
    BY DEF Allows
  <2>. QED  BY <2>1, <2>2, HelpAssumption
<1>. HIDE DEF c, allowed, e
<1>6. d[j.id] = e /\ \A i \in Requests \ {j.id} : d[i] = c[i]
  BY <1>1, <1>3 DEF Log
<1>. HIDE DEF d
<1>7. RecordOutcome(j) =
        IF c[j.id] # None THEN
            IF c[j.id].kind # j.kind THEN Outcome(log.now, None, "idle")
            ELSE Outcome(c, IF c[j.id].status = "pending" THEN None ELSE c[j.id].status, "idle")
        ELSE IF j.only THEN Outcome(c, None, "idle")
        ELSE IF Cardinality(Recorded(c)) >= MaxEvents THEN Outcome(log.now, None, "idle")
        ELSE Outcome(d, IF allowed THEN None ELSE "none", IF allowed THEN "call" ELSE "idle")
  BY DEF RecordOutcome, c, d, allowed, e
<1>8. AnswerOutcome(w, Outcome(log.now, None, "idle"))
  BY DEF AnswerOutcome, Outcome
<1>9. AnswerOutcome(w, Outcome(c, None, "idle"))
  BY <1>2 DEF AnswerOutcome, Outcome
<1>10. ASSUME c[j.id] # None
       PROVE  AnswerOutcome(w, Outcome(c, IF c[j.id].status = "pending" THEN None
                                          ELSE c[j.id].status, "idle"))
  BY <1>1, <1>2, <1>10 DEF AnswerOutcome, Outcome, Final
<1>11. ASSUME c[j.id] = None
       PROVE  AnswerOutcome(w, Outcome(d, IF allowed THEN None ELSE "none",
                                       IF allowed THEN "call" ELSE "idle"))
  <2>1. \A id \in Requests, s \in Statuses : Final(log.now, id, s) => Final(d, id, s)
    BY <1>2, <1>6, <1>11 DEF Final
  <2>2. ~allowed => Final(d, j.id, "none")
    BY <1>1, <1>4, <1>5, <1>6 DEF Final
  <2>3. CASE allowed
    BY <2>1, <2>3 DEF AnswerOutcome, Outcome
  <2>4. CASE ~allowed
    BY <2>1, <2>2, <2>4 DEF AnswerOutcome, Outcome
  <2>. QED  BY <2>3, <2>4
<1>. QED  BY <1>7, <1>8, <1>9, <1>10, <1>11

\* Settling completes an event that was pending, so nobody has its answer yet.
LEMMA SettleKeepsAnswers ==
    ASSUME Inv, NEW w \in Workers, At(w, "settle")
    PROVE  AnswerOutcome(w, SettleOutcome(job[w]))
<1>. DEFINE id == job[w].id
            c == log.now
            e == [c[id] EXCEPT !.status = "completed", !.charged = TRUE]
            d == [c EXCEPT ![id] = e]
<1>1. c \in Log /\ id \in Requests /\ Reserved(c, id)
  BY DEF Inv, TypeOK, JobsAreOrderly, Engaged, Calling, RunningCallsAreReserved
<1>2. c[id] \in Event
  BY <1>1 DEF Reserved, Log
<1>3. e # None /\ e.status = "completed"
  BY <1>2, HelpAssumption DEF Event, Statuses
<1>. HIDE DEF e
<1>4. d[id] = e /\ \A i \in Requests \ {id} : d[i] = c[i]
  BY <1>1 DEF Log
<1>5. SettleOutcome(job[w]) = Outcome(d, "completed", "clear")
  BY DEF SettleOutcome, d, e
<1>. HIDE DEF d
<1>6. Final(d, id, "completed")
  BY <1>1, <1>3, <1>4 DEF Final
<1>7. \A i \in Requests, s \in Statuses : Final(c, i, s) => Final(d, i, s)
  BY <1>1, <1>4 DEF Final, Reserved
<1>. QED  BY <1>5, <1>6, <1>7 DEF AnswerOutcome, Outcome

\* Entering the lock with such an outcome keeps the answers.
LEMMA EnterKeepsAnswers ==
    ASSUME Inv, AnswerInv, NEW w \in Workers, NEW o, AnswerOutcome(w, o),
           ~At(w, "write"), ~At(w, "sync"), Enter(w, job[w], o)
    PROVE  AnswerInv'
<1>0. /\ UNCHANGED <<log, faults>> /\ holder = None
      /\ job \in [Workers -> Job] /\ None \notin Workers
  BY HelpAssumption DEF Enter, NoFault, Inv, TypeOK
<1>1. \A v \in Workers : ~At(v, "sync")
  BY <1>0 DEF Inv, JobsAreOrderly, Saving
<1>2. faults = 0 => log.after = {log.now}
  BY <1>1 DEF AnswerInv, ReadsAreSynced
<1>3. CASE o.content = log.now
  <2>1. /\ job' = [job EXCEPT ![w] = Idle]
        /\ answered' = answered \cup Answers(job[w].id, o.out)
    BY <1>3 DEF Enter
  <2>2. /\ job'[w] = Idle /\ \A v \in Workers \ {w} : job'[v] = job[v]
    BY <1>0, <2>1
  <2>3. AnswersAreFinal'
    <3>1. \A a \in Answers(job[w].id, o.out) : Final(log.now, a[1], a[2])
      BY <1>3 DEF AnswerOutcome, Answers
    <3>. QED  BY <1>0, <1>2, <2>1, <3>1 DEF AnswerInv, AnswersAreFinal, Final
  <2>4. ReadsAreSynced'
    BY <1>0, <1>2 DEF ReadsAreSynced
  <2>5. SavesKeepAnswers'
    BY <1>0, <2>2 DEF AnswerInv, SavesKeepAnswers, At, Idle, Final
  <2>. QED  BY <1>0, <2>3, <2>4, <2>5 DEF AnswerInv
<1>4. CASE o.content # log.now
  <2>. DEFINE k == [job[w] EXCEPT !.pc = "write", !.content = o.content,
                                  !.out = o.out, !.then = o.then]
  <2>1. job' = [job EXCEPT ![w] = k] /\ UNCHANGED answered
    BY <1>4 DEF Enter
  <2>2. /\ k.pc = "write" /\ k.content = o.content /\ k.out = o.out
        /\ k.id = job[w].id
    BY <1>0 DEF Job
  <2>. HIDE DEF k
  <2>3. job'[w] = k /\ \A v \in Workers \ {w} : job'[v] = job[v]
    BY <1>0, <2>1
  <2>4. AnswersAreFinal'
    BY <1>0, <2>1 DEF AnswerInv, AnswersAreFinal, Final
  <2>5. ReadsAreSynced'
    BY <1>0, <1>2 DEF ReadsAreSynced
  <2>6. SavesKeepAnswers'
    <3>1. SUFFICES ASSUME NEW v \in Workers
          PROVE  /\ At(v, "write")' =>
                    \A id \in Requests, s \in Statuses :
                       Final(log.now, id, s) => Final(job'[v].content, id, s)
                 /\ At(v, "write")' /\ job'[v].out # None =>
                       Final(job'[v].content, job'[v].id, job'[v].out)
                 /\ At(v, "sync")' /\ job'[v].out # None =>
                       Final(log.now, job'[v].id, job'[v].out)
      BY <1>0 DEF SavesKeepAnswers, Final
    <3>2. CASE v = w
      BY <2>2, <2>3, <3>2 DEF AnswerOutcome, At
    <3>3. CASE v # w
      BY <2>3, <3>3 DEF AnswerInv, SavesKeepAnswers, At
    <3>. QED  BY <3>2, <3>3
  <2>. QED  BY <1>0, <2>4, <2>5, <2>6 DEF AnswerInv
<1>. QED  BY <1>3, <1>4

\* A step of a worker that neither writes nor returns an event.
LEMMA QuietKeepsAnswers ==
    ASSUME AnswerInv, UNCHANGED <<log, answered>>, faults' \in Nat, faults' >= faults,
           \A v \in Workers : At(v, "write")' => job'[v] = job[v],
           \A v \in Workers : At(v, "sync")' => job'[v] = job[v],
           faults' = faults => \A v \in Workers : At(v, "sync") => At(v, "sync")'
    PROVE  AnswerInv'
<1>0. faults \in Nat /\ (faults' = 0 => faults = 0)
  BY DEF AnswerInv
<1>1. AnswersAreFinal'
  BY <1>0 DEF AnswerInv, AnswersAreFinal, Final
<1>2. ReadsAreSynced'
  BY <1>0 DEF AnswerInv, ReadsAreSynced
<1>3. SavesKeepAnswers'
  BY DEF AnswerInv, SavesKeepAnswers, At, Final
<1>. QED  BY <1>1, <1>2, <1>3 DEF AnswerInv

\* The replacement of the log keeps the answers that were given.
LEMMA ReplaceKeepsAnswers ==
    ASSUME Inv, AnswerInv, NEW w \in Workers, Replace(w)
    PROVE  AnswerInv'
<1>. DEFINE c == job[w].content
<1>0. /\ At(w, "write") /\ job \in [Workers -> Job] /\ UNCHANGED <<faults, answered>>
      /\ log'.now = c /\ log'.after = log.after \cup {c}
      /\ job' = [job EXCEPT ![w].pc = "sync", ![w].content = None]
  BY DEF Replace, NoFault, Inv, TypeOK, Changed
<1>1. /\ job'[w].pc = "sync" /\ job'[w].id = job[w].id /\ job'[w].out = job[w].out
      /\ \A v \in Workers \ {w} : job'[v] = job[v]
  BY <1>0 DEF Job
<1>2. \A v \in Workers \ {w} : ~At(v, "write") /\ ~At(v, "sync")
  BY <1>0, OneSaver DEF Saving
<1>3. \A a \in answered : a[2] \in Statuses
  BY DEF AnswerInv, AnswersAreFinal, Final, Inv, TypeOK, Log, Event
<1>4. \A a \in answered : Final(c, a[1], a[2])
  BY <1>0, <1>3 DEF AnswerInv, AnswersAreFinal, SavesKeepAnswers, Final
<1>5. AnswersAreFinal'
  BY <1>0, <1>4 DEF AnswerInv, AnswersAreFinal, Final
<1>6. ReadsAreSynced'
  BY <1>1 DEF ReadsAreSynced, At
<1>7. SavesKeepAnswers'
  <2>1. job[w].out # None => Final(c, job[w].id, job[w].out)
    BY <1>0 DEF AnswerInv, SavesKeepAnswers
  <2>. QED  BY <1>0, <1>1, <1>2, <2>1 DEF SavesKeepAnswers, At, Final
<1>. QED  BY <1>0, <1>5, <1>6, <1>7 DEF AnswerInv

\* The sync returns an answer that is final in the log, and then on disk.
LEMMA SyncKeepsAnswers ==
    ASSUME Inv, AnswerInv, NEW w \in Workers, Sync(w)
    PROVE  AnswerInv'
<1>0. /\ At(w, "sync") /\ job \in [Workers -> Job] /\ UNCHANGED faults
      /\ log'.now = log.now /\ log'.after = {log.now}
      /\ answered' = answered \cup Answers(job[w].id, job[w].out)
      /\ job' = [job EXCEPT ![w] = IF job[w].then = "idle" THEN Idle
                                   ELSE [job[w] EXCEPT !.pc = job[w].then]]
  BY DEF Sync, NoFault, Inv, TypeOK, Synced, OnDisk
<1>1. /\ job'[w].pc \in {"idle", "call", "clear"}
      /\ \A v \in Workers \ {w} : job'[v] = job[v]
  <2>1. job[w] \in Job
    BY <1>0
  <2>. QED  BY <1>0, <2>1 DEF Job, Idle
<1>2. \A v \in Workers \ {w} : ~At(v, "write") /\ ~At(v, "sync")
  BY <1>0, OneSaver DEF Saving
<1>3. \A a \in Answers(job[w].id, job[w].out) : Final(log.now, a[1], a[2])
  BY <1>0 DEF AnswerInv, SavesKeepAnswers, Answers
<1>4. AnswersAreFinal'
  BY <1>0, <1>3 DEF AnswerInv, AnswersAreFinal, Final
<1>5. ReadsAreSynced'
  BY <1>0 DEF ReadsAreSynced
<1>6. SavesKeepAnswers'
  BY <1>0, <1>1, <1>2 DEF SavesKeepAnswers, At
<1>. QED  BY <1>0, <1>4, <1>5, <1>6 DEF AnswerInv

\* The process ends: with the log as it is, or with what a power loss leaves of
\* it, which before any other fault has every answer.
LEMMA StopKeepsAnswers ==
    ASSUME Inv, AnswerInv, PowerLoss => MaxFaults <= 1, Crash \/ LosePower
    PROVE  AnswerInv'
<1>0. faults \in Nat /\ faults < MaxFaults /\ faults' = faults + 1 /\ MaxFaults \in Nat
  BY HelpAssumption DEF Crash, LosePower, Stop, Fault, AnswerInv
<1>1. UNCHANGED answered /\ \A v \in Workers : job'[v].pc = "idle"
  BY DEF Crash, LosePower, Stop, Idle
<1>2. \A a \in answered : Final(log'.now, a[1], a[2])
  <2>1. CASE Crash
    BY <2>1 DEF Crash, Stop, AnswerInv, AnswersAreFinal
  <2>2. CASE LosePower
    <3>1. PICK c \in log.after : log' = OnDisk(c)
      BY <2>2 DEF LosePower, Stop
    <3>2. faults = 0
      BY <1>0, <2>2 DEF LosePower
    <3>. QED  BY <3>1, <3>2 DEF AnswerInv, AnswersAreFinal, OnDisk
  <2>. QED  BY <2>1, <2>2
<1>3. AnswersAreFinal'
  BY <1>0, <1>1, <1>2 DEF AnswersAreFinal, Final
<1>4. ReadsAreSynced' /\ SavesKeepAnswers'
  BY <1>0, <1>1 DEF ReadsAreSynced, SavesKeepAnswers, At
<1>. QED  BY <1>0, <1>3, <1>4 DEF AnswerInv

\* Every step keeps the answers.
LEMMA NextKeepsAnswers ==
    ASSUME PowerLoss => MaxFaults <= 1, Inv, AnswerInv, [Next]_vars
    PROVE  AnswerInv'
<1>0. faults \in Nat /\ job \in [Workers -> Job] /\ log.now \in Log
  BY DEF AnswerInv, Inv, TypeOK
<1>1. ASSUME NEW w \in Workers, NEW id \in Requests, NEW kind \in Kinds, NEW only \in BOOLEAN,
             Request(w, id, kind, only)
      PROVE  AnswerInv'
  BY <1>0, <1>1, QuietKeepsAnswers DEF Request, NoFault, At, Idle
<1>2. ASSUME NEW w \in Workers, ReadSummary(w) PROVE AnswerInv'
  BY <1>0, <1>2, QuietKeepsAnswers DEF ReadSummary, NoFault, At, Job
<1>3. ASSUME NEW w \in Workers, Record(w) PROVE AnswerInv'
  <2>1. ~At(w, "write") /\ ~At(w, "sync")
    BY <1>3 DEF Record, At
  <2>. QED  BY <1>3, <2>1, RecordKeepsAnswers, EnterKeepsAnswers DEF Record
<1>4. ASSUME NEW w \in Workers, Reconcile(w) PROVE AnswerInv'
  <2>1. AnswerOutcome(w, Outcome(Release(log.now, now), None, "idle"))
    BY ReleaseKeepsFinal DEF AnswerOutcome, Outcome
  <2>2. ~At(w, "write") /\ ~At(w, "sync")
    BY <1>4 DEF Reconcile, At
  <2>. QED  BY <1>4, <2>1, <2>2, EnterKeepsAnswers DEF Reconcile
<1>5. ASSUME NEW w \in Workers, Settle(w) PROVE AnswerInv'
  <2>1. ~At(w, "write") /\ ~At(w, "sync")
    BY <1>5 DEF Settle, At
  <2>. QED  BY <1>5, <2>1, SettleKeepsAnswers, EnterKeepsAnswers DEF Settle
<1>6. ASSUME NEW w \in Workers, Call(w) PROVE AnswerInv'
  BY <1>0, <1>6, QuietKeepsAnswers DEF Call, NoFault, At, Job
<1>7. ASSUME NEW w \in Workers, Clear(w) PROVE AnswerInv'
  BY <1>0, <1>7, QuietKeepsAnswers DEF Clear, NoFault, At, Idle
<1>8. ASSUME NEW w \in Workers, SaveFails(w) PROVE AnswerInv'
  <2>1. /\ UNCHANGED <<log, answered>> /\ faults' = faults + 1
        /\ job' = [job EXCEPT ![w] = IF job[w].then = "clear"
                                     THEN [job[w] EXCEPT !.pc = "clear", !.content = None]
                                     ELSE Idle]
    BY <1>8 DEF SaveFails, Fault
  <2>2. /\ job'[w].pc \in {"clear", "idle"}
        /\ \A v \in Workers \ {w} : job'[v] = job[v]
    BY <1>0, <2>1 DEF Job, Idle
  <2>. QED  BY <1>0, <2>1, <2>2, QuietKeepsAnswers DEF At
<1>9. CASE Tick \/ UNCHANGED vars
  BY <1>0, <1>9, QuietKeepsAnswers DEF Tick, vars, NoFault, At
<1>. QED
  BY <1>1, <1>2, <1>3, <1>4, <1>5, <1>6, <1>7, <1>8, <1>9,
     ReplaceKeepsAnswers, SyncKeepsAnswers, StopKeepsAnswers
  DEF Next, WorkerStep

\* Retries of a request are answered alike, for any number of requests, threads
\* and faults without power loss, and for one fault with it (record_help_request
\* returns the event it finds).
THEOREM AnswersAgreeAlways == Spec => []AnswersAgree
<1>1. CASE PowerLoss => MaxFaults <= 1
  <2>1. Init => AnswerInv
    <3>. SUFFICES ASSUME Init PROVE AnswerInv
      OBVIOUS
    <3>1. answered = {} /\ faults = 0 /\ \A w \in Workers : job[w].pc = "idle"
      BY DEF Init, Idle
    <3>2. log.after = {log.now}
      BY DEF Init, OnDisk
    <3>. QED  BY <3>1, <3>2 DEF AnswerInv, AnswersAreFinal, ReadsAreSynced, SavesKeepAnswers, At
  <2>2. Inv /\ AnswerInv /\ [Next]_vars => AnswerInv'
    BY <1>1, NextKeepsAnswers
  <2>3. AnswerInv => AnswersAgree
    BY DEF AnswerInv, AnswersAreFinal, AnswersAgree, Final
  <2>. QED  BY <2>1, <2>2, <2>3, HelpInvariant, PTL DEF Spec
<1>2. CASE ~(PowerLoss => MaxFaults <= 1)
  <2>1. AnswersAgree
    BY <1>2 DEF AnswersAgree
  <2>. QED  BY <2>1, PTL
<1>. QED  BY <1>1, <1>2

\* For any number of requests, threads, faults and power losses: the budget,
\* the single call of a request, the reservation of a running one and its answer.
THEOREM BudgetIsSoundAlways == Spec => []BudgetIsSound
<1>1. Inv /\ AnswersAgree => BudgetIsSound
  BY DEF Inv, BudgetIsSound
<1>. QED  BY <1>1, HelpInvariant, AnswersAgreeAlways, PTL

=============================================================================
