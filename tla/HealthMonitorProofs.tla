-------------------------- MODULE HealthMonitorProofs --------------------------
(***************************************************************************)
(* Theorems about HealthMonitor, for every fleet and every window: of any   *)
(* number of overlapping passes first, then of passes that do not overlap.  *)
(***************************************************************************)
EXTENDS HealthMonitor, TLAPS

-----------------------------------------------------------------------------
(* Rows and sessions *)

LEMMA RowTypes == NoHealth \in Health /\ NoWrites \in [Nodes -> Write] /\ Idle \in Pass
<1>1. NoHealth \in Health
  BY DEF NoHealth, Health, HealthStates, Times, NoTime
<1>2. NoWrites \in [Nodes -> Write]
  BY <1>1 DEF NoWrites, NoWrite, Write, Statuses
<1>3. [n \in Nodes |-> "provisioning"] \in [Nodes -> Statuses]
  BY DEF Statuses
<1>4. QED
  BY <1>1, <1>2, <1>3 DEF Idle, Pass

\* What a probe makes of a health row: it stays a row, a node not seen up before
\* does not become "down", and the streak of lost pings starts where it started
\* or now.
LEMMA LoadedRow ==
  ASSUME NEW h \in Health
  PROVE  /\ Loaded(h) \in Health
         /\ Loaded(h).firstFail = h.firstFail
         /\ Loaded(h).state \in {"up", "down"} => Loaded(h).state = h.state
         /\ h.state # "none" => Loaded(h) = h
  BY DEF Loaded, Health, HealthStates

LEMMA AfterOkRow ==
  ASSUME NEW n, NEW h \in Health, NEW now
  PROVE  /\ AfterOk(n, h, now) \in Health
         /\ AfterOk(n, h, now).firstFail = NoTime
         /\ AfterOk(n, h, now).state = "down" => h.state = "down"
  BY DEF AfterOk, Health, HealthStates, Times

LEMMA AfterFailRow ==
  ASSUME NEW h \in Health, NEW now \in Nat
  PROVE  /\ AfterFail(h, now) \in Health
         /\ AfterFail(h, now).firstFail = IF h.firstFail = NoTime THEN now ELSE h.firstFail
         /\ AfterFail(h, now).state # h.state
               => /\ h.state = "up" /\ AfterFail(h, now).state = "down"
                  /\ now - AfterFail(h, now).firstFail >= DownAfter
<1>1. (IF h.firstFail = NoTime THEN now ELSE h.firstFail) \in Times
  BY DEF Health, Times
<1>2. QED
  BY <1>1 DEF AfterFail, Health, HealthStates

LEMMA MirrorType ==
  ASSUME NEW s \in Statuses, NEW x
  PROVE  Mirror(s, x) \in Statuses
  BY DEF Mirror, Statuses

LEMMA SeenType ==
  ASSUME TypeOK, NEW p \in Passes, NEW n \in Nodes
  PROVE  Seen(p, n) \in Statuses
  BY DEF TypeOK, Pass, Seen

LEMMA WriteType ==
  ASSUME TypeOK, NEW p \in Passes, NEW n \in Nodes,
         NEW ping \in {"ok", "fail"}, NEW new \in Health
  PROVE  WriteOf(p, n, ping, new) \in Write
<1>1. health[n] \in Health
  BY DEF TypeOK
<1>2. QED
  BY <1>1, SeenType, MirrorType DEF WriteOf, Write

-----------------------------------------------------------------------------
(* What the steps of a pass do to the tables and to its own session *)

LEMMA FlushFacts ==
  ASSUME TypeOK, NEW ws \in [Nodes -> Write], NEW now \in Nat, Flush(ws, now)
  PROVE  /\ health' \in [Nodes -> Health] /\ status' \in [Nodes -> Statuses]
         /\ fails' \in [Nodes -> SUBSET Nat] /\ oks' \in [Nodes -> SUBSET Nat]
         /\ \A n \in Nodes :
              /\ ws[n].ping = "none" => health'[n] = health[n]
              /\ health'[n].state \in {health[n].state, ws[n].new.state}
              /\ health'[n].state # health[n].state =>
                    ws[n].new.state # ws[n].old.state /\ health'[n].state = ws[n].new.state
              /\ health'[n].firstFail \in {health[n].firstFail, ws[n].new.firstFail}
              /\ fails[n] \subseteq fails'[n] /\ oks[n] \subseteq oks'[n]
              /\ ws[n].ping = "fail" => now \in fails'[n]
              /\ ws[n].ping = "ok" => now \in oks'[n]
<1>1. ASSUME NEW n \in Nodes
      PROVE  /\ ws[n].old \in Health /\ ws[n].new \in Health /\ health[n] \in Health
             /\ ws[n].to \in Statuses /\ status[n] \in Statuses
  BY DEF TypeOK, Write
<1>2. ASSUME NEW n \in Nodes
      PROVE  Changed(health[n], ws[n].old, ws[n].new) \in Health
  BY <1>1 DEF Changed, Health
<1>3. health' \in [Nodes -> Health]
  BY <1>1, <1>2 DEF Flush
<1>4. status' \in [Nodes -> Statuses]
  BY <1>1 DEF Flush
<1>5. fails' \in [Nodes -> SUBSET Nat] /\ oks' \in [Nodes -> SUBSET Nat]
  <2>1. ASSUME NEW n \in Nodes, NEW s
        PROVE  /\ (fails[n] \cup (IF ws[n].ping = s THEN {now} ELSE {})) \in SUBSET Nat
               /\ (oks[n] \cup (IF ws[n].ping = s THEN {now} ELSE {})) \in SUBSET Nat
    BY DEF TypeOK
  <2>2. QED
    BY <2>1 DEF Flush
<1>6. ASSUME NEW n \in Nodes
      PROVE  /\ ws[n].ping = "none" => health'[n] = health[n]
             /\ health'[n].state \in {health[n].state, ws[n].new.state}
             /\ health'[n].state # health[n].state =>
                   ws[n].new.state # ws[n].old.state /\ health'[n].state = ws[n].new.state
             /\ health'[n].firstFail \in {health[n].firstFail, ws[n].new.firstFail}
  BY DEF Flush, Changed
<1>7. ASSUME NEW n \in Nodes
      PROVE  /\ fails[n] \subseteq fails'[n] /\ oks[n] \subseteq oks'[n]
             /\ ws[n].ping = "fail" => now \in fails'[n]
             /\ ws[n].ping = "ok" => now \in oks'[n]
  BY DEF Flush
<1>8. QED
  BY <1>3, <1>4, <1>5, <1>6, <1>7

LEMMA BeginFacts ==
  ASSUME TypeOK, NEW p \in Passes, NEW nodes \in SUBSET Nodes, Begin(p, nodes)
  PROVE  /\ pass' \in [Passes -> Pass]
         /\ \A q \in Passes : \/ pass'[q].writes = pass[q].writes /\ pass'[q].now = pass[q].now
                              \/ q = p /\ pass'[q].writes = NoWrites
<1> DEFINE seen == [n \in Nodes |-> IF n \in nodes THEN status[n] ELSE Idle.seen[n]]
           new == [Idle EXCEPT !.running = TRUE, !.now = clock, !.todo = nodes,
                               !.stale = nodes, !.seen = seen]
<1>1. seen \in [Nodes -> Statuses]
  BY RowTypes DEF TypeOK, Pass
<1>2. new \in Pass /\ new.writes = NoWrites
  <2>1. Idle \in Pass /\ Idle.writes = NoWrites /\ clock \in Nat
    BY RowTypes DEF TypeOK, Idle
  <2> HIDE DEF Idle, seen
  <2>2. QED
    BY <1>1, <2>1 DEF Pass
<1>3. pass' = [pass EXCEPT ![p] = new]
  BY DEF Begin, Idle
<1> HIDE DEF new
<1>4. QED
  BY <1>2, <1>3 DEF TypeOK

LEMMA RecordFacts ==
  ASSUME TypeOK, NEW p \in Passes, NEW n \in Nodes,
         NEW ping \in {"ok", "fail"}, NEW new \in Health, Record(p, n, ping, new)
  PROVE  /\ pass' \in [Passes -> Pass]
         /\ \A q \in Passes :
              /\ pass'[q].now = pass[q].now
              /\ \A m \in Nodes :
                   pass'[q].writes[m] = IF q = p /\ m = n THEN WriteOf(p, n, ping, new)
                                                         ELSE pass[q].writes[m]
<1> DEFINE x == [pass[p] EXCEPT !.todo = @ \ {n}, !.stale = @ \ {n},
                                !.seen = [@ EXCEPT ![n] = Idle.seen[n]],
                                !.writes = [@ EXCEPT ![n] = WriteOf(p, n, ping, new)]]
<1>1. pass' = [pass EXCEPT ![p] = x]
  BY DEF Record, TypeOK, Pass
<1>2. WriteOf(p, n, ping, new) \in Write /\ Idle.seen[n] \in Statuses /\ pass[p] \in Pass
  BY WriteType, RowTypes DEF TypeOK, Pass
<1> HIDE DEF Idle
<1>3. x \in Pass
  BY <1>2 DEF Pass
<1>4. x.now = pass[p].now /\ x.writes = [pass[p].writes EXCEPT ![n] = WriteOf(p, n, ping, new)]
  BY <1>2 DEF Pass
<1>5. pass[p].writes \in [Nodes -> Write]
  BY <1>2 DEF Pass
<1> HIDE DEF x
<1>6. QED
  BY <1>1, <1>3, <1>4, <1>5 DEF TypeOK

LEMMA RefreshedFacts ==
  ASSUME TypeOK, NEW p \in Passes, NEW n \in Nodes, NEW ws \in [Nodes -> Write],
         Refreshed(p, n, ws)
  PROVE  /\ pass' \in [Passes -> Pass]
         /\ \A q \in Passes :
              /\ pass'[q].now = pass[q].now
              /\ pass'[q].writes = IF q = p THEN ws ELSE pass[q].writes
<1> DEFINE x == [pass[p] EXCEPT !.todo = @ \ {n}, !.stale = {},
                                !.seen = Idle.seen, !.writes = ws]
<1>1. pass' = [pass EXCEPT ![p] = x]
  BY DEF Refreshed, TypeOK, Pass
<1>2. pass[p] \in Pass /\ Idle.seen \in [Nodes -> Statuses]
  BY RowTypes DEF TypeOK, Pass
<1> HIDE DEF Idle
<1>3. x \in Pass /\ x.now = pass[p].now /\ x.writes = ws
  BY <1>2 DEF Pass
<1> HIDE DEF x
<1>4. QED
  BY <1>1, <1>3 DEF TypeOK

LEMMA IdleFacts ==
  ASSUME TypeOK, NEW p \in Passes, pass' = [pass EXCEPT ![p] = Idle]
  PROVE  /\ pass' \in [Passes -> Pass]
         /\ \A q \in Passes : pass'[q] = pass[q] \/ (q = p /\ pass'[q].writes = NoWrites)
  BY RowTypes DEF TypeOK, Idle

-----------------------------------------------------------------------------
(* Type correctness *)

LEMMA InitType == Init => TypeOK
  BY RowTypes DEF Init, TypeOK, Statuses, Times

LEMMA NextType == TypeOK /\ [Next]_vars => TypeOK'
<1> SUFFICES ASSUME TypeOK, [Next]_vars PROVE TypeOK'
  OBVIOUS
<1>0. ASSUME NEW n \in Nodes
      PROVE  Loaded(health[n]) \in Health /\ health[n] \in Health
  BY LoadedRow DEF TypeOK
<1>1. CASE Tick
  BY <1>1 DEF Tick, fleetVars, TypeOK
<1>2. ASSUME NEW n \in Nodes, Enable(n) \/ Disable(n) PROVE TypeOK'
  BY <1>2 DEF Enable, Disable, TypeOK, Statuses
<1>3. ASSUME NEW n \in Nodes, Acknowledge(n) PROVE TypeOK'
  BY <1>3 DEF Acknowledge, TypeOK
<1>4. ASSUME NEW p \in Passes, NEW nodes \in SUBSET Nodes, Begin(p, nodes) PROVE TypeOK'
  BY <1>4, BeginFacts DEF Begin, fleetVars, TypeOK
<1>5. ASSUME NEW p \in Passes, NEW n \in Nodes, NEW ping \in {"ok", "fail"},
             NEW new \in Health, Record(p, n, ping, new)
      PROVE  TypeOK'
  <2>1. pass' \in [Passes -> Pass]
    BY <1>5, RecordFacts
  <2>2. QED
    BY <1>5, <2>1 DEF Record, fleetVars, TypeOK
<1>6. ASSUME NEW p \in Passes, NEW n \in Nodes, ProbeDown(p, n) PROVE TypeOK'
  <2> DEFINE now == pass[p].now
             w == WriteOf(p, n, "fail", AfterFail(health[n], now))
             ws == [pass[p].writes EXCEPT ![n] = w]
  <2>1. now \in Nat /\ pass[p].writes \in [Nodes -> Write]
    BY DEF TypeOK, Pass
  <2>2. w \in Write
    BY <1>0, <2>1, AfterFailRow, WriteType
  <2> HIDE DEF w
  <2>3. ws \in [Nodes -> Write]
    BY <2>1, <2>2
  <2>4. Flush(ws, now) /\ Refreshed(p, n, NoWrites)
    BY <1>6 DEF ProbeDown, w
  <2>5. alert' \subseteq Nodes
    BY <1>6 DEF ProbeDown, Dispatched, TypeOK
  <2>6. evac' \in [Nodes -> Times]
    BY <1>6, <2>1 DEF ProbeDown, TypeOK, Times
  <2>7. pass' \in [Passes -> Pass]
    BY <2>4, RowTypes, RefreshedFacts
  <2> HIDE DEF ws, now
  <2>8. /\ health' \in [Nodes -> Health] /\ status' \in [Nodes -> Statuses]
        /\ fails' \in [Nodes -> SUBSET Nat] /\ oks' \in [Nodes -> SUBSET Nat]
    BY <2>1, <2>3, <2>4, FlushFacts
  <2>9. QED
    BY <1>6, <2>5, <2>6, <2>7, <2>8 DEF ProbeDown, TypeOK
<1>7. ASSUME NEW p \in Passes, NEW n \in Nodes, ProbeDownLost(p, n) PROVE TypeOK'
  <2> DEFINE w == [NoWrite EXCEPT !.was = status[n], !.to = Mirror(status[n], health[n].state)]
             ws == [NoWrites EXCEPT ![n] = w]
  <2>1. w \in Write
    BY RowTypes, MirrorType DEF NoWrite, Write, Statuses, TypeOK
  <2> HIDE DEF w
  <2>2. ws \in [Nodes -> Write]
    BY <2>1, RowTypes
  <2>3. Refreshed(p, n, ws)
    BY <1>7 DEF ProbeDownLost, w
  <2> HIDE DEF ws
  <2>4. pass' \in [Passes -> Pass]
    BY <2>2, <2>3, RefreshedFacts
  <2>5. evac' \in [Nodes -> Times]
    BY <1>7 DEF ProbeDownLost, TypeOK, Pass, Times
  <2>6. QED
    BY <1>7, <2>4, <2>5 DEF ProbeDownLost, DispatchRollsBack, TypeOK
<1>8. ASSUME NEW p \in Passes, EndPass(p) PROVE TypeOK'
  <2>1. pass[p].now \in Nat /\ pass[p].writes \in [Nodes -> Write]
    BY DEF TypeOK, Pass
  <2>2. /\ health' \in [Nodes -> Health] /\ status' \in [Nodes -> Statuses]
        /\ fails' \in [Nodes -> SUBSET Nat] /\ oks' \in [Nodes -> SUBSET Nat]
    BY <1>8, <2>1, FlushFacts DEF EndPass
  <2>3. pass' \in [Passes -> Pass]
    BY <1>8, IdleFacts DEF EndPass
  <2>4. QED
    BY <1>8, <2>2, <2>3 DEF EndPass, TypeOK
<1>9. ASSUME NEW p \in Passes, Crash(p) PROVE TypeOK'
  BY <1>9, IdleFacts DEF Crash, fleetVars, TypeOK
<1>10. CASE UNCHANGED vars
  BY <1>10 DEF vars, TypeOK
<1>11. ASSUME NEW p \in Passes, NEW n \in Nodes, ProbeOk(p, n) \/ ProbeFail(p, n)
       PROVE  TypeOK'
  <2>1. pass[p].now \in Nat
    BY DEF TypeOK, Pass
  <2>2. /\ AfterOk(n, Loaded(health[n]), pass[p].now) \in Health
        /\ AfterFail(Loaded(health[n]), pass[p].now) \in Health
    BY <1>0, <2>1, AfterOkRow, AfterFailRow
  <2>3. QED
    BY <1>5, <1>11, <2>2 DEF ProbeOk, ProbeFail
<1>12. QED
  BY <1>1, <1>2, <1>3, <1>4, <1>6, <1>7, <1>8, <1>9, <1>10, <1>11
  DEF Next, RunOnce, CheckNow

\* Every table and every session keeps the shape of its columns, however passes,
\* operators and crashes interleave.
THEOREM TypeCorrect == Spec => []TypeOK
  BY InitType, NextType, PTL DEF Spec

-----------------------------------------------------------------------------
(* The log justifies what the monitor believes.  The tables alone are not    *)
(* inductive: a pass commits rows it computed from rows that may be stale,   *)
(* so the invariant also says what an open session may contain.              *)

\* A node held to be up or down, or evacuated, has answered before; a streak of
\* lost pings starts with one that is in the log.
RowsJustified ==
    \A n \in Nodes :
        /\ (health[n].state \in {"up", "down"} \/ evac[n] # NoTime) => oks[n] # {}
        /\ health[n].firstFail \in fails[n] \cup {NoTime}

\* What a session holds is justified by the log and the sample it holds with it,
\* and it takes no node down: a pass that does commits at once.
Justified(n, w, now) ==
    w.ping # "none" =>
        /\ w.new.state \in {"up", "down"} => oks[n] # {} \/ w.ping = "ok"
        /\ \/ w.new.firstFail \in fails[n] \cup {NoTime}
           \/ w.ping = "fail" /\ w.new.firstFail = now
        /\ w.new.state = "down" => w.old.state = "down"

SessionJustified(p) == \A n \in Nodes : Justified(n, pass[p].writes[n], pass[p].now)

HistoryInv == TypeOK /\ RowsJustified /\ \A p \in Passes : SessionJustified(p)

LogGrows == \A n \in Nodes : fails[n] \subseteq fails'[n] /\ oks[n] \subseteq oks'[n]

LEMMA NoWritesJustified ==
  ASSUME NEW p \in Passes, pass'[p].writes = NoWrites
  PROVE  SessionJustified(p)'
  BY DEF SessionJustified, Justified, NoWrites, NoWrite

\* Other processes only add to the log, which leaves a session justified.
LEMMA SessionKept ==
  ASSUME HistoryInv, LogGrows, NEW p \in Passes,
         pass'[p].writes = pass[p].writes, pass'[p].now = pass[p].now
  PROVE  SessionJustified(p)'
<1> SUFFICES ASSUME NEW n \in Nodes PROVE Justified(n, pass[p].writes[n], pass[p].now)'
  BY DEF SessionJustified
<1>1. Justified(n, pass[p].writes[n], pass[p].now)
  BY DEF HistoryInv, SessionJustified
<1>2. fails[n] \subseteq fails'[n] /\ (oks[n] # {} => oks'[n] # {})
  BY DEF LogGrows
<1>3. QED
  BY <1>1, <1>2 DEF Justified

LEMMA FlushJustifies ==
  ASSUME HistoryInv, NEW ws \in [Nodes -> Write], NEW now \in Nat, Flush(ws, now),
         \A n \in Nodes : \/ Justified(n, ws[n], now)
                          \/ health[n].state = "up" /\ ws[n].ping = "fail"
                             /\ ws[n].new.firstFail \in fails[n] \cup {now},
         \A n \in Nodes : evac'[n] # evac[n] => health[n].state = "up"
  PROVE  RowsJustified' /\ LogGrows
<1>1. LogGrows
  BY FlushFacts DEF HistoryInv, LogGrows
<1>2. ASSUME NEW n \in Nodes, health'[n].state \in {"up", "down"} \/ evac'[n] # NoTime
      PROVE  oks'[n] # {}
  <2>1. CASE oks[n] # {}
    BY <1>1, <2>1 DEF LogGrows
  <2>2. CASE oks[n] = {}
    <3>1. health[n].state \notin {"up", "down"} /\ evac[n] = NoTime
      BY <2>2 DEF HistoryInv, RowsJustified
    <3>2. evac'[n] = NoTime
      BY <3>1
    <3>3. ws[n].new.state \in {"up", "down"} /\ ws[n].ping # "none"
      BY <1>2, <3>1, <3>2, FlushFacts DEF HistoryInv
    <3>4. Justified(n, ws[n], now)
      BY <3>1
    <3>5. ws[n].ping = "ok"
      BY <2>2, <3>3, <3>4 DEF Justified
    <3>6. QED
      BY <3>5, FlushFacts DEF HistoryInv
  <2>3. QED
    BY <2>1, <2>2
<1>3. ASSUME NEW n \in Nodes PROVE health'[n].firstFail \in fails'[n] \cup {NoTime}
  <2>1. health[n].firstFail \in fails'[n] \cup {NoTime}
    BY <1>1 DEF HistoryInv, RowsJustified, LogGrows
  <2>2. CASE ws[n].ping = "none"
    BY <2>1, <2>2, FlushFacts DEF HistoryInv
  <2>3. CASE ws[n].ping # "none"
    <3>1. \/ ws[n].new.firstFail \in fails[n] \cup {NoTime}
          \/ ws[n].ping = "fail" /\ ws[n].new.firstFail = now
      BY <2>3 DEF Justified
    <3>2. ws[n].ping = "fail" => now \in fails'[n]
      BY FlushFacts DEF HistoryInv
    <3>3. ws[n].new.firstFail \in fails'[n] \cup {NoTime}
      BY <1>1, <3>1, <3>2 DEF LogGrows
    <3>4. QED
      BY <2>1, <3>3, FlushFacts DEF HistoryInv
  <2>4. QED
    BY <2>2, <2>3
<1>4. QED
  BY <1>1, <1>2, <1>3 DEF RowsJustified

\* The two ways a probe enters a session.
LEMMA ProbeJustified ==
  ASSUME HistoryInv, NEW p \in Passes, NEW n \in Nodes
  PROVE  /\ Justified(n, WriteOf(p, n, "ok", AfterOk(n, Loaded(health[n]), pass[p].now)),
                      pass[p].now)
         /\ ~GoesDown(p, n) =>
              Justified(n, WriteOf(p, n, "fail", AfterFail(Loaded(health[n]), pass[p].now)),
                        pass[p].now)
<1> DEFINE h == health[n]
           now == pass[p].now
           ok == AfterOk(n, Loaded(h), now)
           fail == AfterFail(Loaded(h), now)
<1>1. h \in Health /\ Loaded(h) \in Health /\ now \in Nat
  BY LoadedRow DEF HistoryInv, TypeOK, Pass
<1>2. Loaded(h).state \in {"up", "down"} => Loaded(h).state = h.state
  BY <1>1, LoadedRow
<1>3. ok.firstFail = NoTime /\ (ok.state = "down" => h.state = "down")
  BY <1>1, <1>2, AfterOkRow
<1>4. ASSUME ~GoesDown(p, n)
      PROVE  /\ fail.state \in {"up", "down"} => fail.state = h.state
             /\ fail.firstFail \in fails[n] \cup {now}
  <2>1. fail.state # Loaded(h).state => Loaded(h).state = "up" /\ fail.state = "down"
    BY <1>1, AfterFailRow
  <2>2. Loaded(h).state = "up" => Loaded(h) = h
    BY <1>1, <1>2, LoadedRow DEF Health
  <2>3. fail.state = Loaded(h).state
    BY <1>4, <1>2, <2>1, <2>2 DEF GoesDown
  <2>4. fail.firstFail = IF h.firstFail = NoTime THEN now ELSE h.firstFail
    BY <1>1, LoadedRow, AfterFailRow
  <2>5. QED
    BY <1>2, <2>3, <2>4 DEF HistoryInv, RowsJustified
<1>5. h.state \in {"up", "down"} => oks[n] # {}
  BY DEF HistoryInv, RowsJustified
<1> HIDE DEF ok, fail, now, h
<1>6. Justified(n, WriteOf(p, n, "ok", ok), now)
  BY <1>3 DEF Justified, WriteOf, h
<1>7. ~GoesDown(p, n) => Justified(n, WriteOf(p, n, "fail", fail), now)
  BY <1>4, <1>5 DEF Justified, WriteOf, h
<1>8. QED
  BY <1>6, <1>7 DEF ok, fail, now, h

LEMMA InitHistory == Init => HistoryInv
<1> SUFFICES ASSUME Init PROVE HistoryInv
  OBVIOUS
<1>1. TypeOK
  BY InitType
<1>2. RowsJustified
  BY DEF Init, RowsJustified, NoHealth
<1>3. ASSUME NEW p \in Passes PROVE SessionJustified(p)
  BY DEF Init, SessionJustified, Justified, Idle, NoWrites, NoWrite
<1>4. QED
  BY <1>1, <1>2, <1>3 DEF HistoryInv

\* A step that leaves the rows and the log alone and changes sessions as given.
LEMMA RowsKept ==
  ASSUME HistoryInv, [Next]_vars, UNCHANGED <<health, fails, oks, evac>>,
         \A q \in Passes : \/ pass'[q].writes = pass[q].writes /\ pass'[q].now = pass[q].now
                           \/ SessionJustified(q)'
  PROVE  HistoryInv'
<1>1. TypeOK'
  BY NextType DEF HistoryInv
<1>2. RowsJustified'
  BY DEF HistoryInv, RowsJustified
<1>3. LogGrows
  BY DEF LogGrows
<1>4. ASSUME NEW q \in Passes PROVE SessionJustified(q)'
  BY <1>3, SessionKept
<1>5. QED
  BY <1>1, <1>2, <1>4 DEF HistoryInv

\* The pass that takes n down: the streak of n and its last lost ping are in the
\* log it commits, and n was up.
LEMMA DownWrite ==
  ASSUME HistoryInv, NEW p \in Passes, NEW n \in Nodes, GoesDown(p, n)
  PROVE  LET w == WriteOf(p, n, "fail", AfterFail(health[n], pass[p].now)) IN
         /\ w \in Write /\ w.ping = "fail"
         /\ health[n].state = "up" /\ w.old = health[n]
         /\ w.new.firstFail \in fails[n] \cup {pass[p].now}
         /\ pass[p].now - w.new.firstFail >= DownAfter
<1> DEFINE new == AfterFail(health[n], pass[p].now)
           w == WriteOf(p, n, "fail", new)
<1>1. health[n] \in Health /\ pass[p].now \in Nat
  BY DEF HistoryInv, TypeOK, Pass
<1>2. /\ new \in Health
      /\ new.firstFail = IF health[n].firstFail = NoTime THEN pass[p].now
                                                      ELSE health[n].firstFail
      /\ pass[p].now - new.firstFail >= DownAfter
  BY <1>1, AfterFailRow DEF GoesDown
<1>3. new.firstFail \in fails[n] \cup {pass[p].now}
  BY <1>2 DEF HistoryInv, RowsJustified
<1> HIDE DEF new
<1>4. w \in Write
  BY <1>2, WriteType DEF HistoryInv
<1>5. w.ping = "fail" /\ w.old = health[n] /\ w.new = new
  BY DEF WriteOf
<1>6. QED
  BY <1>2, <1>3, <1>4, <1>5 DEF GoesDown, new

\* What the commit of a pass that takes n down writes for the other nodes is what
\* its session held.
LEMMA ProbeDownFlush ==
  ASSUME HistoryInv, NEW p \in Passes, NEW n \in Nodes, ProbeDown(p, n)
  PROVE  \E ws \in [Nodes -> Write] :
            /\ Flush(ws, pass[p].now)
            /\ ws[n] = WriteOf(p, n, "fail", AfterFail(health[n], pass[p].now))
            /\ \A m \in Nodes \ {n} : Justified(m, ws[m], pass[p].now)
<1> DEFINE w == WriteOf(p, n, "fail", AfterFail(health[n], pass[p].now))
           ws == [pass[p].writes EXCEPT ![n] = w]
<1>1. pass[p].writes \in [Nodes -> Write] /\ SessionJustified(p)
  BY DEF HistoryInv, TypeOK, Pass
<1>2. w \in Write
  BY DownWrite DEF ProbeDown
<1>3. Flush(ws, pass[p].now)
  BY DEF ProbeDown
<1> HIDE DEF w
<1>4. ws \in [Nodes -> Write] /\ ws[n] = w /\ \A m \in Nodes \ {n} : ws[m] = pass[p].writes[m]
  BY <1>1, <1>2
<1>5. \A m \in Nodes \ {n} : Justified(m, ws[m], pass[p].now)
  BY <1>1, <1>4 DEF SessionJustified
<1> HIDE DEF ws
<1>6. QED
  BY <1>3, <1>4, <1>5 DEF w

LEMMA NextHistory == HistoryInv /\ [Next]_vars => HistoryInv'
<1> SUFFICES ASSUME HistoryInv, [Next]_vars PROVE HistoryInv'
  OBVIOUS
<1>0. TypeOK /\ TypeOK'
  BY NextType DEF HistoryInv
<1>1. CASE Tick
  BY <1>1, RowsKept DEF Tick, fleetVars
<1>2. ASSUME NEW n \in Nodes, Enable(n) \/ Disable(n) \/ Acknowledge(n) PROVE HistoryInv'
  BY <1>2, RowsKept DEF Enable, Disable, Acknowledge
<1>3. ASSUME NEW p \in Passes, NEW nodes \in SUBSET Nodes, Begin(p, nodes) PROVE HistoryInv'
  <2>1. \A q \in Passes : \/ pass'[q].writes = pass[q].writes /\ pass'[q].now = pass[q].now
                          \/ q = p /\ pass'[q].writes = NoWrites
    BY <1>0, <1>3, BeginFacts
  <2>2. \A q \in Passes : \/ pass'[q].writes = pass[q].writes /\ pass'[q].now = pass[q].now
                          \/ SessionJustified(q)'
    BY <2>1, NoWritesJustified
  <2>3. QED
    BY <1>3, <2>2, RowsKept DEF Begin, fleetVars
<1>4. ASSUME NEW p \in Passes, NEW n \in Nodes, ProbeOk(p, n) \/ ProbeFail(p, n)
      PROVE  HistoryInv'
  <2>1. pass[p].now \in Nat /\ health[n] \in Health /\ Loaded(health[n]) \in Health
    BY <1>0, LoadedRow DEF TypeOK, Pass
  <2>2. PICK ping \in {"ok", "fail"}, new \in Health :
           /\ Record(p, n, ping, new)
           /\ Justified(n, WriteOf(p, n, ping, new), pass[p].now)
    <3>1. CASE ProbeOk(p, n)
      BY <2>1, <3>1, AfterOkRow, ProbeJustified DEF ProbeOk
    <3>2. CASE ProbeFail(p, n)
      BY <2>1, <3>2, AfterFailRow, ProbeJustified DEF ProbeFail
    <3>3. QED
      BY <1>4, <3>1, <3>2
  <2>3. UNCHANGED <<health, fails, oks, evac>>
    BY <2>2 DEF Record, fleetVars
  <2>4. \A q \in Passes :
           /\ pass'[q].now = pass[q].now
           /\ \A m \in Nodes :
                pass'[q].writes[m] = IF q = p /\ m = n THEN WriteOf(p, n, ping, new)
                                                      ELSE pass[q].writes[m]
    BY <1>0, <2>2, RecordFacts
  <2>5. ASSUME NEW q \in Passes, NEW m \in Nodes
        PROVE  Justified(m, pass'[q].writes[m], pass'[q].now)
    BY <2>2, <2>4 DEF HistoryInv, SessionJustified
  <2>6. ASSUME NEW q \in Passes PROVE SessionJustified(q)'
    BY <2>3, <2>5 DEF SessionJustified, Justified
  <2>7. QED
    BY <2>3, <2>6, RowsKept
<1>5. ASSUME NEW p \in Passes, NEW n \in Nodes, ProbeDown(p, n) PROVE HistoryInv'
  <2>1. PICK ws \in [Nodes -> Write] :
           /\ Flush(ws, pass[p].now)
           /\ ws[n] = WriteOf(p, n, "fail", AfterFail(health[n], pass[p].now))
           /\ \A m \in Nodes \ {n} : Justified(m, ws[m], pass[p].now)
    BY <1>5, ProbeDownFlush
  <2>2. /\ ws[n].ping = "fail" /\ health[n].state = "up"
        /\ ws[n].new.firstFail \in fails[n] \cup {pass[p].now}
    BY <1>5, <2>1, DownWrite DEF ProbeDown
  <2>3. \A m \in Nodes : evac'[m] # evac[m] => health[m].state = "up"
    BY <1>0, <1>5, <2>2 DEF ProbeDown, TypeOK
  <2>4. pass[p].now \in Nat
    BY <1>0 DEF TypeOK, Pass
  <2>5. RowsJustified' /\ LogGrows
    BY <2>1, <2>2, <2>3, <2>4, FlushJustifies
  <2>6. \A q \in Passes : /\ pass'[q].now = pass[q].now
                          /\ pass'[q].writes = IF q = p THEN NoWrites ELSE pass[q].writes
    BY <1>0, <1>5, RowTypes, RefreshedFacts DEF ProbeDown
  <2>7. ASSUME NEW q \in Passes PROVE SessionJustified(q)'
    BY <2>5, <2>6, SessionKept, NoWritesJustified
  <2>8. QED
    BY <1>0, <2>5, <2>7 DEF HistoryInv
<1>6. ASSUME NEW p \in Passes, NEW n \in Nodes, ProbeDownLost(p, n) PROVE HistoryInv'
  <2> DEFINE w == [NoWrite EXCEPT !.was = status[n], !.to = Mirror(status[n], health[n].state)]
             ws == [NoWrites EXCEPT ![n] = w]
  <2>1. w \in Write /\ w.ping = "none"
    BY <1>0, RowTypes, MirrorType DEF NoWrite, Write, Statuses, TypeOK
  <2> HIDE DEF w
  <2>2. ws \in [Nodes -> Write] /\ \A m \in Nodes : ws[m].ping = "none"
    BY <2>1, RowTypes DEF NoWrites, NoWrite
  <2>3. Refreshed(p, n, ws)
    BY <1>6 DEF ProbeDownLost, w
  <2> HIDE DEF ws
  <2>4. \A q \in Passes : /\ pass'[q].now = pass[q].now
                          /\ pass'[q].writes = IF q = p THEN ws ELSE pass[q].writes
    BY <1>0, <2>2, <2>3, RefreshedFacts
  <2>5. LogGrows
    BY <1>6 DEF ProbeDownLost, LogGrows
  <2>6. ASSUME NEW q \in Passes PROVE SessionJustified(q)'
    <3>1. CASE q = p
      BY <2>2, <2>4, <3>1 DEF SessionJustified, Justified
    <3>2. CASE q # p
      BY <2>4, <2>5, <3>2, SessionKept
    <3>3. QED
      BY <3>1, <3>2
  <2>7. RowsJustified'
    <3>1. health[n].state = "up"
      BY <1>6 DEF ProbeDownLost, GoesDown
    <3>2. \A m \in Nodes : evac'[m] # NoTime => evac[m] # NoTime \/ m = n
      BY <1>0, <1>6 DEF ProbeDownLost, TypeOK
    <3>3. UNCHANGED <<health, fails, oks>>
      BY <1>6 DEF ProbeDownLost
    <3>4. QED
      BY <3>1, <3>2, <3>3 DEF HistoryInv, RowsJustified
  <2>8. QED
    BY <1>0, <2>6, <2>7 DEF HistoryInv
<1>7. ASSUME NEW p \in Passes, EndPass(p) PROVE HistoryInv'
  <2>1. /\ pass[p].writes \in [Nodes -> Write] /\ pass[p].now \in Nat
        /\ SessionJustified(p)
    BY <1>0 DEF TypeOK, Pass, HistoryInv
  <2>2. RowsJustified' /\ LogGrows
    BY <1>7, <2>1, FlushJustifies DEF EndPass, SessionJustified
  <2>3. \A q \in Passes : pass'[q] = pass[q] \/ (q = p /\ pass'[q].writes = NoWrites)
    BY <1>0, <1>7, IdleFacts DEF EndPass
  <2>4. ASSUME NEW q \in Passes PROVE SessionJustified(q)'
    BY <2>2, <2>3, SessionKept, NoWritesJustified
  <2>5. QED
    BY <1>0, <2>2, <2>4 DEF HistoryInv
<1>8. ASSUME NEW p \in Passes, Crash(p) PROVE HistoryInv'
  <2>1. \A q \in Passes : pass'[q] = pass[q] \/ (q = p /\ pass'[q].writes = NoWrites)
    BY <1>0, <1>8, IdleFacts DEF Crash
  <2>2. \A q \in Passes : \/ pass'[q].writes = pass[q].writes /\ pass'[q].now = pass[q].now
                          \/ SessionJustified(q)'
    BY <2>1, NoWritesJustified
  <2>3. QED
    BY <1>8, <2>2, RowsKept DEF Crash, fleetVars
<1>9. CASE UNCHANGED vars
  BY <1>9, RowsKept DEF vars
<1>10. QED
  BY <1>1, <1>2, <1>3, <1>4, <1>5, <1>6, <1>7, <1>8, <1>9 DEF Next, RunOnce, CheckNow

\* A node goes down with the probe of a pass, never with what a session held.
LEMMA WhoTakesDown ==
  ASSUME HistoryInv, Next, NEW m \in Nodes, WentDown(m)
  PROVE  \E p \in Passes : ProbeDown(p, m)
<1>0. TypeOK /\ health' # health
  BY DEF HistoryInv, WentDown
<1>1. ASSUME NEW p \in Passes, EndPass(p) PROVE FALSE
  <2>1. /\ pass[p].writes \in [Nodes -> Write] /\ pass[p].now \in Nat
        /\ Justified(m, pass[p].writes[m], pass[p].now)
    BY <1>0 DEF TypeOK, Pass, HistoryInv, SessionJustified
  <2>2. /\ pass[p].writes[m].ping # "none"
        /\ pass[p].writes[m].new.state = "down"
        /\ pass[p].writes[m].old.state # "down"
    BY <1>0, <1>1, <2>1, FlushFacts DEF EndPass, WentDown
  <2>3. QED
    BY <2>1, <2>2 DEF Justified
<1>2. ASSUME NEW p \in Passes, NEW n \in Nodes, ProbeDown(p, n) PROVE m = n
  <2>1. PICK ws \in [Nodes -> Write] :
           /\ Flush(ws, pass[p].now)
           /\ \A k \in Nodes \ {n} : Justified(k, ws[k], pass[p].now)
    BY <1>2, ProbeDownFlush
  <2>2. pass[p].now \in Nat
    BY <1>0 DEF TypeOK, Pass
  <2>3. /\ ws[m].ping # "none" /\ ws[m].new.state = "down"
        /\ ws[m].old.state # "down"
    BY <1>0, <2>1, <2>2, FlushFacts DEF WentDown
  <2>4. QED
    BY <2>1, <2>3 DEF Justified
<1>3. ~Tick /\ \A n \in Nodes : ~Enable(n) /\ ~Disable(n) /\ ~Acknowledge(n)
  BY <1>0 DEF Tick, Enable, Disable, Acknowledge, fleetVars
<1>4. ASSUME NEW p \in Passes
      PROVE  ~RunOnce(p) /\ ~Crash(p) /\ \A n \in Nodes : ~CheckNow(p, n)
  BY <1>0 DEF RunOnce, CheckNow, Begin, Crash, fleetVars
<1>5. ASSUME NEW p \in Passes, NEW n \in Nodes
      PROVE  ~ProbeOk(p, n) /\ ~ProbeFail(p, n) /\ ~ProbeDownLost(p, n)
  BY <1>0 DEF ProbeOk, ProbeFail, Record, ProbeDownLost, fleetVars
<1>6. QED
  BY <1>1, <1>2, <1>3, <1>4, <1>5 DEF Next

-----------------------------------------------------------------------------
(* The theorems *)

\* However cron runs, panel checks, operators and crashes interleave, a node that
\* never answered is neither recorded down nor evacuated.
THEOREM DownOnlyAfterUp == Spec => []NeverDownBeforeUp
<1>1. HistoryInv => NeverDownBeforeUp
  BY DEF HistoryInv, RowsJustified, NeverDownBeforeUp
<1>2. QED
  BY <1>1, InitHistory, NextHistory, PTL DEF Spec

\* And what takes a node down is in the log: lost pings at least down_after apart.
THEOREM DownIsJustified == Spec => DownHasEvidence
<1> DEFINE Evidence ==
             \A n \in Nodes : WentDown(n) =>
                 \E first, last \in fails'[n] : last - first >= DownAfter
<1>1. HistoryInv /\ [Next]_vars => [Evidence]_vars
  <2> SUFFICES ASSUME HistoryInv, Next, NEW n \in Nodes, WentDown(n)
               PROVE  \E first, last \in fails'[n] : last - first >= DownAfter
    OBVIOUS
  <2>0. TypeOK
    BY DEF HistoryInv
  <2>1. PICK p \in Passes : ProbeDown(p, n)
    BY WhoTakesDown
  <2>2. PICK ws \in [Nodes -> Write] :
           /\ Flush(ws, pass[p].now)
           /\ ws[n] = WriteOf(p, n, "fail", AfterFail(health[n], pass[p].now))
    BY <2>1, ProbeDownFlush
  <2>3. pass[p].now \in Nat
    BY <2>0 DEF TypeOK, Pass
  <2>4. /\ ws[n].ping = "fail"
        /\ ws[n].new.firstFail \in fails[n] \cup {pass[p].now}
        /\ pass[p].now - ws[n].new.firstFail >= DownAfter
    BY <2>1, <2>2, DownWrite DEF ProbeDown
  <2>5. pass[p].now \in fails'[n] /\ ws[n].new.firstFail \in fails'[n]
    BY <2>0, <2>2, <2>3, <2>4, FlushFacts
  <2>6. QED
    BY <2>4, <2>5
<1>2. QED
  BY <1>1, InitHistory, NextHistory, PTL DEF Spec, DownHasEvidence

-----------------------------------------------------------------------------
(* One pass at a time.  Cron runs and panel checks that do not overlap commit *)
(* what they computed from rows that are still the rows.                      *)

OnePass == \A p, q \in Passes : pass[p].running /\ pass[q].running => p = q

\* Nothing in the log is later than now; no answer is later than the first lost
\* ping of a streak, nor is the evacuation of a node that is up.
RowTimes ==
    \A n \in Nodes :
        /\ \A t \in fails[n] \cup oks[n] : t <= clock
        /\ evac[n] <= clock
        /\ health[n].firstFail # NoTime => \A t \in oks[n] : t <= health[n].firstFail
        /\ NumChannels < 2 /\ health[n].state = "up" /\ health[n].firstFail # NoTime
              => evac[n] <= health[n].firstFail

\* What a session holds for n was computed from the rows as they are.
Fits(n, w, now) ==
    /\ w.ping = "none" /\ w.to # w.was => w.to = health[n].state
    /\ w.ping # "none" =>
         /\ w.old = health[n]
         /\ w.old.state \in {"up", "down"} => w.new.state \in {"up", "down"}
         /\ w.to = Mirror(w.was, w.new.state)
         /\ status[n] \in {"up", "down"} => w.was = status[n]
         /\ w.new.firstFail # NoTime =>
              w.ping = "fail" /\ \A t \in oks[n] : t <= w.new.firstFail
         /\ NumChannels < 2 /\ w.new.state = "up" /\ w.new.firstFail # NoTime
              => evac[n] <= w.new.firstFail
         /\ w.old.state = "down" /\ w.new.state = "up" => w.ping = "ok" /\ Quiet(n, now)

TimesUpTo(n, now) == evac[n] <= now /\ \A t \in fails[n] \cup oks[n] : t <= now

\* An operator may have taken a node out of "up" or "down" behind the back of the
\* pass, never put it there.
SeenRight(p, n) ==
    n \in pass[p].stale /\ status[n] \in {"up", "down"} => pass[p].seen[n] = status[n]

Current(p) ==
    /\ pass[p].now <= clock
    /\ \A n \in Nodes : /\ TimesUpTo(n, pass[p].now)
                        /\ Fits(n, pass[p].writes[n], pass[p].now)
                        /\ SeenRight(p, n)

OnePassInv ==
    /\ HistoryInv
    /\ RowTimes
    /\ MirrorAgrees
    /\ \A p \in Passes : pass[p].running => Current(p)

-----------------------------------------------------------------------------
(* The session of the pass that takes a step *)

LEMMA BeginSession ==
  ASSUME TypeOK, NEW p \in Passes, NEW nodes \in SUBSET Nodes, Begin(p, nodes)
  PROVE  /\ pass'[p].running /\ pass'[p].now = clock /\ pass'[p].todo = nodes
         /\ pass'[p].writes = NoWrites
         /\ \A n \in pass'[p].stale : pass'[p].seen[n] = status[n]
         /\ \A q \in Passes : q # p => pass'[q] = pass[q]
<1> DEFINE seen == [n \in Nodes |-> IF n \in nodes THEN status[n] ELSE Idle.seen[n]]
           new == [Idle EXCEPT !.running = TRUE, !.now = clock, !.todo = nodes,
                               !.stale = nodes, !.seen = seen]
<1>1. pass' = [pass EXCEPT ![p] = new]
  BY DEF Begin, Idle
<1>2. /\ new.running /\ new.now = clock /\ new.todo = nodes /\ new.writes = NoWrites
      /\ new.stale = nodes /\ new.seen = seen
  BY DEF Idle
<1>3. \A n \in nodes : seen[n] = status[n]
  OBVIOUS
<1> HIDE DEF new, seen
<1>4. QED
  BY <1>1, <1>2, <1>3 DEF TypeOK

LEMMA RecordSession ==
  ASSUME TypeOK, NEW p \in Passes, NEW n \in Nodes, NEW ping, NEW new, Record(p, n, ping, new)
  PROVE  /\ pass[p].running /\ pass'[p].running /\ n \in pass[p].todo
         /\ pass'[p].now = pass[p].now /\ pass'[p].todo = pass[p].todo \ {n}
         /\ pass'[p].stale = pass[p].stale \ {n}
         /\ pass'[p].writes[n] = WriteOf(p, n, ping, new)
         /\ \A m \in Nodes \ {n} : /\ pass'[p].writes[m] = pass[p].writes[m]
                                   /\ pass'[p].seen[m] = pass[p].seen[m]
         /\ \A q \in Passes : q # p => pass'[q] = pass[q]
<1> DEFINE w == WriteOf(p, n, ping, new)
           x == [pass[p] EXCEPT !.todo = @ \ {n}, !.stale = @ \ {n},
                                !.seen = [@ EXCEPT ![n] = Idle.seen[n]],
                                !.writes = [@ EXCEPT ![n] = w]]
<1>1. pass[p].running /\ n \in pass[p].todo /\ pass' = [pass EXCEPT ![p] = x]
  BY DEF Record, TypeOK, Pass
<1>2. pass[p] \in Pass
  BY DEF TypeOK
<1> HIDE DEF w, Idle
<1>3. /\ x.running = pass[p].running /\ x.now = pass[p].now /\ x.todo = pass[p].todo \ {n}
      /\ x.stale = pass[p].stale \ {n} /\ x.writes = [pass[p].writes EXCEPT ![n] = w]
      /\ x.seen = [pass[p].seen EXCEPT ![n] = Idle.seen[n]]
  BY <1>2 DEF Pass
<1>4. DOMAIN pass[p].writes = Nodes /\ DOMAIN pass[p].seen = Nodes
  BY <1>2 DEF Pass
<1> HIDE DEF x
<1>5. pass'[p] = x /\ \A q \in Passes : q # p => pass'[q] = pass[q]
  BY <1>1 DEF TypeOK
<1>6. x.writes[n] = w /\ \A m \in Nodes \ {n} : /\ x.writes[m] = pass[p].writes[m]
                                                /\ x.seen[m] = pass[p].seen[m]
  BY <1>3, <1>4
<1>7. QED
  BY <1>1, <1>3, <1>5, <1>6 DEF w

LEMMA RefreshedSession ==
  ASSUME TypeOK, NEW p \in Passes, NEW n \in Nodes, NEW ws, Refreshed(p, n, ws)
  PROVE  /\ pass'[p].running = pass[p].running /\ pass'[p].now = pass[p].now
         /\ pass'[p].todo = pass[p].todo \ {n}
         /\ pass'[p].stale = {} /\ pass'[p].writes = ws
         /\ \A q \in Passes : q # p => pass'[q] = pass[q]
<1> DEFINE x == [pass[p] EXCEPT !.todo = @ \ {n}, !.stale = {},
                                !.seen = Idle.seen, !.writes = ws]
<1>1. pass' = [pass EXCEPT ![p] = x] /\ pass[p] \in Pass
  BY DEF Refreshed, TypeOK, Pass
<1> HIDE DEF Idle
<1>2. /\ x.running = pass[p].running /\ x.now = pass[p].now /\ x.todo = pass[p].todo \ {n}
      /\ x.stale = {} /\ x.writes = ws
  BY <1>1 DEF Pass
<1> HIDE DEF x
<1>3. QED
  BY <1>1, <1>2 DEF TypeOK

-----------------------------------------------------------------------------
(* What one pass commits *)

\* With rows that are still the rows, the flush puts every node where its probe
\* put it, and the registry says the same.
LEMMA FlushFits ==
  ASSUME TypeOK, MirrorAgrees, NEW ws \in [Nodes -> Write], NEW now \in Nat, Flush(ws, now),
         NEW n \in Nodes, Fits(n, ws[n], now)
  PROVE  /\ health'[n] = IF ws[n].ping = "none" THEN health[n] ELSE ws[n].new
         /\ status'[n] \in {"up", "down"} => health'[n].state = status'[n]
         /\ fails'[n] = fails[n] \cup (IF ws[n].ping = "fail" THEN {now} ELSE {})
         /\ oks'[n] = oks[n] \cup (IF ws[n].ping = "ok" THEN {now} ELSE {})
<1> DEFINE w == ws[n]
<1>1. w \in Write /\ w.new \in Health /\ w.old \in Health /\ health[n] \in Health
  BY DEF TypeOK, Write
<1>2. /\ health'[n] = IF w.ping = "none" THEN health[n] ELSE Changed(health[n], w.old, w.new)
      /\ status'[n] = IF w.to # w.was THEN w.to ELSE status[n]
      /\ fails'[n] = fails[n] \cup (IF w.ping = "fail" THEN {now} ELSE {})
      /\ oks'[n] = oks[n] \cup (IF w.ping = "ok" THEN {now} ELSE {})
  BY DEF Flush
<1>3. ASSUME w.ping # "none"
      PROVE  Changed(health[n], w.old, w.new) = w.new
  <2>1. w.old = health[n]
    BY <1>3 DEF Fits
  <2>2. QED
    BY <1>1, <2>1 DEF Changed, Health
<1>4. ASSUME status'[n] \in {"up", "down"} PROVE health'[n].state = status'[n]
  <2>1. CASE w.ping = "none"
    BY <1>2, <1>4, <2>1 DEF Fits, MirrorAgrees
  <2>2. CASE w.ping # "none"
    <3>1. /\ w.old = health[n] /\ w.to = Mirror(w.was, w.new.state)
          /\ w.old.state \in {"up", "down"} => w.new.state \in {"up", "down"}
          /\ status[n] \in {"up", "down"} => w.was = status[n]
      BY <2>2 DEF Fits
    <3>2. health'[n].state = w.new.state
      BY <1>2, <1>3, <2>2
    <3>3. CASE w.to # w.was
      BY <1>2, <3>1, <3>2, <3>3 DEF Mirror
    <3>4. CASE w.to = w.was
      <4>1. status[n] \in {"up", "down"} /\ w.was = status[n] /\ health[n].state = status[n]
        BY <1>2, <1>4, <3>1, <3>4 DEF MirrorAgrees
      <4>2. w.new.state \in {"up", "down"} /\ w.to = w.new.state
        BY <3>1, <4>1 DEF Mirror
      <4>3. QED
        BY <1>2, <3>2, <3>4, <4>1, <4>2
    <3>5. QED
      BY <3>3, <3>4
  <2>3. QED
    BY <2>1, <2>2
<1>5. QED
  BY <1>2, <1>3, <1>4

\* The commit of a pass keeps rows and log in order.
LEMMA FlushTimes ==
  ASSUME OnePassInv, NEW p \in Passes, pass[p].running, NEW ws \in [Nodes -> Write],
         Flush(ws, pass[p].now), \A n \in Nodes : Fits(n, ws[n], pass[p].now),
         \A n \in Nodes : \/ evac'[n] = evac[n]
                          \/ /\ evac'[n] = pass[p].now
                             /\ ws[n].ping = "fail" /\ ws[n].new.state # "up",
         clock' = clock
  PROVE  /\ RowTimes' /\ MirrorAgrees'
         /\ \A n \in Nodes : /\ evac'[n] <= pass[p].now
                             /\ \A t \in fails'[n] \cup oks'[n] : t <= pass[p].now
<1> DEFINE now == pass[p].now
<1>0. /\ TypeOK /\ MirrorAgrees /\ RowTimes /\ Current(p) /\ now \in Nat /\ clock \in Nat
      /\ now <= clock
  BY DEF OnePassInv, HistoryInv, TypeOK, Pass, Current
<1>1. ASSUME NEW n \in Nodes
      PROVE  /\ health'[n] = IF ws[n].ping = "none" THEN health[n] ELSE ws[n].new
             /\ status'[n] \in {"up", "down"} => health'[n].state = status'[n]
             /\ fails'[n] = fails[n] \cup (IF ws[n].ping = "fail" THEN {now} ELSE {})
             /\ oks'[n] = oks[n] \cup (IF ws[n].ping = "ok" THEN {now} ELSE {})
  BY <1>0, FlushFits
<1>2. ASSUME NEW n \in Nodes
      PROVE  evac'[n] <= now /\ \A t \in fails'[n] \cup oks'[n] : t <= now
  <2>1. evac[n] <= now /\ \A t \in fails[n] \cup oks[n] : t <= now
    BY <1>0 DEF Current, TimesUpTo
  <2>2. QED
    BY <1>0, <1>1, <2>1
<1>3. ASSUME NEW n \in Nodes
      PROVE  evac'[n] <= clock' /\ \A t \in fails'[n] \cup oks'[n] : t <= clock'
  <2>1. evac'[n] \in Int /\ \A t \in fails'[n] \cup oks'[n] : t \in Int
    BY <1>0, <1>1 DEF TypeOK, Times, NoTime
  <2>2. QED
    BY <1>0, <1>2, <2>1
<1>4. ASSUME NEW n \in Nodes, health'[n].firstFail # NoTime
      PROVE  /\ \A t \in oks'[n] : t <= health'[n].firstFail
             /\ NumChannels < 2 /\ health'[n].state = "up" => evac'[n] <= health'[n].firstFail
  <2>1. CASE ws[n].ping = "none"
    BY <1>0, <1>1, <1>4, <2>1 DEF RowTimes
  <2>2. CASE ws[n].ping # "none"
    <3>1. /\ ws[n].new.firstFail # NoTime /\ health'[n] = ws[n].new
          /\ Fits(n, ws[n], now)
      BY <1>1, <1>4, <2>2
    <3>2. ws[n].ping = "fail" /\ \A t \in oks[n] : t <= ws[n].new.firstFail
      BY <2>2, <3>1 DEF Fits
    <3>3. NumChannels < 2 /\ ws[n].new.state = "up" => evac[n] <= ws[n].new.firstFail
      BY <2>2, <3>1 DEF Fits
    <3>4. QED
      BY <1>1, <3>1, <3>2, <3>3
  <2>3. QED
    BY <2>1, <2>2
<1>5. RowTimes'
  BY <1>3, <1>4 DEF RowTimes
<1>6. MirrorAgrees'
  BY <1>1 DEF MirrorAgrees
<1>7. QED
  BY <1>2, <1>5, <1>6

-----------------------------------------------------------------------------
(* OnePassInv is inductive while passes do not overlap *)

\* What a probe adds to the session was computed from the rows as they are.
LEMMA ProbeFits ==
  ASSUME OnePassInv, NEW p \in Passes, pass[p].running, NEW n \in Nodes
  PROVE  /\ Fits(n, WriteOf(p, n, "ok", AfterOk(n, Loaded(health[n]), pass[p].now)),
                 pass[p].now)
         /\ Fits(n, WriteOf(p, n, "fail", AfterFail(Loaded(health[n]), pass[p].now)),
                 pass[p].now)
<1> DEFINE h == health[n]
           now == pass[p].now
           ok == AfterOk(n, Loaded(h), now)
           fail == AfterFail(Loaded(h), now)
<1>0. TypeOK /\ RowTimes /\ Current(p)
  BY DEF OnePassInv, HistoryInv
<1>1. h \in Health /\ Loaded(h) \in Health /\ now \in Nat /\ Loaded(h).firstFail = h.firstFail
  BY <1>0, LoadedRow DEF TypeOK, Pass
<1>2. Loaded(h).state \in {"up", "down"} => Loaded(h).state = h.state
  BY <1>1, LoadedRow
<1>3. h.state \in {"up", "down"} => Loaded(h) = h
  BY <1>1, LoadedRow
<1>4. status[n] \in {"up", "down"} => Seen(p, n) = status[n]
  BY <1>0 DEF Current, SeenRight, Seen
<1>5. /\ ok.firstFail = NoTime /\ ok.state \in {"up", "down"}
      /\ h.state = "down" /\ ok.state = "up" => Quiet(n, now)
  BY <1>1, <1>3 DEF AfterOk
<1>6. /\ fail.firstFail = IF h.firstFail = NoTime THEN now ELSE h.firstFail
      /\ fail.state # Loaded(h).state => Loaded(h).state = "up" /\ fail.state = "down"
  BY <1>1, AfterFailRow
<1>7. /\ h.state \in {"up", "down"} => fail.state \in {"up", "down"}
      /\ fail.state = "up" => h.state = "up"
  BY <1>2, <1>3, <1>6
<1>8. /\ \A t \in oks[n] : t <= fail.firstFail
      /\ NumChannels < 2 /\ fail.state = "up" => evac[n] <= fail.firstFail
  <2>1. CASE h.firstFail = NoTime
    BY <1>0, <1>6, <2>1 DEF Current, TimesUpTo
  <2>2. CASE h.firstFail # NoTime
    BY <1>0, <1>6, <1>7, <2>2 DEF RowTimes
  <2>3. QED
    BY <2>1, <2>2
<1> HIDE DEF ok, fail, now, h
<1>9. Fits(n, WriteOf(p, n, "ok", ok), now)
  BY <1>4, <1>5 DEF Fits, WriteOf, h
<1>10. Fits(n, WriteOf(p, n, "fail", fail), now)
  BY <1>4, <1>7, <1>8 DEF Fits, WriteOf, h
<1>11. QED
  BY <1>9, <1>10 DEF ok, fail, now, h

\* Steps that leave the health tables alone and put no status to "up" or "down".
LEMMA TablesKept ==
  ASSUME OnePassInv, UNCHANGED <<health, fails, oks, evac>>, clock' \in Nat, clock' >= clock,
         \A n \in Nodes : status'[n] = status[n] \/ status'[n] \notin {"up", "down"}
  PROVE  /\ RowTimes' /\ MirrorAgrees'
         /\ \A n \in Nodes : \A w, now : Fits(n, w, now) => Fits(n, w, now)'
         /\ \A q \in Passes : pass'[q] = pass[q] /\ pass[q].running => Current(q)'
<1>0. /\ TypeOK /\ RowTimes /\ MirrorAgrees /\ clock \in Nat
      /\ \A q \in Passes : pass[q].now \in Nat
  BY DEF OnePassInv, HistoryInv, TypeOK, Pass
<1>1. RowTimes'
  <2>1. \A n \in Nodes : evac[n] \in Int /\ \A t \in fails[n] \cup oks[n] : t \in Int
    BY <1>0 DEF TypeOK, Times, NoTime
  <2>2. ASSUME NEW n \in Nodes
        PROVE  evac[n] <= clock' /\ \A t \in fails[n] \cup oks[n] : t <= clock'
    BY <1>0, <2>1 DEF RowTimes
  <2>3. QED
    BY <1>0, <2>2 DEF RowTimes
<1>2. MirrorAgrees'
  BY <1>0 DEF MirrorAgrees
<1>3. ASSUME NEW n \in Nodes, NEW w, NEW now, Fits(n, w, now) PROVE Fits(n, w, now)'
  BY <1>3 DEF Fits, Quiet
<1>4. ASSUME NEW q \in Passes, pass'[q] = pass[q], pass[q].running PROVE Current(q)'
  <2>1. Current(q)
    BY <1>4 DEF OnePassInv
  <2>2. pass[q].now <= clock'
    BY <1>0, <2>1 DEF Current
  <2>3. \A n \in Nodes : TimesUpTo(n, pass[q].now)'
    BY <1>4, <2>1 DEF Current, TimesUpTo
  <2>4. \A n \in Nodes : Fits(n, pass[q].writes[n], pass[q].now)'
    BY <1>3, <1>4, <2>1 DEF Current
  <2>5. \A n \in Nodes : SeenRight(q, n)'
    BY <1>4, <2>1 DEF Current, SeenRight
  <2>6. QED
    BY <1>4, <2>2, <2>3, <2>4, <2>5 DEF Current
<1>5. QED
  BY <1>1, <1>2, <1>3, <1>4

\* The session with the probe that takes n down still fits the rows.
LEMMA DownFits ==
  ASSUME OnePassInv, NEW p \in Passes, NEW n \in Nodes, ProbeDown(p, n)
  PROVE  LET w == WriteOf(p, n, "fail", AfterFail(health[n], pass[p].now))
             ws == [pass[p].writes EXCEPT ![n] = w] IN
         /\ pass[p].running /\ ws \in [Nodes -> Write] /\ Flush(ws, pass[p].now)
         /\ ws[n] = w /\ w.ping = "fail" /\ w.old = health[n] /\ health[n].state = "up"
         /\ w.new.state = "down" /\ pass[p].now - w.new.firstFail >= DownAfter
         /\ w.new.firstFail = IF health[n].firstFail = NoTime THEN pass[p].now
                                                              ELSE health[n].firstFail
         /\ \A m \in Nodes : Fits(m, ws[m], pass[p].now)
<1> DEFINE w == WriteOf(p, n, "fail", AfterFail(health[n], pass[p].now))
           ws == [pass[p].writes EXCEPT ![n] = w]
<1>0. /\ HistoryInv /\ pass[p].running /\ GoesDown(p, n) /\ Current(p)
      /\ Flush(ws, pass[p].now)
  BY DEF OnePassInv, ProbeDown
<1>1. /\ w \in Write /\ w.ping = "fail" /\ w.old = health[n] /\ health[n].state = "up"
      /\ pass[p].now - w.new.firstFail >= DownAfter
  BY <1>0, DownWrite
<1>2. w.new.state = "down"
  BY <1>0 DEF GoesDown, WriteOf
<1>3. w.new.firstFail = IF health[n].firstFail = NoTime THEN pass[p].now
                                                        ELSE health[n].firstFail
  <2>1. health[n] \in Health /\ pass[p].now \in Nat
    BY <1>0 DEF HistoryInv, TypeOK, Pass
  <2>2. w.new = AfterFail(health[n], pass[p].now)
    BY DEF WriteOf
  <2>3. AfterFail(health[n], pass[p].now).firstFail
           = IF health[n].firstFail = NoTime THEN pass[p].now ELSE health[n].firstFail
    BY <2>1, AfterFailRow
  <2>4. QED
    BY <2>2, <2>3
<1>4. Fits(n, w, pass[p].now)
  <2>1. Loaded(health[n]) = health[n]
    BY <1>1 DEF Loaded
  <2>2. QED
    BY <1>0, <2>1, ProbeFits
<1>5. pass[p].writes \in [Nodes -> Write]
  BY <1>0 DEF HistoryInv, TypeOK, Pass
<1> HIDE DEF w
<1>6. /\ ws \in [Nodes -> Write] /\ ws[n] = w
      /\ \A m \in Nodes \ {n} : ws[m] = pass[p].writes[m]
  BY <1>1, <1>5
<1> HIDE DEF ws
<1>7. \A m \in Nodes : Fits(m, ws[m], pass[p].now)
  BY <1>0, <1>4, <1>6 DEF Current
<1>8. QED
  BY <1>0, <1>1, <1>2, <1>3, <1>6, <1>7 DEF w, ws

LEMMA OnePassInit == Init => OnePassInv
<1> SUFFICES ASSUME Init PROVE OnePassInv
  OBVIOUS
<1>1. HistoryInv
  BY InitHistory
<1>2. RowTimes /\ MirrorAgrees
  BY DEF Init, RowTimes, MirrorAgrees, NoHealth, NoTime
<1>3. \A p \in Passes : ~pass[p].running
  BY DEF Init, Idle
<1>4. QED
  BY <1>1, <1>2, <1>3 DEF OnePassInv

LEMMA OnePassStep == OnePassInv /\ OnePass /\ [Next]_vars => OnePassInv'
<1> SUFFICES ASSUME OnePassInv, OnePass, [Next]_vars PROVE OnePassInv'
  OBVIOUS
<1>0. /\ HistoryInv /\ TypeOK /\ RowTimes /\ MirrorAgrees /\ HistoryInv' /\ clock \in Nat
      /\ \A q \in Passes : pass[q].running => Current(q)
  BY NextHistory DEF OnePassInv, HistoryInv, TypeOK
<1>a. ASSUME RowTimes', MirrorAgrees', NEW p \in Passes, pass'[p].running => Current(p)',
             \A q \in Passes : q # p => ~pass'[q].running \/ Current(q)'
      PROVE  OnePassInv'
  BY <1>0, <1>a DEF OnePassInv
<1>1. CASE Tick \/ UNCHANGED vars
  <2>1. /\ UNCHANGED <<health, fails, oks, evac, status, pass>>
        /\ clock' \in Nat /\ clock' >= clock
    BY <1>0, <1>1 DEF Tick, fleetVars, vars
  <2>2. QED
    BY <1>0, <2>1, TablesKept DEF OnePassInv
<1>2. ASSUME NEW n \in Nodes, Enable(n) \/ Disable(n) \/ Acknowledge(n) PROVE OnePassInv'
  <2>1. /\ UNCHANGED <<health, fails, oks, evac, pass, clock>>
        /\ \A m \in Nodes : status'[m] = status[m] \/ status'[m] \notin {"up", "down"}
    BY <1>0, <1>2 DEF Enable, Disable, Acknowledge, TypeOK
  <2>2. clock' >= clock /\ clock' \in Nat
    BY <1>0, <2>1
  <2>3. QED
    BY <1>0, <2>1, <2>2, TablesKept DEF OnePassInv
<1>3. ASSUME NEW p \in Passes, NEW nodes \in SUBSET Nodes, Begin(p, nodes) PROVE OnePassInv'
  <2>1. /\ UNCHANGED <<health, fails, oks, evac, status, clock>>
        /\ clock' >= clock /\ clock' \in Nat
    BY <1>0, <1>3 DEF Begin, fleetVars
  <2>2. /\ pass'[p].now = clock /\ pass'[p].writes = NoWrites
        /\ \A n \in pass'[p].stale : pass'[p].seen[n] = status[n]
        /\ \A q \in Passes : q # p => pass'[q] = pass[q]
    BY <1>0, <1>3, BeginSession
  <2>3. Current(p)'
    <3>1. pass'[p].now <= clock'
      BY <1>0, <2>1, <2>2
    <3>2. ASSUME NEW n \in Nodes PROVE TimesUpTo(n, pass[p].now)'
      BY <1>0, <2>1, <2>2 DEF RowTimes, TimesUpTo
    <3>3. ASSUME NEW n \in Nodes PROVE Fits(n, pass[p].writes[n], pass[p].now)'
      BY <2>2 DEF Fits, NoWrites, NoWrite
    <3>4. ASSUME NEW n \in Nodes PROVE SeenRight(p, n)'
      BY <2>1, <2>2 DEF SeenRight
    <3>5. QED
      BY <3>1, <3>2, <3>3, <3>4 DEF Current
  <2>4. /\ RowTimes' /\ MirrorAgrees'
        /\ \A q \in Passes : pass'[q] = pass[q] /\ pass[q].running => Current(q)'
    BY <2>1, TablesKept
  <2>5. \A q \in Passes : q # p => ~pass'[q].running \/ Current(q)'
    BY <2>2, <2>4
  <2>6. QED
    BY <1>a, <2>3, <2>4, <2>5
<1>4. ASSUME NEW p \in Passes, NEW n \in Nodes, ProbeOk(p, n) \/ ProbeFail(p, n)
      PROVE  OnePassInv'
  <2>0. pass[p].running
    BY <1>4 DEF ProbeOk, ProbeFail, Record
  <2>1. PICK ping, new : /\ Record(p, n, ping, new)
                         /\ Fits(n, WriteOf(p, n, ping, new), pass[p].now)
    BY <1>4, <2>0, ProbeFits DEF ProbeOk, ProbeFail
  <2>2. /\ UNCHANGED <<health, fails, oks, evac, status, clock>>
        /\ clock' >= clock /\ clock' \in Nat
    BY <1>0, <2>1 DEF Record, fleetVars
  <2>3. /\ pass'[p].now = pass[p].now /\ pass'[p].stale = pass[p].stale \ {n}
        /\ pass'[p].writes[n] = WriteOf(p, n, ping, new)
        /\ \A m \in Nodes \ {n} : /\ pass'[p].writes[m] = pass[p].writes[m]
                                  /\ pass'[p].seen[m] = pass[p].seen[m]
        /\ \A q \in Passes : q # p => pass'[q] = pass[q]
    BY <1>0, <2>1, RecordSession
  <2>4. /\ RowTimes' /\ MirrorAgrees'
        /\ \A m \in Nodes : \A w, now : Fits(m, w, now) => Fits(m, w, now)'
        /\ \A q \in Passes : pass'[q] = pass[q] /\ pass[q].running => Current(q)'
    BY <2>2, TablesKept
  <2>5. Current(p)
    BY <1>0, <2>0
  <2>6. Current(p)'
    <3>1. pass'[p].now <= clock' /\ \A m \in Nodes : TimesUpTo(m, pass[p].now)'
      BY <2>2, <2>3, <2>5 DEF Current, TimesUpTo
    <3>2. ASSUME NEW m \in Nodes PROVE Fits(m, pass[p].writes[m], pass[p].now)'
      <4>1. Fits(m, pass'[p].writes[m], pass'[p].now)
        BY <2>1, <2>3, <2>5 DEF Current
      <4>2. QED
        BY <2>2, <4>1 DEF Fits, Quiet
    <3>3. ASSUME NEW m \in Nodes PROVE SeenRight(p, m)'
      BY <2>2, <2>3, <2>5 DEF Current, SeenRight
    <3>4. QED
      BY <3>1, <3>2, <3>3 DEF Current
  <2>7. \A q \in Passes : q # p => ~pass'[q].running \/ Current(q)'
    BY <2>3, <2>4
  <2>8. QED
    BY <1>a, <2>4, <2>6, <2>7
<1>5. ASSUME NEW p \in Passes, NEW n \in Nodes, ProbeDown(p, n) PROVE OnePassInv'
  <2> DEFINE w == WriteOf(p, n, "fail", AfterFail(health[n], pass[p].now))
             ws == [pass[p].writes EXCEPT ![n] = w]
  <2>0. pass[p].running /\ Current(p)
    BY <1>0, <1>5 DEF ProbeDown
  <2>1. /\ ws \in [Nodes -> Write] /\ Flush(ws, pass[p].now) /\ ws[n].ping = "fail"
        /\ ws[n].new.state = "down" /\ \A m \in Nodes : Fits(m, ws[m], pass[p].now)
    BY <1>5, DownFits
  <2>2. /\ Refreshed(p, n, NoWrites) /\ clock' = clock
        /\ evac' = [evac EXCEPT ![n] = pass[p].now]
    BY <1>5 DEF ProbeDown
  <2> HIDE DEF ws
  <2>3. \A m \in Nodes : \/ evac'[m] = evac[m]
                         \/ /\ evac'[m] = pass[p].now
                            /\ ws[m].ping = "fail" /\ ws[m].new.state # "up"
    BY <1>0, <2>1, <2>2 DEF TypeOK
  <2>4. /\ RowTimes' /\ MirrorAgrees'
        /\ \A m \in Nodes : /\ evac'[m] <= pass[p].now
                            /\ \A t \in fails'[m] \cup oks'[m] : t <= pass[p].now
    BY <2>0, <2>1, <2>2, <2>3, FlushTimes
  <2>5. /\ pass'[p].now = pass[p].now /\ pass'[p].stale = {} /\ pass'[p].writes = NoWrites
        /\ \A q \in Passes : q # p => pass'[q] = pass[q]
    BY <1>0, <2>2, RefreshedSession
  <2>6. Current(p)'
    <3>1. pass'[p].now <= clock'
      BY <2>0, <2>2, <2>5 DEF Current
    <3>2. \A m \in Nodes : TimesUpTo(m, pass[p].now)'
      BY <2>4, <2>5 DEF TimesUpTo
    <3>3. \A m \in Nodes : Fits(m, pass[p].writes[m], pass[p].now)'
      BY <2>5 DEF Fits, NoWrites, NoWrite
    <3>4. \A m \in Nodes : SeenRight(p, m)'
      BY <2>5 DEF SeenRight
    <3>5. QED
      BY <3>1, <3>2, <3>3, <3>4 DEF Current
  <2>7. \A q \in Passes : q # p => ~pass'[q].running
    BY <2>0, <2>5 DEF OnePass
  <2>8. QED
    BY <1>a, <2>4, <2>6, <2>7
<1>6. ASSUME NEW p \in Passes, NEW n \in Nodes, ProbeDownLost(p, n) PROVE OnePassInv'
  <2> DEFINE w == [NoWrite EXCEPT !.was = status[n], !.to = Mirror(status[n], health[n].state)]
             ws == [NoWrites EXCEPT ![n] = w]
  <2>0. /\ pass[p].running /\ Current(p) /\ health[n].state = "up" /\ pass[p].now \in Nat
        /\ NumChannels = 2
    BY <1>0, <1>6 DEF ProbeDownLost, GoesDown, DispatchRollsBack, TypeOK, Pass
  <2>1. /\ UNCHANGED <<health, fails, oks, status, clock>> /\ Refreshed(p, n, ws)
        /\ evac' = [evac EXCEPT ![n] = pass[p].now]
    BY <1>6 DEF ProbeDownLost
  <2>2. w.ping = "none" /\ (w.to # w.was => w.to = health[n].state)
    BY DEF NoWrite, Mirror
  <2> HIDE DEF w
  <2>3. \A m \in Nodes : /\ ws[m].ping = "none"
                         /\ ws[m].to # ws[m].was => ws[m].to = health[m].state
    BY <2>2 DEF NoWrites, NoWrite
  <2> HIDE DEF ws
  <2>4. /\ pass'[p].now = pass[p].now /\ pass'[p].stale = {} /\ pass'[p].writes = ws
        /\ \A q \in Passes : q # p => pass'[q] = pass[q]
    BY <1>0, <2>1, RefreshedSession
  <2>5. \A m \in Nodes : evac'[m] = evac[m] \/ evac'[m] = pass[p].now
    BY <1>0, <2>1 DEF TypeOK
  <2>6. RowTimes' /\ MirrorAgrees'
    BY <1>0, <2>0, <2>1, <2>5 DEF RowTimes, MirrorAgrees, Current
  <2>7. Current(p)'
    <3>1. pass'[p].now <= clock'
      BY <2>0, <2>1, <2>4 DEF Current
    <3>2. \A m \in Nodes : TimesUpTo(m, pass[p].now)'
      BY <2>0, <2>1, <2>4, <2>5 DEF Current, TimesUpTo
    <3>3. \A m \in Nodes : Fits(m, pass[p].writes[m], pass[p].now)'
      BY <2>1, <2>3, <2>4 DEF Fits
    <3>4. \A m \in Nodes : SeenRight(p, m)'
      BY <2>4 DEF SeenRight
    <3>5. QED
      BY <3>1, <3>2, <3>3, <3>4 DEF Current
  <2>8. \A q \in Passes : q # p => ~pass'[q].running
    BY <2>0, <2>4 DEF OnePass
  <2>9. QED
    BY <1>a, <2>6, <2>7, <2>8
<1>7. ASSUME NEW p \in Passes, EndPass(p) PROVE OnePassInv'
  <2>1. /\ pass[p].running /\ Current(p) /\ pass[p].writes \in [Nodes -> Write]
        /\ Flush(pass[p].writes, pass[p].now)
        /\ UNCHANGED <<evac, clock>> /\ pass' = [pass EXCEPT ![p] = Idle]
    BY <1>0, <1>7 DEF EndPass, TypeOK, Pass
  <2>2. RowTimes' /\ MirrorAgrees'
    BY <2>1, FlushTimes DEF Current
  <2>3. ~pass'[p].running /\ \A q \in Passes : q # p => ~pass'[q].running
    BY <1>0, <2>1 DEF OnePass, TypeOK, Idle
  <2>4. QED
    BY <1>a, <2>2, <2>3
<1>8. ASSUME NEW p \in Passes, Crash(p) PROVE OnePassInv'
  <2>1. /\ UNCHANGED <<health, fails, oks, evac, status, clock>>
        /\ clock' >= clock /\ clock' \in Nat
    BY <1>0, <1>8 DEF Crash, fleetVars
  <2>2. ~pass'[p].running /\ \A q \in Passes : q # p => pass'[q] = pass[q]
    BY <1>0, <1>8 DEF Crash, TypeOK, Idle
  <2>3. /\ RowTimes' /\ MirrorAgrees'
        /\ \A q \in Passes : pass'[q] = pass[q] /\ pass[q].running => Current(q)'
    BY <2>1, TablesKept
  <2>4. \A q \in Passes : q # p => ~pass'[q].running \/ Current(q)'
    BY <2>2, <2>3
  <2>5. QED
    BY <1>a, <2>2, <2>3, <2>4
<1>9. QED
  BY <1>1, <1>2, <1>3, <1>4, <1>5, <1>6, <1>7, <1>8 DEF Next, RunOnce, CheckNow

\* What holds of every behaviour whose passes do not overlap.
LEMMA OnePassAlways == Spec /\ []OnePass => []OnePassInv
  BY OnePassInit, OnePassStep, PTL DEF Spec

\* The registry and the monitor agree on which nodes are up and down, with any
\* number of alert channels, as long as passes do not overlap.
THEOREM RegistryFollowsMonitor == Spec /\ []OnePass => []MirrorAgrees
<1>1. OnePassInv => MirrorAgrees
  BY DEF OnePassInv
<1>2. QED
  BY <1>1, OnePassAlways, PTL

-----------------------------------------------------------------------------
(* How a node goes down and comes back, one pass at a time *)

\* A commit brings a node back by the answered ping its session holds.
LEMMA FlushBringsBack ==
  ASSUME OnePassInv, NEW p \in Passes, NEW ws \in [Nodes -> Write],
         Flush(ws, pass[p].now), NEW m \in Nodes, Fits(m, ws[m], pass[p].now),
         CameBack(m)
  PROVE  pass[p].now \in oks'[m] /\ Quiet(m, pass[p].now)
<1>0. TypeOK /\ MirrorAgrees /\ pass[p].now \in Nat
  BY DEF OnePassInv, HistoryInv, TypeOK, Pass
<1>1. /\ health'[m] = IF ws[m].ping = "none" THEN health[m] ELSE ws[m].new
      /\ oks'[m] = oks[m] \cup (IF ws[m].ping = "ok" THEN {pass[p].now} ELSE {})
  BY <1>0, FlushFits
<1>2. ws[m].ping # "none" /\ ws[m].old = health[m] /\ ws[m].new = health'[m]
  BY <1>1 DEF CameBack, Fits
<1>3. ws[m].ping = "ok" /\ Quiet(m, pass[p].now)
  BY <1>2 DEF CameBack, Fits
<1>4. QED
  BY <1>1, <1>3

\* The health rows change with the commit of a pass only.
LEMMA WhoWritesHealth ==
  ASSUME HistoryInv, Next, NEW m \in Nodes, health'[m] # health[m]
  PROVE  \E p \in Passes : EndPass(p) \/ \E n \in Nodes : ProbeDown(p, n)
<1>1. ~Tick /\ \A n \in Nodes : ~Enable(n) /\ ~Disable(n) /\ ~Acknowledge(n)
  BY DEF Tick, Enable, Disable, Acknowledge, fleetVars
<1>2. ASSUME NEW p \in Passes
      PROVE  /\ ~RunOnce(p) /\ ~Crash(p)
             /\ \A n \in Nodes : ~CheckNow(p, n) /\ ~ProbeOk(p, n) /\ ~ProbeFail(p, n)
                                 /\ ~ProbeDownLost(p, n)
  BY DEF RunOnce, CheckNow, Begin, Crash, ProbeOk, ProbeFail, Record, ProbeDownLost, fleetVars
<1>3. QED
  BY <1>1, <1>2 DEF Next

\* A node comes back by an answer, in a window without lost pings, for every number
\* of alert channels: a flapping node stays down.
THEOREM BackAfterQuiet == Spec /\ []OnePass => UpAfterQuietWindow
<1> DEFINE Answered ==
             \A n \in Nodes : CameBack(n) =>
                 \E p \in Passes : /\ pass[p].running /\ pass'[p] # pass[p]
                                   /\ pass[p].now \in oks'[n]
                                   /\ Quiet(n, pass[p].now)
<1>1. OnePassInv /\ [Next]_vars => [Answered]_vars
  <2> SUFFICES ASSUME OnePassInv, Next, NEW m \in Nodes, CameBack(m)
               PROVE  \E p \in Passes : /\ pass[p].running /\ pass'[p] # pass[p]
                                        /\ pass[p].now \in oks'[m]
                                        /\ Quiet(m, pass[p].now)
    OBVIOUS
  <2>0. HistoryInv /\ TypeOK /\ health'[m] # health[m]
    BY DEF OnePassInv, HistoryInv, CameBack
  <2>1. CASE \E p \in Passes : EndPass(p)
    <3>1. PICK p \in Passes : EndPass(p)
      BY <2>1
    <3>2. /\ pass[p].running /\ pass[p].writes \in [Nodes -> Write]
          /\ Flush(pass[p].writes, pass[p].now) /\ pass' = [pass EXCEPT ![p] = Idle]
      BY <2>0, <3>1 DEF EndPass, TypeOK, Pass
    <3>3. Fits(m, pass[p].writes[m], pass[p].now)
      BY <3>2 DEF OnePassInv, Current
    <3>4. pass'[p] # pass[p]
      BY <2>0, <3>2 DEF TypeOK, Idle
    <3>5. QED
      BY <3>2, <3>3, <3>4, FlushBringsBack
  <2>2. CASE \E p \in Passes, n \in Nodes : ProbeDown(p, n)
    <3>1. PICK p \in Passes, n \in Nodes : ProbeDown(p, n)
      BY <2>2
    <3> DEFINE ws == [pass[p].writes EXCEPT
                        ![n] = WriteOf(p, n, "fail", AfterFail(health[n], pass[p].now))]
    <3>2. /\ pass[p].running /\ ws \in [Nodes -> Write] /\ Flush(ws, pass[p].now)
          /\ Fits(m, ws[m], pass[p].now)
      BY <3>1, DownFits
    <3>3. pass'[p] # pass[p]
      <4>1. n \in pass[p].todo /\ Refreshed(p, n, NoWrites)
        BY <3>1 DEF ProbeDown
      <4>2. pass'[p].todo = pass[p].todo \ {n}
        BY <2>0, <4>1, RefreshedSession
      <4>3. QED
        BY <4>1, <4>2
    <3> HIDE DEF ws
    <3>4. QED
      BY <3>2, <3>3, FlushBringsBack
  <2>3. QED
    BY <2>0, <2>1, <2>2, WhoWritesHealth
<1>2. QED
  BY <1>1, OnePassAlways, PTL DEF Spec, UpAfterQuietWindow

\* A node goes down only when every ping since a lost one at least down_after ago
\* was lost.
THEOREM DownIsContinuous == Spec /\ []OnePass => DownOnContinuousLoss
<1> DEFINE Continuous ==
             \A n \in Nodes : WentDown(n) =>
                 \E first, last \in fails'[n] :
                    /\ last - first >= DownAfter
                    /\ \A t \in oks'[n] : t <= first \/ t > last
<1>1. OnePassInv /\ [Next]_vars => [Continuous]_vars
  <2> SUFFICES ASSUME OnePassInv, Next, NEW n \in Nodes, WentDown(n)
               PROVE  \E first, last \in fails'[n] :
                         /\ last - first >= DownAfter
                         /\ \A t \in oks'[n] : t <= first \/ t > last
    OBVIOUS
  <2>0. HistoryInv /\ HistoryInv' /\ TypeOK /\ MirrorAgrees
    BY NextHistory DEF OnePassInv, HistoryInv
  <2>1. PICK p \in Passes : ProbeDown(p, n)
    BY <2>0, WhoTakesDown
  <2> DEFINE w == WriteOf(p, n, "fail", AfterFail(health[n], pass[p].now))
             ws == [pass[p].writes EXCEPT ![n] = w]
  <2>2. ws \in [Nodes -> Write] /\ Flush(ws, pass[p].now) /\ Fits(n, ws[n], pass[p].now)
    BY <2>1, DownFits
  <2>3. /\ ws[n] = w /\ w.ping = "fail" /\ pass[p].now - w.new.firstFail >= DownAfter
        /\ w.new.firstFail = IF health[n].firstFail = NoTime THEN pass[p].now
                                                             ELSE health[n].firstFail
    BY <2>1, DownFits
  <2> HIDE DEF w, ws
  <2>4. pass[p].now \in Nat
    BY <2>0 DEF TypeOK, Pass
  <2>5. /\ health'[n] = w.new /\ oks'[n] = oks[n]
        /\ fails'[n] = fails[n] \cup {pass[p].now}
    <3>1. /\ health'[n] = IF ws[n].ping = "none" THEN health[n] ELSE ws[n].new
          /\ fails'[n] = fails[n] \cup (IF ws[n].ping = "fail" THEN {pass[p].now} ELSE {})
          /\ oks'[n] = oks[n] \cup (IF ws[n].ping = "ok" THEN {pass[p].now} ELSE {})
      <4>1. TypeOK /\ MirrorAgrees
        BY <2>0
      <4>2. QED
        BY <2>2, <2>4, <4>1, FlushFits
    <3>2. ws[n].ping = "fail" /\ ws[n].new = w.new
      BY <2>3
    <3>3. QED
      BY <3>1, <3>2
  <2>6. w.new.firstFail # NoTime
    BY <2>4, <2>3 DEF NoTime
  <2>7. w.new.firstFail \in fails'[n]
    BY <2>0, <2>5, <2>6 DEF HistoryInv, RowsJustified
  <2>8. \A t \in oks'[n] : t <= w.new.firstFail
    BY <2>2, <2>3, <2>5, <2>6 DEF Fits
  <2>9. QED
    BY <2>3, <2>5, <2>7, <2>8
<1>2. QED
  BY <1>1, OnePassAlways, PTL DEF Spec, DownOnContinuousLoss

\* Users are moved off a node exactly when it is recorded down, with at most one
\* alert channel and the positive down_after the configuration check demands
\* (fleet/hardening.py:94).
THEOREM EvacuationFollowsDown ==
  ASSUME NumChannels < 2, DownAfter > 0
  PROVE  Spec /\ []OnePass => EvacuatedIffDown
<1> DEFINE Follows == \A n \in Nodes : WentDown(n) <=> evac'[n] # evac[n]
<1>1. OnePassInv /\ [Next]_vars => [Follows]_vars
  <2> SUFFICES ASSUME OnePassInv, Next, NEW n \in Nodes
               PROVE  WentDown(n) <=> evac'[n] # evac[n]
    OBVIOUS
  <2>0. HistoryInv /\ TypeOK /\ MirrorAgrees /\ RowTimes
    BY DEF OnePassInv, HistoryInv
  <2>1. ASSUME NEW p \in Passes, ProbeDown(p, n) PROVE WentDown(n) /\ evac'[n] # evac[n]
    <3> DEFINE w == WriteOf(p, n, "fail", AfterFail(health[n], pass[p].now))
               ws == [pass[p].writes EXCEPT ![n] = w]
    <3>1. /\ pass[p].running /\ ws \in [Nodes -> Write] /\ Flush(ws, pass[p].now)
          /\ Fits(n, ws[n], pass[p].now) /\ ws[n] = w /\ w.ping = "fail"
          /\ health[n].state = "up" /\ w.new.state = "down"
          /\ pass[p].now - w.new.firstFail >= DownAfter
          /\ w.new.firstFail = IF health[n].firstFail = NoTime THEN pass[p].now
                                                               ELSE health[n].firstFail
      BY <2>1, DownFits
    <3> HIDE DEF w, ws
    <3>2. pass[p].now \in Nat /\ health[n] \in Health /\ Current(p)
      BY <2>0, <3>1 DEF TypeOK, Pass, OnePassInv
    <3>3. WentDown(n)
      <4>1. health'[n] = IF ws[n].ping = "none" THEN health[n] ELSE ws[n].new
        BY <2>0, <3>1, <3>2, FlushFits
      <4>2. ws[n].ping = "fail" /\ ws[n].new.state = "down"
        BY <3>1
      <4>3. QED
        BY <3>1, <4>1, <4>2 DEF WentDown
    <3>4. evac'[n] = pass[p].now
      BY <2>0, <2>1 DEF ProbeDown, TypeOK
    <3>5. health[n].firstFail # NoTime /\ w.new.firstFail = health[n].firstFail
      BY <3>1, <3>2, ConstantsAssumption
    <3>6. evac[n] <= health[n].firstFail
      BY <2>0, <3>1, <3>5 DEF RowTimes
    <3>7. evac[n] \in Int /\ health[n].firstFail \in Int
      BY <2>0, <3>2 DEF TypeOK, Health, Times, NoTime
    <3>8. QED
      BY <3>1, <3>2, <3>3, <3>4, <3>5, <3>6, <3>7, ConstantsAssumption
  <2>2. ASSUME evac'[n] # evac[n] PROVE \E p \in Passes : ProbeDown(p, n)
    <3>1. ~Tick /\ \A m \in Nodes : ~Enable(m) /\ ~Disable(m) /\ ~Acknowledge(m)
      BY <2>2 DEF Tick, Enable, Disable, Acknowledge, fleetVars
    <3>2. ASSUME NEW p \in Passes
          PROVE  /\ ~RunOnce(p) /\ ~Crash(p) /\ ~EndPass(p)
                 /\ \A m \in Nodes : ~CheckNow(p, m) /\ ~ProbeOk(p, m) /\ ~ProbeFail(p, m)
      BY <2>2 DEF RunOnce, CheckNow, Begin, Crash, EndPass, ProbeOk, ProbeFail, Record, fleetVars
    <3>3. ASSUME NEW p \in Passes, NEW m \in Nodes
          PROVE  /\ ~ProbeDownLost(p, m)
                 /\ ProbeDown(p, m) => m = n
      BY <2>0, <2>2, ConstantsAssumption DEF ProbeDownLost, DispatchRollsBack, ProbeDown, TypeOK
    <3>4. QED
      BY <3>1, <3>2, <3>3 DEF Next
  <2>3. QED
    BY <2>0, <2>1, <2>2, WhoTakesDown
<1>2. QED
  BY <1>1, OnePassAlways, PTL DEF Spec, EvacuatedIffDown

-----------------------------------------------------------------------------
(* Samples *)

\* With at most one alert channel the sample of a probe reaches the log or stays in
\* the session of its pass, however many passes overlap.
THEOREM SamplesAreKept ==
  ASSUME NumChannels < 2
  PROVE  Spec => ProbesRecorded
<1> DEFINE Kept ==
             \A p \in Passes, n \in Nodes :
                /\ pass[p].running /\ (pass'[p].running \/ EndPass(p))
                /\ Sampled(p, n) \/ n \in pass[p].todo \ pass'[p].todo
                => Sampled(p, n)' \/ pass[p].now \in fails'[n] \cup oks'[n]
<1>1. TypeOK /\ [Next]_vars => [Kept]_vars
  <2> SUFFICES ASSUME TypeOK, Next, NEW p \in Passes, NEW n \in Nodes,
                      pass[p].running, pass'[p].running \/ EndPass(p),
                      Sampled(p, n) \/ n \in pass[p].todo \ pass'[p].todo
               PROVE  Sampled(p, n)' \/ pass[p].now \in fails'[n] \cup oks'[n]
    OBVIOUS
  <2>0. pass[p].now \in Nat /\ pass[p].writes \in [Nodes -> Write]
    BY DEF TypeOK, Pass
  <2>1. CASE pass'[p] = pass[p]
    BY <2>1 DEF Sampled
  <2>2. CASE EndPass(p)
    <3>1. Sampled(p, n) /\ Flush(pass[p].writes, pass[p].now)
      BY <2>2 DEF EndPass
    <3>2. pass[p].writes[n].ping \in {"ok", "fail"}
      BY <2>0, <3>1 DEF Sampled, Write
    <3>3. QED
      BY <2>0, <3>1, <3>2, FlushFacts
  <2>3. ASSUME NEW m \in Nodes, ProbeDown(p, m)
        PROVE  Sampled(p, n)' \/ pass[p].now \in fails'[n] \cup oks'[n]
    <3> DEFINE w == WriteOf(p, m, "fail", AfterFail(health[m], pass[p].now))
               ws == [pass[p].writes EXCEPT ![m] = w]
    <3>1. w \in Write /\ w.ping = "fail"
      <4>1. AfterFail(health[m], pass[p].now) \in Health
        BY <2>0, AfterFailRow DEF TypeOK
      <4>2. QED
        BY <4>1, WriteType DEF WriteOf
    <3>2. Flush(ws, pass[p].now) /\ Refreshed(p, m, NoWrites)
      BY <2>3 DEF ProbeDown
    <3> HIDE DEF w
    <3>3. /\ ws \in [Nodes -> Write] /\ ws[m] = w
          /\ \A k \in Nodes \ {m} : ws[k] = pass[p].writes[k]
      BY <2>0, <3>1
    <3>4. pass'[p].todo = pass[p].todo \ {m}
      BY <3>2, RefreshedSession
    <3> HIDE DEF ws
    <3>5. ws[n].ping \in {"ok", "fail"}
      BY <3>1, <3>3, <3>4 DEF Sampled, Write
    <3>6. QED
      BY <2>0, <3>2, <3>3, <3>5, FlushFacts
  <2>4. ASSUME NEW m \in Nodes, ProbeOk(p, m) \/ ProbeFail(p, m) PROVE Sampled(p, n)'
    <3>1. PICK ping, new : ping \in {"ok", "fail"} /\ Record(p, m, ping, new)
      BY <2>4 DEF ProbeOk, ProbeFail
    <3>2. /\ pass'[p].todo = pass[p].todo \ {m}
          /\ pass'[p].writes[m] = WriteOf(p, m, ping, new)
          /\ \A k \in Nodes \ {m} : pass'[p].writes[k] = pass[p].writes[k]
      BY <3>1, RecordSession
    <3>3. CASE n = m
      <4>1. WriteOf(p, m, ping, new).ping = ping /\ ping # "none"
        BY <3>1 DEF WriteOf
      <4>2. QED
        BY <3>2, <3>3, <4>1 DEF Sampled
    <3>4. CASE n # m
      BY <3>2, <3>4 DEF Sampled
    <3>5. QED
      BY <3>3, <3>4
  <2>5. ASSUME NEW q \in Passes, NEW m \in Nodes PROVE ~ProbeDownLost(q, m)
    BY ConstantsAssumption DEF ProbeDownLost, DispatchRollsBack
  \* Any other step leaves the session of p alone, or ends it.
  <2>6. ASSUME NEW q \in Passes, \/ RunOnce(q) \/ EndPass(q) \/ Crash(q)
                                 \/ \E m \in Nodes : \/ CheckNow(q, m) \/ ProbeOk(q, m)
                                                     \/ ProbeFail(q, m) \/ ProbeDown(q, m)
        PROVE  \/ pass'[p] = pass[p] \/ EndPass(p)
               \/ \E m \in Nodes : ProbeDown(p, m) \/ ProbeOk(p, m) \/ ProbeFail(p, m)
    <3>1. CASE q = p
      <4>1. ~RunOnce(p) /\ \A m \in Nodes : ~CheckNow(p, m)
        BY DEF RunOnce, CheckNow, Begin
      <4>2. Crash(p) => EndPass(p)
        BY DEF Crash, Idle, TypeOK
      <4>3. QED
        BY <2>6, <3>1, <4>1, <4>2
    <3>2. CASE q # p
      <4>1. ASSUME NEW m \in Nodes, ProbeOk(q, m) \/ ProbeFail(q, m)
            PROVE  pass'[p] = pass[p]
        <5>1. PICK ping, new : Record(q, m, ping, new)
          BY <4>1 DEF ProbeOk, ProbeFail
        <5>2. QED
          BY <3>2, <5>1, RecordSession
      <4>2. ASSUME NEW m \in Nodes, ProbeDown(q, m) PROVE pass'[p] = pass[p]
        BY <3>2, <4>2, RefreshedSession DEF ProbeDown
      <4>3. ASSUME NEW nodes \in SUBSET Nodes, Begin(q, nodes) PROVE pass'[p] = pass[p]
        BY <3>2, <4>3, BeginSession
      <4>4. EndPass(q) \/ Crash(q) => pass'[p] = pass[p]
        BY <3>2 DEF EndPass, Crash, TypeOK
      <4>5. QED
        BY <2>6, <4>1, <4>2, <4>3, <4>4 DEF RunOnce, CheckNow
    <3>3. QED
      BY <3>1, <3>2
  <2>7. \/ Tick \/ \E m \in Nodes : Enable(m) \/ Disable(m) \/ Acknowledge(m)
        => pass'[p] = pass[p]
    BY DEF Tick, Enable, Disable, Acknowledge
  <2>8. QED
    BY <2>1, <2>2, <2>3, <2>4, <2>5, <2>6, <2>7 DEF Next
<1>2. QED
  BY <1>1, TypeCorrect, PTL DEF Spec, ProbesRecorded

=============================================================================
