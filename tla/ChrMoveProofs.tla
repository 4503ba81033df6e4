---------------------------- MODULE ChrMoveProofs ----------------------------
(***************************************************************************)
(* Theorems about ChrMove, for any number of commands, web workers, lost    *)
(* replies and dead workers.                                                *)
(***************************************************************************)
EXTENDS ChrMove, TLAPS

-----------------------------------------------------------------------------
(* Types *)

LEMMA FreeType == Free \in Serving
  BY MoveAssumption DEF Free, Serving

\* A worker takes up an activity, and no other one changes.
LEMMA ServeFacts ==
  ASSUME MoveTypeOK, NEW w \in PanelWorkers, NEW s \in Serving, Serve(w, s)
  PROVE  /\ server' \in [PanelWorkers -> Serving]
         /\ server'[w] = s
         /\ \A v \in PanelWorkers : v # w => server'[v] = server[v]
  BY DEF MoveTypeOK, Serve

\* A request that overlaps no other finds every worker idle.
LEMMA AcceptsFacts ==
  ASSUME MoveTypeOK, NEW w \in PanelWorkers, Accepts(w)
  PROVE  /\ overlaps' \in 0..MaxTroubles
         /\ overlaps' = 0 => overlaps = 0 /\ \A v \in PanelWorkers : server[v].at = "idle"
<1>1. overlaps \in 0..MaxTroubles /\ died \in 0..MaxTroubles /\ MaxTroubles \in Nat
  BY MoveAssumption DEF MoveTypeOK
<1>2. CASE \A v \in PanelWorkers : server[v].at = "idle"
  BY <1>1, <1>2 DEF Accepts
<1>3. CASE ~\A v \in PanelWorkers : server[v].at = "idle"
  BY <1>1, <1>3 DEF Accepts
<1>4. QED
  BY <1>2, <1>3

LEMMA ServerRow ==
  ASSUME MoveTypeOK, NEW w \in PanelWorkers
  PROVE  /\ server[w] \in Serving /\ server[w].routes \in Nat
         /\ server[w].outcome \in {"done", "failed"}
         /\ server[w].tooOld \subseteq Commands /\ server[w].fresh \subseteq Commands
         /\ server[w].unsent \subseteq Commands
         /\ server[w].at \in {"enqueue", "result"} => server[w].c \in Commands
  BY DEF MoveTypeOK, Serving

\* The statuses of some commands are written.
LEMMA StatusFacts ==
  ASSUME MoveTypeOK, NEW S, NEW status \in Alive \cup Terminal, SetStatus(S, status)
  PROVE  /\ command' \in [Commands -> CommandRow]
         /\ \A c \in Commands :
              /\ command'[c].move = command[c].move
              /\ c \in S => command'[c].status = status
              /\ c \notin S => command'[c].status = command[c].status
<1>1. ASSUME NEW c \in Commands
      PROVE  /\ [command[c] EXCEPT !.status = status] \in CommandRow
             /\ [command[c] EXCEPT !.status = status].status = status
             /\ [command[c] EXCEPT !.status = status].move = command[c].move
             /\ command[c] \in CommandRow
  BY DEF MoveTypeOK, CommandRow
<1>2. QED
  BY <1>1 DEF SetStatus

LEMMA MoveStep ==
  ASSUME MoveTypeOK, NEW w \in PanelWorkers, NEW c \in Commands, MoveRoutes(w, c)
  PROVE  /\ server' \in [PanelWorkers -> Serving]
         /\ server'[w].at = "enqueue" /\ server'[w].c = c /\ server'[w].routes = route'
         /\ \A v \in PanelWorkers : v # w => server'[v] = server[v]
         /\ route' \in Nat /\ route <= route'
<1> DEFINE s == [Free EXCEPT !.at = "enqueue", !.c = c, !.routes = route + 1]
<1>1. route + 1 \in Nat /\ route \in Nat
  BY DEF MoveTypeOK
<1>2. s \in Serving /\ s.at = "enqueue" /\ s.c = c /\ s.routes = route + 1
  BY <1>1 DEF Free, Serving
<1>3. Serve(w, s) /\ route' = route + 1
  BY DEF MoveRoutes
<1> HIDE DEF s
<1>4. QED
  BY <1>1, <1>2, <1>3, ServeFacts

LEMMA EnqueueStep ==
  ASSUME MoveTypeOK, NEW w \in PanelWorkers, Enqueue(w)
  PROVE  /\ server[w].c \in Commands
         /\ command' \in [Commands -> CommandRow]
         /\ command'[server[w].c].status = "pending"
         /\ command'[server[w].c].move = server[w].routes
         /\ \A c \in Commands : c # server[w].c => command'[c] = command[c]
         /\ server' \in [PanelWorkers -> Serving] /\ server'[w] = Free
         /\ \A v \in PanelWorkers : v # w => server'[v] = server[v]
<1> DEFINE d == server[w].c
           x == [status |-> "pending", old |-> FALSE, move |-> server[w].routes]
<1>1. d \in Commands /\ server[w].routes \in Nat
  BY ServerRow DEF Enqueue
<1>2. x \in CommandRow /\ x.status = "pending" /\ x.move = server[w].routes
  BY <1>1 DEF CommandRow, Alive
<1>3. command' = [command EXCEPT ![d] = x] /\ Serve(w, Free)
  BY DEF Enqueue
<1> HIDE DEF x
<1>4. /\ command' \in [Commands -> CommandRow] /\ command'[d] = x
      /\ \A c \in Commands : c # d => command'[c] = command[c]
  BY <1>1, <1>2, <1>3 DEF MoveTypeOK
<1>5. QED
  BY <1>1, <1>2, <1>3, <1>4, FreeType, ServeFacts

LEMMA TtlStep ==
  ASSUME MoveTypeOK, NEW c \in Commands, TtlElapses(c)
  PROVE  /\ command' \in [Commands -> CommandRow]
         /\ \A b \in Commands : /\ command'[b].status = command[b].status
                                /\ command'[b].move = command[b].move
<1> DEFINE x == [command[c] EXCEPT !.old = TRUE]
<1>1. command[c] \in CommandRow
  BY DEF MoveTypeOK
<1>2. x \in CommandRow /\ x.status = command[c].status /\ x.move = command[c].move
  BY <1>1 DEF CommandRow
<1>3. command' = [command EXCEPT ![c] = x]
  BY DEF TtlElapses
<1> HIDE DEF x
<1>4. command' \in [Commands -> CommandRow] /\ command'[c] = x
      /\ \A b \in Commands : b # c => command'[b] = command[b]
  BY <1>2, <1>3 DEF MoveTypeOK
<1>5. QED
  BY <1>2, <1>4

LEMMA PollStep ==
  ASSUME MoveTypeOK, NEW w \in PanelWorkers, PollRoutes(w)
  PROVE  /\ server' \in [PanelWorkers -> Serving]
         /\ server'[w].at = "commands" /\ server'[w].routes = route
         /\ \A v \in PanelWorkers : v # w => server'[v] = server[v]
         /\ proxy' = [proxy EXCEPT !.asked = w]
<1> DEFINE s == [Free EXCEPT !.at = "commands", !.routes = route]
<1>1. s \in Serving /\ s.at = "commands" /\ s.routes = route
  BY MoveAssumption DEF MoveTypeOK, Free, Serving
<1>2. Serve(w, s) /\ proxy' = [proxy EXCEPT !.asked = w]
  BY DEF PollRoutes
<1> HIDE DEF s
<1>3. QED
  BY <1>1, <1>2, ServeFacts

\* A poll reads the commands that are alive and splits them by age.
LEMMA CommandsStep ==
  ASSUME MoveTypeOK, NEW w \in PanelWorkers, PollCommands(w)
  PROVE  /\ server' \in [PanelWorkers -> Serving]
         /\ server'[w].at \in {"expire", "mark"} /\ server'[w].routes = server[w].routes
         /\ \A c \in server'[w].tooOld \cup server'[w].fresh :
              c \in Commands /\ command[c].status \in Alive
         /\ server'[w].tooOld \cap server'[w].fresh = {}
         /\ server'[w].unsent \subseteq Pending
         /\ \A v \in PanelWorkers : v # w => server'[v] = server[v]
<1> DEFINE alive == {c \in Commands : command[c].status \in Alive}
           tooOld == {c \in alive : command[c].old}
           step == IF tooOld = {} THEN "mark" ELSE "expire"
           fresh == alive \ tooOld
           unsent == Pending \ tooOld
           s == [server[w] EXCEPT !.at = step, !.tooOld = tooOld, !.fresh = fresh,
                                  !.unsent = unsent]
<1>1. Serve(w, s)
  BY DEF PollCommands
<1>2. /\ tooOld \subseteq alive /\ fresh \subseteq alive /\ unsent \subseteq Pending
      /\ alive \subseteq Commands /\ Pending \subseteq Commands /\ tooOld \cap fresh = {}
      /\ step \in {"expire", "mark"}
      /\ \A c \in alive : command[c].status \in Alive
  BY DEF Pending
<1> HIDE DEF tooOld, fresh, unsent, step, alive
<1>3. /\ s \in Serving /\ s.at = step /\ s.routes = server[w].routes
      /\ s.tooOld = tooOld /\ s.fresh = fresh /\ s.unsent = unsent
  BY <1>2, ServerRow DEF Serving
<1> HIDE DEF s
<1>4. QED
  BY <1>1, <1>2, <1>3, ServeFacts

LEMMA ExpireStep ==
  ASSUME MoveTypeOK, NEW w \in PanelWorkers, PollExpire(w)
  PROVE  /\ server' \in [PanelWorkers -> Serving]
         /\ server'[w].at = "mark" /\ server'[w].routes = server[w].routes
         /\ server'[w].fresh = server[w].fresh
         /\ server'[w].unsent = server[w].fresh \cap Pending
         /\ \A v \in PanelWorkers : v # w => server'[v] = server[v]
<1> DEFINE unsent == server[w].fresh \cap Pending
           none == {c \in Commands : FALSE}
           s == [server[w] EXCEPT !.at = "mark", !.tooOld = none, !.unsent = unsent]
<1>1. Serve(w, s)
  <2>1. none = {}
    OBVIOUS
  <2>2. QED
    BY <2>1 DEF PollExpire
<1>2. unsent \subseteq Commands /\ none \subseteq Commands
  BY DEF Pending
<1> HIDE DEF unsent, none
<1>3. /\ s \in Serving /\ s.at = "mark" /\ s.routes = server[w].routes
      /\ s.fresh = server[w].fresh /\ s.unsent = unsent
  BY <1>2, ServerRow DEF Serving
<1> HIDE DEF s
<1>4. QED
  BY <1>1, <1>3, ServeFacts DEF unsent

LEMMA ResultStep ==
  ASSUME MoveTypeOK, NEW w \in PanelWorkers, NEW c \in Commands, ResultRead(w, c)
  PROVE  /\ server' \in [PanelWorkers -> Serving]
         /\ server'[w].at = "result" /\ server'[w].c = c
         /\ \A v \in PanelWorkers : v # w => server'[v] = server[v]
<1> DEFINE o == proxy.outcome[c]
           s == [Free EXCEPT !.at = "result", !.c = c, !.outcome = o]
<1>1. o \in {"done", "failed"}
  BY DEF MoveTypeOK, ResultRead
<1>2. Serve(w, s)
  BY DEF ResultRead
<1> HIDE DEF o
<1>3. s \in Serving /\ s.at = "result" /\ s.c = c
  BY <1>1 DEF Free, Serving
<1> HIDE DEF s
<1>4. QED
  BY <1>2, <1>3, ServeFacts

\* The proxy takes the reply of the poll it waits for, or goes on without it.
LEMMA RepliedFacts ==
  ASSUME MoveTypeOK, NEW w \in PanelWorkers, NEW b \in BOOLEAN, Replied(w, b)
  PROVE  /\ proxy' \in [routes : Nat, asked : PanelWorkers \cup {NoPanelWorker},
                        todo : SUBSET Commands, stale : SUBSET Commands,
                        outcome : [Commands -> {"none", "done", "failed"}]]
         /\ proxy'.stale = proxy.stale
         /\ \/ proxy'.todo = proxy.todo /\ proxy'.routes = proxy.routes
            \/ proxy'.todo \subseteq server[w].fresh /\ proxy'.routes = server[w].routes
<1> DEFINE todo == {c \in server[w].fresh : proxy.outcome[c] = "none"}
<1>1. /\ todo \subseteq server[w].fresh /\ server[w].fresh \subseteq Commands
      /\ server[w].routes \in Nat
  BY ServerRow
<1> HIDE DEF todo
<1>2. CASE proxy.asked # w
  BY <1>2 DEF Replied, MoveTypeOK
<1>3. CASE proxy.asked = w /\ b
  <2>1. proxy' = [proxy EXCEPT !.asked = NoPanelWorker, !.routes = server[w].routes,
                               !.todo = todo]
    BY <1>3 DEF Replied, todo
  <2>2. QED
    BY <1>1, <2>1 DEF MoveTypeOK
<1>4. CASE proxy.asked = w /\ ~b
  <2>1. proxy' = [proxy EXCEPT !.asked = NoPanelWorker]
    BY <1>4 DEF Replied
  <2>2. QED
    BY <2>1 DEF MoveTypeOK
<1>5. QED
  BY <1>2, <1>3, <1>4

LEMMA DisconnectStep ==
  ASSUME MoveTypeOK, NEW c \in Commands, NEW o \in {"done", "failed"},
         ProxyDisconnects(c, o)
  PROVE  /\ proxy' \in [routes : Nat, asked : PanelWorkers \cup {NoPanelWorker},
                        todo : SUBSET Commands, stale : SUBSET Commands,
                        outcome : [Commands -> {"none", "done", "failed"}]]
         /\ c \in proxy.todo /\ proxy'.todo \subseteq proxy.todo
         /\ proxy'.routes = proxy.routes
         /\ command[c].move <= proxy.routes => proxy'.stale = proxy.stale
<1> DEFINE stale == IF proxy.routes < command[c].move THEN proxy.stale \cup {c}
                                                      ELSE proxy.stale
           todo == proxy.todo \ {c}
           outcome == [proxy.outcome EXCEPT ![c] = o]
<1>1. /\ stale \subseteq Commands /\ todo \subseteq Commands /\ todo \subseteq proxy.todo
      /\ outcome \in [Commands -> {"none", "done", "failed"}]
  BY DEF MoveTypeOK
<1>2. command[c].move <= proxy.routes => stale = proxy.stale
  BY DEF MoveTypeOK, CommandRow
<1>3. proxy' = [proxy EXCEPT !.todo = todo, !.outcome = outcome, !.stale = stale]
  BY DEF ProxyDisconnects, MoveTypeOK
<1>4. c \in proxy.todo
  BY DEF ProxyDisconnects
<1> HIDE DEF stale, todo, outcome
<1>5. QED
  BY <1>1, <1>2, <1>3, <1>4 DEF MoveTypeOK

LEMMA MoveInitType == MoveInit => MoveTypeOK
<1> SUFFICES ASSUME MoveInit PROVE MoveTypeOK
  OBVIOUS
<1>1. [status |-> "none", old |-> FALSE, move |-> 0] \in CommandRow
  BY DEF CommandRow
<1>2. QED
  BY <1>1, FreeType, MoveAssumption DEF MoveInit, MoveTypeOK

LEMMA MoveNextType == MoveTypeOK /\ [MoveNext]_moveVars => MoveTypeOK'
<1> SUFFICES ASSUME MoveTypeOK, [MoveNext]_moveVars
             PROVE  MoveTypeOK'
  OBVIOUS
<1>1. ASSUME NEW w \in PanelWorkers, NEW c \in Commands, MoveRoutes(w, c)
      PROVE  MoveTypeOK'
  <2>1. overlaps' \in 0..MaxTroubles
    BY <1>1, AcceptsFacts DEF MoveRoutes
  <2>2. QED
    BY <1>1, <2>1, MoveStep DEF MoveRoutes, MoveTypeOK
<1>2. ASSUME NEW w \in PanelWorkers, NEW c \in Commands, ResultRead(w, c)
      PROVE  MoveTypeOK'
  <2>1. overlaps' \in 0..MaxTroubles
    BY <1>2, AcceptsFacts DEF ResultRead
  <2>2. QED
    BY <1>2, <2>1, ResultStep DEF ResultRead, MoveTypeOK
<1>3. ASSUME NEW w \in PanelWorkers, Enqueue(w)
      PROVE  MoveTypeOK'
  BY <1>3, EnqueueStep DEF Enqueue, MoveTypeOK
<1>4. ASSUME NEW w \in PanelWorkers, ResultCommit(w)
      PROVE  MoveTypeOK'
  <2>1. server[w].outcome \in Alive \cup Terminal
    BY ServerRow DEF Terminal
  <2>2. command' \in [Commands -> CommandRow] /\ server' \in [PanelWorkers -> Serving]
    BY <1>4, <2>1, StatusFacts, FreeType, ServeFacts DEF ResultCommit
  <2>3. QED
    BY <1>4, <2>2 DEF ResultCommit, MoveTypeOK
<1>5. ASSUME NEW w \in PanelWorkers, PollCommands(w)
      PROVE  MoveTypeOK'
  BY <1>5, CommandsStep DEF PollCommands, MoveTypeOK
<1>6. ASSUME NEW w \in PanelWorkers, PollExpire(w)
      PROVE  MoveTypeOK'
  <2>1. "expired" \in Alive \cup Terminal
    BY DEF Terminal
  <2>2. command' \in [Commands -> CommandRow]
    BY <1>6, <2>1, StatusFacts DEF PollExpire
  <2>3. QED
    BY <1>6, <2>2, ExpireStep DEF PollExpire, MoveTypeOK
<1>7. ASSUME NEW w \in PanelWorkers, NEW b \in BOOLEAN, PollMark(w, b)
      PROVE  MoveTypeOK'
  <2>1. "sent" \in Alive \cup Terminal
    BY DEF Alive
  <2>2. command' \in [Commands -> CommandRow] /\ server' \in [PanelWorkers -> Serving]
    BY <1>7, <2>1, StatusFacts, FreeType, ServeFacts DEF PollMark
  <2>3. QED
    BY <1>7, <2>2, RepliedFacts DEF PollMark, MoveTypeOK
<1>8. ASSUME NEW w \in PanelWorkers, PanelCrash(w)
      PROVE  MoveTypeOK'
  <2>1. died' \in 0..MaxTroubles
    BY <1>8, MoveAssumption DEF PanelCrash, MoveTypeOK
  <2>2. QED
    BY <1>8, <2>1, FreeType, ServeFacts DEF PanelCrash, MoveTypeOK
<1>9. ASSUME NEW w \in PanelWorkers, PollRoutes(w)
      PROVE  MoveTypeOK'
  <2>1. overlaps' \in 0..MaxTroubles
    BY <1>9, AcceptsFacts DEF PollRoutes
  <2>2. QED
    BY <1>9, <2>1, PollStep DEF PollRoutes, MoveTypeOK
<1>10. CASE PollTimesOut
  BY <1>10 DEF PollTimesOut, MoveTypeOK
<1>11. ASSUME NEW c \in Commands, TtlElapses(c)
       PROVE  MoveTypeOK'
  BY <1>11, TtlStep DEF TtlElapses, MoveTypeOK
<1>12. ASSUME NEW c \in Commands, NEW o \in {"done", "failed"}, ProxyDisconnects(c, o)
       PROVE  MoveTypeOK'
  BY <1>12, DisconnectStep DEF ProxyDisconnects, MoveTypeOK
<1>13. CASE UNCHANGED moveVars
  BY <1>13 DEF moveVars, MoveTypeOK
<1>14. QED
  BY <1>1, <1>2, <1>3, <1>4, <1>5, <1>6, <1>7, <1>8, <1>9, <1>10, <1>11, <1>12, <1>13
     DEF MoveNext, Finish, Polls

\* The routes, the commands, the requests and the proxy keep their shape in every
\* reachable state (app/services/chr_move.py, coa_disconnect.py, app/api/proxy_api.py).
THEOREM MoveTypeCorrect == MoveSpec => []MoveTypeOK
<1>1. QED
  BY MoveInitType, MoveNextType, PTL DEF MoveSpec

-----------------------------------------------------------------------------
(* Requests that do not overlap *)

\* What a request relies on from its first step to its last when it is alone.
Request(w) ==
    /\ server[w].at = "enqueue" =>
         server[w].routes = route /\ command[server[w].c].status = "none"
    /\ server[w].at \in {"commands", "expire", "mark"} => server[w].routes = route
    /\ server[w].at \in {"expire", "mark"} =>
         \A c \in server[w].fresh : command[c].status # "none"
    /\ server[w].at = "expire" =>
         /\ \A c \in server[w].tooOld \cup server[w].fresh : command[c].status \in Alive
         /\ server[w].tooOld \cap server[w].fresh = {}
    /\ server[w].at = "mark" => server[w].unsent \subseteq Pending
    /\ server[w].at = "result" => command[server[w].c].status \notin Terminal

\* Neither property is inductive.  A command never belongs to a move that is not
\* committed, the proxy has the routes of every command it is given, and a request
\* that is alone finds the rows as it read them.
MoveAlone ==
    /\ \A v, w \in PanelWorkers : server[v].at # "idle" /\ server[w].at # "idle" => v = w
    /\ \A w \in PanelWorkers : Request(w)
    /\ \A c \in Commands : command[c].move <= route
    /\ \A c \in proxy.todo : /\ command[c].status # "none"
                            /\ command[c].move <= proxy.routes
    /\ proxy.stale = {}
MoveInv == overlaps = 0 => MoveAlone

LEMMA MoveInvInit == MoveInit => MoveInv
  BY DEF MoveInit, MoveInv, MoveAlone, Request, Free

\* A request that is alone goes on: the other workers stay idle.
LEMMA OneRequest ==
  ASSUME MoveAlone, NEW w \in PanelWorkers, server[w].at # "idle",
         \A v \in PanelWorkers : v # w => server'[v] = server[v]
  PROVE  /\ \A u, v \in PanelWorkers :
              server'[u].at # "idle" /\ server'[v].at # "idle" => u = v
         /\ \A v \in PanelWorkers : v # w => server'[v].at = "idle"
  BY DEF MoveAlone

\* An idle worker relies on nothing.
LEMMA IdleRequest ==
  ASSUME NEW w \in PanelWorkers, server'[w].at = "idle"
  PROVE  Request(w)'
  BY DEF Request

LEMMA MoveInvStep == MoveTypeOK /\ MoveInv /\ [MoveNext]_moveVars => MoveInv'
<1> SUFFICES ASSUME MoveTypeOK, MoveInv, [MoveNext]_moveVars, overlaps' = 0
             PROVE  MoveAlone'
  BY DEF MoveInv
<1>1. ASSUME NEW w \in PanelWorkers, NEW c \in Commands, MoveRoutes(w, c)
      PROVE  MoveAlone'
  <2>1. MoveAlone /\ \A v \in PanelWorkers : server[v].at = "idle"
    BY <1>1, AcceptsFacts DEF MoveRoutes, MoveInv
  <2>2. /\ server'[w].at = "enqueue" /\ server'[w].c = c /\ server'[w].routes = route'
        /\ \A v \in PanelWorkers : v # w => server'[v] = server[v]
        /\ route <= route' /\ route \in Nat /\ route' \in Nat
    BY <1>1, MoveStep DEF MoveTypeOK
  <2>3. command' = command /\ proxy' = proxy /\ command[c].status = "none"
    BY <1>1 DEF MoveRoutes
  <2>4. \A v \in PanelWorkers : Request(v)'
    BY <2>1, <2>2, <2>3 DEF Request
  <2>5. \A b \in Commands : command'[b].move <= route'
    <3>1. \A b \in Commands : command[b].move \in Nat
      BY DEF MoveTypeOK, CommandRow
    <3>2. QED
      BY <2>1, <2>2, <2>3, <3>1 DEF MoveAlone
  <2>6. QED
    BY <2>1, <2>2, <2>3, <2>4, <2>5 DEF MoveAlone
<1>2. ASSUME NEW w \in PanelWorkers, NEW c \in Commands, ResultRead(w, c)
      PROVE  MoveAlone'
  <2>1. MoveAlone /\ \A v \in PanelWorkers : server[v].at = "idle"
    BY <1>2, AcceptsFacts DEF ResultRead, MoveInv
  <2>2. /\ server'[w].at = "result" /\ server'[w].c = c
        /\ \A v \in PanelWorkers : v # w => server'[v] = server[v]
    BY <1>2, ResultStep
  <2>3. /\ command' = command /\ proxy' = proxy /\ route' = route
        /\ command[c].status \notin Terminal
    BY <1>2 DEF ResultRead
  <2>4. \A v \in PanelWorkers : Request(v)'
    BY <2>1, <2>2, <2>3 DEF Request
  <2>5. QED
    BY <2>1, <2>2, <2>3, <2>4 DEF MoveAlone
<1>3. ASSUME NEW w \in PanelWorkers, Enqueue(w)
      PROVE  MoveAlone'
  <2>1. MoveAlone /\ server[w].at = "enqueue" /\ proxy' = proxy /\ route' = route
    BY <1>3 DEF Enqueue, MoveInv
  <2>2. server[w].routes = route /\ command[server[w].c].status = "none" /\ route \in Nat
    BY <2>1 DEF MoveAlone, Request, MoveTypeOK
  <2>3. /\ command'[server[w].c].move = route
        /\ \A b \in Commands : b # server[w].c => command'[b] = command[b]
        /\ server'[w].at = "idle"
        /\ \A v \in PanelWorkers : v # w => server'[v] = server[v]
        /\ server[w].c \in Commands
    BY <1>3, <2>2, EnqueueStep DEF Free
  <2>4. \A v \in PanelWorkers : server'[v].at = "idle"
    BY <2>1, <2>3, OneRequest
  <2>5. \A b \in Commands : command'[b].move <= route'
    BY <2>1, <2>2, <2>3 DEF MoveAlone
  <2>6. \A b \in proxy.todo : b # server[w].c /\ b \in Commands
    BY <2>1, <2>2 DEF MoveAlone, MoveTypeOK
  <2>7. QED
    BY <2>1, <2>3, <2>4, <2>5, <2>6, IdleRequest DEF MoveAlone
<1>4. ASSUME NEW w \in PanelWorkers, ResultCommit(w)
      PROVE  MoveAlone'
  <2>1. /\ MoveAlone /\ server[w].at = "result" /\ proxy' = proxy /\ route' = route
        /\ Serve(w, Free) /\ SetStatus({server[w].c}, server[w].outcome)
    BY <1>4 DEF ResultCommit, MoveInv
  <2>2. \A v \in PanelWorkers : server'[v].at = "idle"
    BY <2>1, ServeFacts, FreeType, OneRequest DEF Free
  <2>3. server[w].outcome \in Alive \cup Terminal /\ server[w].outcome # "none"
        /\ server[w].c \in Commands
    BY <2>1, ServerRow DEF Terminal
  <2>4. \A c \in Commands : /\ command'[c].move = command[c].move
                            /\ command[c].status # "none" => command'[c].status # "none"
    BY <2>1, <2>3, StatusFacts
  <2>5. QED
    BY <2>1, <2>2, <2>4, IdleRequest DEF MoveAlone, MoveTypeOK
<1>5. ASSUME NEW w \in PanelWorkers, PollCommands(w)
      PROVE  MoveAlone'
  <2>1. /\ MoveAlone /\ server[w].at = "commands" /\ proxy' = proxy /\ route' = route
        /\ command' = command /\ server[w].routes = route
    BY <1>5 DEF PollCommands, MoveInv, MoveAlone, Request
  <2>2. /\ server'[w].at \in {"expire", "mark"} /\ server'[w].routes = server[w].routes
        /\ \A c \in server'[w].tooOld \cup server'[w].fresh :
             c \in Commands /\ command[c].status \in Alive
        /\ server'[w].tooOld \cap server'[w].fresh = {}
        /\ server'[w].unsent \subseteq Pending
        /\ \A v \in PanelWorkers : v # w => server'[v] = server[v]
    BY <1>5, CommandsStep
  <2>3. Pending' = Pending
    BY <2>1 DEF Pending
  <2>4. Request(w)'
    BY <2>1, <2>2, <2>3 DEF Request, Alive
  <2>5. QED
    BY <2>1, <2>2, <2>4, OneRequest, IdleRequest DEF MoveAlone
<1>6. ASSUME NEW w \in PanelWorkers, PollExpire(w)
      PROVE  MoveAlone'
  <2>1. /\ MoveAlone /\ server[w].at = "expire" /\ proxy' = proxy /\ route' = route
        /\ SetStatus(server[w].tooOld, "expired") /\ server[w].routes = route
        /\ \A c \in server[w].fresh : c \in Commands /\ command[c].status # "none"
        /\ server[w].tooOld \cap server[w].fresh = {}
    BY <1>6, ServerRow DEF PollExpire, MoveInv, MoveAlone, Request
  <2>2. /\ server'[w].at = "mark" /\ server'[w].routes = server[w].routes
        /\ server'[w].fresh = server[w].fresh
        /\ server'[w].unsent = server[w].fresh \cap Pending
        /\ \A v \in PanelWorkers : v # w => server'[v] = server[v]
    BY <1>6, ExpireStep
  <2>3. \A c \in Commands :
          /\ command'[c].move = command[c].move
          /\ command[c].status # "none" => command'[c].status # "none"
          /\ c \notin server[w].tooOld => command'[c].status = command[c].status
    BY <2>1, StatusFacts DEF Terminal
  <2>4. Request(w)'
    <3>1. server'[w].unsent \subseteq Pending'
      BY <2>1, <2>2, <2>3 DEF Pending
    <3>2. \A c \in server'[w].fresh : command'[c].status # "none"
      BY <2>1, <2>2, <2>3
    <3>3. QED
      BY <2>1, <2>2, <3>1, <3>2 DEF Request
  <2>5. QED
    BY <2>1, <2>2, <2>3, <2>4, OneRequest, IdleRequest DEF MoveAlone, MoveTypeOK
<1>7. ASSUME NEW w \in PanelWorkers, NEW b \in BOOLEAN, PollMark(w, b)
      PROVE  MoveAlone'
  <2>1. /\ MoveAlone /\ server[w].at = "mark" /\ route' = route
        /\ SetStatus(server[w].unsent, "sent") /\ server[w].routes = route
        /\ Serve(w, Free) /\ Replied(w, b)
        /\ \A c \in server[w].fresh : c \in Commands /\ command[c].status # "none"
    BY <1>7, ServerRow DEF PollMark, MoveInv, MoveAlone, Request
  <2>2. \A v \in PanelWorkers : server'[v].at = "idle"
    BY <2>1, ServeFacts, FreeType, OneRequest DEF Free
  <2>3. \A c \in Commands : /\ command'[c].move = command[c].move
                            /\ command[c].status # "none" => command'[c].status # "none"
    BY <2>1, StatusFacts DEF Alive
  <2>4. /\ proxy'.stale = proxy.stale
        /\ \/ proxy'.todo = proxy.todo /\ proxy'.routes = proxy.routes
           \/ proxy'.todo \subseteq server[w].fresh /\ proxy'.routes = server[w].routes
    BY <2>1, RepliedFacts
  <2>5. \A c \in proxy'.todo : /\ command'[c].status # "none"
                               /\ command'[c].move <= proxy'.routes
    <3>1. CASE proxy'.todo = proxy.todo /\ proxy'.routes = proxy.routes
      BY <2>1, <2>3, <3>1 DEF MoveAlone, MoveTypeOK
    <3>2. CASE proxy'.todo \subseteq server[w].fresh /\ proxy'.routes = server[w].routes
      BY <2>1, <2>3, <3>2 DEF MoveAlone
    <3>3. QED
      BY <2>4, <3>1, <3>2
  <2>6. QED
    BY <2>1, <2>2, <2>3, <2>4, <2>5, IdleRequest DEF MoveAlone
<1>8. ASSUME NEW w \in PanelWorkers, PanelCrash(w)
      PROVE  MoveAlone'
  <2>1. /\ MoveAlone /\ server[w].at # "idle" /\ proxy' = proxy /\ route' = route
        /\ command' = command /\ Serve(w, Free)
    BY <1>8 DEF PanelCrash, MoveInv
  <2>2. \A v \in PanelWorkers : server'[v].at = "idle"
    BY <2>1, ServeFacts, FreeType, OneRequest DEF Free
  <2>3. QED
    BY <2>1, <2>2, IdleRequest DEF MoveAlone
<1>9. ASSUME NEW w \in PanelWorkers, PollRoutes(w)
      PROVE  MoveAlone'
  <2>1. MoveAlone /\ \A v \in PanelWorkers : server[v].at = "idle"
    BY <1>9, AcceptsFacts DEF PollRoutes, MoveInv
  <2>2. /\ server'[w].at = "commands" /\ server'[w].routes = route
        /\ \A v \in PanelWorkers : v # w => server'[v] = server[v]
        /\ proxy' = [proxy EXCEPT !.asked = w]
    BY <1>9, PollStep
  <2>3. proxy'.todo = proxy.todo /\ proxy'.routes = proxy.routes /\ proxy'.stale = proxy.stale
    BY <2>2 DEF MoveTypeOK
  <2>4. command' = command /\ route' = route
    BY <1>9 DEF PollRoutes
  <2>5. \A v \in PanelWorkers : Request(v)'
    BY <2>1, <2>2, <2>4 DEF Request
  <2>6. QED
    BY <2>1, <2>2, <2>3, <2>4, <2>5 DEF MoveAlone
<1>10. CASE PollTimesOut
  <2>1. /\ proxy'.todo = proxy.todo /\ proxy'.routes = proxy.routes
        /\ proxy'.stale = proxy.stale
    BY <1>10 DEF PollTimesOut, MoveTypeOK
  <2>2. MoveAlone /\ command' = command /\ route' = route /\ server' = server
    BY <1>10 DEF PollTimesOut, MoveInv
  <2>3. QED
    BY <2>1, <2>2 DEF MoveAlone, Request, Pending
<1>11. ASSUME NEW c \in Commands, TtlElapses(c)
       PROVE  MoveAlone'
  <2>1. MoveAlone /\ proxy' = proxy /\ route' = route /\ server' = server
    BY <1>11 DEF TtlElapses, MoveInv
  <2>2. \A b \in Commands : /\ command'[b].status = command[b].status
                            /\ command'[b].move = command[b].move
    BY <1>11, TtlStep
  <2>3. Pending' = Pending
    BY <2>2 DEF Pending
  <2>4. \A v \in PanelWorkers : Request(v)'
    BY <2>1, <2>2, <2>3, ServerRow DEF MoveAlone, Request
  <2>5. QED
    BY <2>1, <2>2, <2>4 DEF MoveAlone, MoveTypeOK
<1>12. ASSUME NEW c \in Commands, NEW o \in {"done", "failed"}, ProxyDisconnects(c, o)
       PROVE  MoveAlone'
  <2>1. MoveAlone /\ command' = command /\ route' = route /\ server' = server
    BY <1>12 DEF ProxyDisconnects, MoveInv
  <2>2. /\ proxy'.todo \subseteq proxy.todo /\ proxy'.routes = proxy.routes
        /\ proxy'.stale = proxy.stale
    BY <1>12, <2>1, DisconnectStep DEF MoveAlone
  <2>3. QED
    BY <2>1, <2>2 DEF MoveAlone, Request, Pending
<1>13. CASE UNCHANGED moveVars
  BY <1>13 DEF moveVars, MoveInv, MoveAlone, Request, Pending
<1>14. QED
  BY <1>1, <1>2, <1>3, <1>4, <1>5, <1>6, <1>7, <1>8, <1>9, <1>10, <1>11, <1>12, <1>13
     DEF MoveNext, Finish, Polls

LEMMA MoveInvariant == MoveSpec => [](MoveTypeOK /\ MoveInv)
<1>1. QED
  BY MoveInitType, MoveNextType, MoveInvInit, MoveInvStep, PTL DEF MoveSpec

\* As long as no two requests overlap, the proxy never drops a session while it still
\* has the routes from before the move, however replies are lost and workers die
\* between the commit of the routes and the queueing of the disconnect.
THEOREM DisconnectsSeeRoutes == MoveSpec => []DisconnectSeesRoutes
<1>1. MoveInv => DisconnectSeesRoutes
  BY DEF MoveInv, MoveAlone, DisconnectSeesRoutes
<1>2. QED
  BY MoveInvariant, <1>1, PTL

-----------------------------------------------------------------------------
(* Commands that are settled *)

LEMMA TerminalStep ==
  ASSUME MoveTypeOK, MoveInv, [MoveNext]_moveVars, NEW c \in Commands,
         command[c].status \in Terminal, overlaps' = 0
  PROVE  command'[c].status = command[c].status
<1>1. ASSUME NEW w \in PanelWorkers, Enqueue(w)
      PROVE  command'[c].status = command[c].status
  <2>1. server[w].at = "enqueue" /\ MoveAlone
    BY <1>1 DEF Enqueue, MoveInv
  <2>2. c # server[w].c
    BY <2>1 DEF MoveAlone, Request, Terminal
  <2>3. QED
    BY <1>1, <2>2, EnqueueStep
<1>2. ASSUME NEW w \in PanelWorkers, ResultCommit(w)
      PROVE  command'[c].status = command[c].status
  <2>1. server[w].at = "result" /\ MoveAlone /\ SetStatus({server[w].c}, server[w].outcome)
    BY <1>2 DEF ResultCommit, MoveInv
  <2>2. c \notin {server[w].c} /\ server[w].outcome \in Alive \cup Terminal
    BY <2>1, ServerRow DEF MoveAlone, Request, Terminal
  <2>3. QED
    BY <2>1, <2>2, StatusFacts
<1>3. ASSUME NEW w \in PanelWorkers, PollExpire(w)
      PROVE  command'[c].status = command[c].status
  <2>1. server[w].at = "expire" /\ MoveAlone /\ SetStatus(server[w].tooOld, "expired")
    BY <1>3 DEF PollExpire, MoveInv
  <2>2. c \notin server[w].tooOld
    BY <2>1 DEF MoveAlone, Request, Terminal, Alive
  <2>3. QED
    BY <2>1, <2>2, StatusFacts DEF Terminal
<1>4. ASSUME NEW w \in PanelWorkers, NEW b \in BOOLEAN, PollMark(w, b)
      PROVE  command'[c].status = command[c].status
  <2>1. server[w].at = "mark" /\ MoveAlone /\ SetStatus(server[w].unsent, "sent")
    BY <1>4 DEF PollMark, MoveInv
  <2>2. c \notin server[w].unsent
    BY <2>1 DEF MoveAlone, Request, Terminal, Pending
  <2>3. QED
    BY <2>1, <2>2, StatusFacts DEF Alive
<1>5. ASSUME NEW b \in Commands, TtlElapses(b)
      PROVE  command'[c].status = command[c].status
  BY <1>5, TtlStep
<1>6. CASE command' = command
  BY <1>6
<1>7. QED
  BY <1>1, <1>2, <1>3, <1>4, <1>5, <1>6
     DEF MoveNext, Finish, Polls, MoveRoutes, ResultRead, PollCommands, PanelCrash,
         PollRoutes, PollTimesOut, ProxyDisconnects, moveVars

\* As long as no two requests overlap, no step takes a command out of done, failed or
\* expired: neither the lazy expiry nor the marking of a poll nor a repeated result.
THEOREM SettledStays == MoveSpec => TerminalIsFinal
<1> DEFINE Kept == \A c \in Commands : command[c].status \in Terminal =>
                     overlaps' > 0 \/ command'[c].status = command[c].status
<1>1. MoveTypeOK /\ MoveTypeOK' /\ MoveInv /\ [MoveNext]_moveVars => Kept
  <2> SUFFICES ASSUME MoveTypeOK, MoveTypeOK', MoveInv, [MoveNext]_moveVars,
                      NEW c \in Commands, command[c].status \in Terminal, ~(overlaps' > 0)
               PROVE  command'[c].status = command[c].status
    BY DEF Kept
  <2>1. overlaps' = 0
    BY MoveAssumption DEF MoveTypeOK
  <2>2. QED
    BY <2>1, TerminalStep
<1>2. MoveSpec => [](MoveTypeOK /\ MoveInv)
  BY MoveInvariant
<1>3. MoveTypeOK /\ MoveInv /\ MoveTypeOK' /\ [MoveNext]_moveVars => [Kept]_moveVars
  BY <1>1
<1>4. MoveSpec => [][Kept]_moveVars
  BY <1>2, <1>3, PTL DEF MoveSpec
<1>5. QED
  BY <1>4 DEF TerminalIsFinal, Kept
=============================================================================
