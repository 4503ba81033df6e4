----------------------------- MODULE VpnProofs ------------------------------
(*****************************************************************************)
(* Theorems about VpnTunnels, for any finite set of connections and any      *)
(* number of web workers, addresses, overlapping requests and faults, and    *)
(* about VpnQuota, for every quota and any number of months, bytes,          *)
(* reconnections, failed calls, lost replies and dead runs.                  *)
(*****************************************************************************)
EXTENDS VpnTunnels, VpnQuota, FiniteSetTheorems, TLAPS

-----------------------------------------------------------------------------
(* Tunnels: types *)

LEMMA FreeDeskType == FreeDesk \in Desk
  BY TunnelAssumption DEF FreeDesk, Desk, Grounds

\* What a step does to the desk of the worker that takes it.
LEMMA BeginType ==
  ASSUME TunnelTypeOK, NEW w \in TunnelWorkers, NEW at \in {"create", "commit", "remove", "forget"},
         NEW c \in Connections, NEW by \in Grounds, NEW address \in Nat,
         BeginRequest(w, at, c, by, address)
  PROVE  /\ desk' \in [TunnelWorkers -> Desk]
         /\ desk[w].at = "idle"
         /\ desk'[w] = [at |-> at, c |-> c, by |-> by, address |-> address]
         /\ \A v \in TunnelWorkers : v # w => desk'[v] = desk[v]
         /\ crossings' \in Nat /\ crossings' >= crossings
         /\ \/ \A v \in TunnelWorkers : desk[v].at = "idle"
            \/ crossings' = crossings + 1
         /\ row' = row /\ router' = router /\ accidents' = accidents /\ revived' = revived
<1> DEFINE d == [at |-> at, c |-> c, by |-> by, address |-> address]
<1>1. d \in Desk
  BY TunnelAssumption DEF Desk
<1>2. desk' = [desk EXCEPT ![w] = d] /\ desk[w].at = "idle"
  BY DEF BeginRequest
<1> HIDE DEF d
<1>3. /\ desk' \in [TunnelWorkers -> Desk] /\ desk'[w] = d
      /\ \A v \in TunnelWorkers : v # w => desk'[v] = desk[v]
  BY <1>1, <1>2 DEF TunnelTypeOK
<1>4. /\ crossings' \in Nat /\ crossings' >= crossings
      /\ (\A v \in TunnelWorkers : desk[v].at = "idle") \/ crossings' = crossings + 1
  BY DEF BeginRequest, TunnelTypeOK
<1>5. row' = row /\ router' = router /\ accidents' = accidents /\ revived' = revived
  BY DEF BeginRequest
<1>6. QED
  BY <1>2, <1>3, <1>4, <1>5 DEF d

\* The same, as the invariants need it.
LEMMA BeginDesk ==
  ASSUME TunnelTypeOK, NEW w \in TunnelWorkers, NEW at \in {"create", "commit", "remove", "forget"},
         NEW c \in Connections, NEW by \in Grounds, NEW address \in Nat,
         BeginRequest(w, at, c, by, address)
  PROVE  /\ desk[w].at = "idle"
         /\ desk'[w].at = at /\ desk'[w].c = c /\ desk'[w].by = by /\ desk'[w].address = address
         /\ \A v \in TunnelWorkers : v # w => desk'[v] = desk[v]
         /\ row' = row /\ router' = router
<1>1. /\ desk'[w] = [at |-> at, c |-> c, by |-> by, address |-> address]
      /\ desk[w].at = "idle" /\ row' = row /\ router' = router
      /\ \A v \in TunnelWorkers : v # w => desk'[v] = desk[v]
  BY BeginType
<1>2. QED
  BY <1>1

LEMMA GoType ==
  ASSUME TunnelTypeOK, NEW w \in TunnelWorkers, desk[w].at # "idle",
         NEW at \in {"commit", "forget"}, Go(w, at)
  PROVE  /\ desk' \in [TunnelWorkers -> Desk]
         /\ desk'[w].at = at /\ desk'[w].c = desk[w].c
         /\ desk'[w].by = desk[w].by /\ desk'[w].address = desk[w].address
         /\ \A v \in TunnelWorkers : v # w => desk'[v] = desk[v]
<1>1. desk[w] \in Desk /\ desk' = [desk EXCEPT ![w] = [desk[w] EXCEPT !.at = at]]
  BY DEF TunnelTypeOK, Go
<1> DEFINE d == [desk[w] EXCEPT !.at = at]
<1>2. /\ d \in Desk /\ d.at = at /\ d.c = desk[w].c
      /\ d.by = desk[w].by /\ d.address = desk[w].address
  BY <1>1 DEF Desk
<1> HIDE DEF d
<1>3. desk' = [desk EXCEPT ![w] = d]
  BY <1>1 DEF d
<1>4. QED
  BY <1>2, <1>3 DEF TunnelTypeOK

LEMMA StopType ==
  ASSUME TunnelTypeOK, NEW w \in TunnelWorkers, Stop(w)
  PROVE  /\ desk' \in [TunnelWorkers -> Desk]
         /\ desk'[w] = FreeDesk
         /\ \A v \in TunnelWorkers : v # w => desk'[v] = desk[v]
  BY FreeDeskType DEF TunnelTypeOK, Stop

\* A desk that is not free has a connection.
LEMMA BusyDesk ==
  ASSUME TunnelTypeOK, NEW w \in TunnelWorkers
  PROVE  /\ desk[w].at # "idle" => desk[w].c \in Connections
         /\ desk[w].by \in Grounds /\ desk[w].address \in Nat
  BY DEF TunnelTypeOK, Desk

LEMMA RowFacts ==
  ASSUME TunnelTypeOK, NEW c \in Connections
  PROVE  /\ row[c] \in ConnectionRow /\ row[c].by \in Grounds /\ row[c].address \in Nat
         /\ row[c].provisioned \in BOOLEAN
  BY DEF TunnelTypeOK, ConnectionRow

-----------------------------------------------------------------------------
(* The steps, by what they do *)

\* Asking for a new connection: no row, no account and no request for it yet.
Asks(w) ==
    \/ \E t \in Tunnels : RequestTunnel(w, t)
    \/ \E t \in PppTunnels : ApproveIpChange(w, t)
    \/ \E p \in Peers : RequestPeer(w, p) \/ \E a \in Addresses : RequestTypedPeer(w, p, a)

LEMMA AskFacts ==
  ASSUME NEW w \in TunnelWorkers, Asks(w)
  PROVE  \E c \in Connections, at \in {"create", "commit"}, by \in Grounds, a \in Nat :
            /\ Unused(c) /\ BeginRequest(w, at, c, by, a)
            /\ at = "commit" <=> c \in RecordTunnels
            /\ by = "allowance" => Cardinality(Live(Tunnels)) < Allowance
            /\ c \in Tunnels => by # "allocated"
            /\ by = "allocated" => a \in FreeAddresses
<1>1. ASSUME NEW t \in Tunnels, RequestTunnel(w, t)
      PROVE  \E c \in Connections, at \in {"create", "commit"}, by \in Grounds, a \in Nat :
                /\ Unused(c) /\ BeginRequest(w, at, c, by, a)
                /\ at = "commit" <=> c \in RecordTunnels
                /\ by = "allowance" => Cardinality(Live(Tunnels)) < Allowance
                /\ c \in Tunnels => by # "allocated"
                /\ by = "allocated" => a \in FreeAddresses
  <2>1. CASE t \in PppTunnels
    <3>1. BeginRequest(w, "create", t, "allowance", 0) /\ t \notin RecordTunnels
      BY <1>1, <2>1, TunnelAssumption DEF RequestTunnel
    <3>2. QED
      BY <1>1, <3>1 DEF RequestTunnel, Connections, Grounds
  <2>2. CASE t \in RecordTunnels
    <3>1. BeginRequest(w, "commit", t, "allowance", 0)
      BY <1>1, <2>2, TunnelAssumption DEF RequestTunnel
    <3>2. QED
      BY <1>1, <2>2, <3>1 DEF RequestTunnel, Connections, Grounds
  <2>3. QED
    BY <2>1, <2>2 DEF Tunnels
<1>2. ASSUME NEW t \in PppTunnels, ApproveIpChange(w, t)
      PROVE  \E c \in Connections, at \in {"create", "commit"}, by \in Grounds, a \in Nat :
                /\ Unused(c) /\ BeginRequest(w, at, c, by, a)
                /\ at = "commit" <=> c \in RecordTunnels
                /\ by = "allowance" => Cardinality(Live(Tunnels)) < Allowance
                /\ c \in Tunnels => by # "allocated"
                /\ by = "allocated" => a \in FreeAddresses
  <2>1. t \in Connections /\ t \notin RecordTunnels
    BY TunnelAssumption DEF Connections, Tunnels
  <2>2. QED
    BY <1>2, <2>1 DEF ApproveIpChange, Grounds
<1>3. ASSUME NEW p \in Peers
      PROVE  p \in Connections /\ p \notin RecordTunnels /\ p \notin Tunnels
  BY TunnelAssumption DEF Connections, Tunnels
<1>4. ASSUME NEW p \in Peers, RequestPeer(w, p)
      PROVE  \E c \in Connections, at \in {"create", "commit"}, by \in Grounds, a \in Nat :
                /\ Unused(c) /\ BeginRequest(w, at, c, by, a)
                /\ at = "commit" <=> c \in RecordTunnels
                /\ by = "allowance" => Cardinality(Live(Tunnels)) < Allowance
                /\ c \in Tunnels => by # "allocated"
                /\ by = "allocated" => a \in FreeAddresses
  <2>1. PICK a \in FreeAddresses : BeginRequest(w, "create", p, "allocated", a)
    BY <1>4 DEF RequestPeer
  <2>2. a \in Nat
    BY TunnelAssumption DEF FreeAddresses, Addresses
  <2>3. QED
    BY <1>3, <1>4, <2>1, <2>2 DEF RequestPeer, Grounds
<1>5. ASSUME NEW p \in Peers, NEW x \in Addresses, RequestTypedPeer(w, p, x)
      PROVE  \E c \in Connections, at \in {"create", "commit"}, by \in Grounds, a \in Nat :
                /\ Unused(c) /\ BeginRequest(w, at, c, by, a)
                /\ at = "commit" <=> c \in RecordTunnels
                /\ by = "allowance" => Cardinality(Live(Tunnels)) < Allowance
                /\ c \in Tunnels => by # "allocated"
                /\ by = "allocated" => a \in FreeAddresses
  <2>1. x \in Nat
    BY TunnelAssumption DEF Addresses
  <2>2. QED
    BY <1>3, <1>5, <2>1 DEF RequestTypedPeer, Grounds
<1>6. QED
  BY <1>1, <1>2, <1>4, <1>5 DEF Asks

LEMMA RevokeFacts ==
  ASSUME TunnelTypeOK, NEW w \in TunnelWorkers, NEW c \in Connections, RequestRevoke(w, c)
  PROVE  /\ row[c].status # "none"
         /\ row[c].provisioned => BeginRequest(w, "remove", c, row[c].by, row[c].address)
         /\ ~row[c].provisioned => BeginRequest(w, "forget", c, row[c].by, row[c].address)
  BY DEF RequestRevoke

\* What a commit writes.
LEMMA CreatedRow ==
  ASSUME TunnelTypeOK, NEW w \in TunnelWorkers, CommitCreated(w)
  PROVE  /\ desk[w].at = "commit" /\ desk[w].c \in Connections
         /\ row' \in [Connections -> ConnectionRow]
         /\ row'[desk[w].c].status = "active" /\ row'[desk[w].c].by = desk[w].by
         /\ row'[desk[w].c].address = desk[w].address
         /\ row'[desk[w].c].provisioned <=> desk[w].c \notin RecordTunnels
         /\ \A c \in Connections : c # desk[w].c => row'[c] = row[c]
<1> DEFINE x == [status |-> "active", provisioned |-> desk[w].c \notin RecordTunnels,
                 by |-> desk[w].by, address |-> desk[w].address]
<1>1. desk[w].at = "commit" /\ desk[w].c \in Connections
  BY BusyDesk DEF CommitCreated
<1>2. x \in ConnectionRow
  BY BusyDesk DEF ConnectionRow
<1>3. row' = [row EXCEPT ![desk[w].c] = x]
  BY DEF CommitCreated
<1>4. /\ x.status = "active" /\ x.by = desk[w].by /\ x.address = desk[w].address
      /\ x.provisioned <=> desk[w].c \notin RecordTunnels
  OBVIOUS
<1> HIDE DEF x
<1>5. QED
  BY <1>1, <1>2, <1>3, <1>4 DEF TunnelTypeOK

LEMMA RevokedRow ==
  ASSUME TunnelTypeOK, NEW w \in TunnelWorkers, CommitRevoked(w)
  PROVE  /\ desk[w].at = "forget" /\ desk[w].c \in Connections
         /\ row' \in [Connections -> ConnectionRow]
         /\ row'[desk[w].c].status = "revoked" /\ row'[desk[w].c].provisioned = FALSE
         /\ row'[desk[w].c].by = row[desk[w].c].by
         /\ \A c \in Connections : c # desk[w].c => row'[c] = row[c]
<1>1. desk[w].at = "forget" /\ desk[w].c \in Connections
  BY BusyDesk DEF CommitRevoked
<1> DEFINE x == [row[desk[w].c] EXCEPT !.status = "revoked", !.provisioned = FALSE]
<1>2. row[desk[w].c] \in ConnectionRow
  BY <1>1 DEF TunnelTypeOK
<1>3. /\ x \in ConnectionRow /\ x.status = "revoked" /\ x.provisioned = FALSE
      /\ x.by = row[desk[w].c].by
  BY <1>2 DEF ConnectionRow
<1>4. row' = [row EXCEPT ![desk[w].c] = x]
  BY <1>1, <1>2 DEF CommitRevoked, TunnelTypeOK, ConnectionRow
<1> HIDE DEF x
<1>5. QED
  BY <1>1, <1>3, <1>4 DEF TunnelTypeOK

LEMMA StatusRow ==
  ASSUME TunnelTypeOK, NEW c \in Connections, NEW s \in {"active", "suspended"},
         SetTunnelStatus(c, s)
  PROVE  /\ row[c].status # "none" /\ ~row[c].provisioned
         /\ row' \in [Connections -> ConnectionRow]
         /\ row'[c].status = s /\ row'[c].provisioned = FALSE
         /\ row'[c].by = row[c].by /\ row'[c].address = row[c].address
         /\ \A b \in Connections : b # c => row'[b] = row[b]
         /\ IF row[c].status = "revoked" THEN revived' = revived + 1 ELSE revived' = revived
         /\ router' = router /\ desk' = desk /\ crossings' = crossings /\ accidents' = accidents
<1>1. row[c] \in ConnectionRow
  BY DEF TunnelTypeOK
<1> DEFINE x == [row[c] EXCEPT !.status = s]
<1>2. /\ x \in ConnectionRow /\ x.status = s /\ x.provisioned = row[c].provisioned
      /\ x.by = row[c].by /\ x.address = row[c].address
  BY <1>1 DEF ConnectionRow
<1>3. row' = [row EXCEPT ![c] = x]
  BY <1>1 DEF SetTunnelStatus
<1>4. row[c].provisioned \in BOOLEAN
  BY <1>1 DEF ConnectionRow
<1> HIDE DEF x
<1>5. QED
  BY <1>1, <1>2, <1>3, <1>4 DEF TunnelTypeOK, SetTunnelStatus

\* Every step is one of these.
LEMMA TunnelCases ==
  ASSUME [TunnelNext]_tunnelVars
  PROVE  \/ \E w \in TunnelWorkers :
              \/ Asks(w)
              \/ CreateOnRouter(w) \/ CreateUnheard(w) \/ CommitCreated(w) \/ KeyTaken(w)
              \/ \E c \in Connections : RequestRevoke(w, c)
              \/ RemoveFromRouter(w) \/ RemoveUnheard(w) \/ CommitRevoked(w)
              \/ RouterRefuses(w) \/ WorkerDies(w)
         \/ \E c \in Connections, s \in {"active", "suspended"} : SetTunnelStatus(c, s)
         \/ UNCHANGED tunnelVars
  BY DEF TunnelNext, Asks

LEMMA RevokeBegins ==
  ASSUME TunnelTypeOK, NEW w \in TunnelWorkers, NEW c \in Connections, RequestRevoke(w, c)
  PROVE  /\ TunnelTypeOK'
         /\ row[c].status # "none"
         /\ \/ desk'[w].at = "remove"
            \/ desk'[w].at = "forget" /\ ~row[c].provisioned
         /\ desk[w].at = "idle" /\ desk'[w].c = c
         /\ \A v \in TunnelWorkers : v # w => desk'[v] = desk[v]
         /\ row' = row /\ router' = router
<1> DEFINE by == row[c].by
           address == row[c].address
<1>1. by \in Grounds /\ address \in Nat /\ row[c].status # "none"
  BY RowFacts, RevokeFacts
<1>2. PICK at \in {"remove", "forget"} :
             BeginRequest(w, at, c, by, address) /\ (at = "forget" => ~row[c].provisioned)
  BY RevokeFacts, RowFacts
<1>3. at \in {"create", "commit", "remove", "forget"}
  OBVIOUS
<1> HIDE DEF by, address
<1>4. TunnelTypeOK'
  <2>1. /\ desk' \in [TunnelWorkers -> Desk] /\ crossings' \in Nat
        /\ row' = row /\ router' = router /\ accidents' = accidents /\ revived' = revived
    BY <1>1, <1>2, <1>3, BeginType
  <2>2. QED
    BY <2>1 DEF TunnelTypeOK
<1>5. QED
  BY <1>1, <1>2, <1>3, <1>4, BeginDesk

LEMMA AccidentFacts ==
  ASSUME TunnelTypeOK, RouterFault
  PROVE  accidents' = accidents + 1 /\ accidents' \in Nat
  BY DEF TunnelTypeOK, RouterFault

LEMMA TunnelInitType == TunnelInit => TunnelTypeOK
<1> SUFFICES ASSUME TunnelInit PROVE TunnelTypeOK
  OBVIOUS
<1>1. NoRow \in ConnectionRow
  BY DEF NoRow, ConnectionRow, Grounds
<1>2. QED
  BY <1>1, FreeDeskType DEF TunnelInit, TunnelTypeOK

LEMMA TunnelNextType == TunnelTypeOK /\ [TunnelNext]_tunnelVars => TunnelTypeOK'
<1> SUFFICES ASSUME TunnelTypeOK, [TunnelNext]_tunnelVars
             PROVE  TunnelTypeOK'
  OBVIOUS
<1>1. ASSUME NEW w \in TunnelWorkers, Asks(w)
      PROVE  TunnelTypeOK'
  <2>1. PICK c \in Connections, at \in {"create", "commit"}, by \in Grounds, a \in Nat :
               BeginRequest(w, at, c, by, a)
    BY <1>1, AskFacts
  <2>2. at \in {"create", "commit", "remove", "forget"}
    OBVIOUS
  <2>3. /\ desk' \in [TunnelWorkers -> Desk] /\ crossings' \in Nat
        /\ row' = row /\ router' = router /\ accidents' = accidents /\ revived' = revived
    BY <2>1, <2>2, BeginType
  <2>4. QED
    BY <2>3 DEF TunnelTypeOK
<1>2. ASSUME NEW w \in TunnelWorkers, NEW c \in Connections, RequestRevoke(w, c)
      PROVE  TunnelTypeOK'
  BY <1>2, RevokeBegins
<1>3. ASSUME NEW w \in TunnelWorkers, CreateOnRouter(w) \/ RemoveFromRouter(w)
      PROVE  TunnelTypeOK'
  <2>1. desk[w].at # "idle" /\ \E at \in {"commit", "forget"} : Go(w, at)
    BY <1>3 DEF CreateOnRouter, RemoveFromRouter
  <2>2. desk' \in [TunnelWorkers -> Desk] /\ router' \subseteq Connections
    BY <1>3, <2>1, GoType, BusyDesk DEF CreateOnRouter, RemoveFromRouter, TunnelTypeOK
  <2>3. QED
    BY <1>3, <2>2 DEF CreateOnRouter, RemoveFromRouter, TunnelTypeOK
<1>4. ASSUME NEW w \in TunnelWorkers, CreateUnheard(w) \/ RemoveUnheard(w)
      PROVE  TunnelTypeOK'
  <2>1. desk[w].at # "idle" /\ Stop(w) /\ RouterFault
    BY <1>4 DEF CreateUnheard, RemoveUnheard
  <2>2. router' \subseteq Connections
    BY <1>4, <2>1, BusyDesk DEF CreateUnheard, RemoveUnheard, TunnelTypeOK
  <2>3. QED
    BY <1>4, <2>1, <2>2, StopType, AccidentFacts DEF CreateUnheard, RemoveUnheard, TunnelTypeOK
<1>5. ASSUME NEW w \in TunnelWorkers, CommitCreated(w)
      PROVE  TunnelTypeOK'
  BY <1>5, CreatedRow, StopType DEF CommitCreated, TunnelTypeOK
<1>6. ASSUME NEW w \in TunnelWorkers, CommitRevoked(w)
      PROVE  TunnelTypeOK'
  BY <1>6, RevokedRow, StopType DEF CommitRevoked, TunnelTypeOK
<1>7. ASSUME NEW w \in TunnelWorkers, KeyTaken(w) \/ WorkerDies(w)
      PROVE  TunnelTypeOK'
  BY <1>7, StopType, AccidentFacts DEF KeyTaken, WorkerDies, TunnelTypeOK
<1>8. ASSUME NEW w \in TunnelWorkers, RouterRefuses(w)
      PROVE  TunnelTypeOK'
  BY <1>8, StopType DEF RouterRefuses, TunnelTypeOK
<1>9. ASSUME NEW c \in Connections, NEW s \in {"active", "suspended"}, SetTunnelStatus(c, s)
      PROVE  TunnelTypeOK'
  <2>1. /\ row' \in [Connections -> ConnectionRow] /\ router' = router /\ desk' = desk
        /\ crossings' = crossings /\ accidents' = accidents
    BY <1>9, StatusRow
  <2>2. revived' = revived + 1 \/ revived' = revived
    BY <1>9 DEF SetTunnelStatus
  <2>3. QED
    BY <2>1, <2>2 DEF TunnelTypeOK
<1>10. CASE UNCHANGED tunnelVars
  BY <1>10 DEF tunnelVars, TunnelTypeOK
<1>11. QED
  BY <1>1, <1>2, <1>3, <1>4, <1>5, <1>6, <1>7, <1>8, <1>9, <1>10, TunnelCases

\* Rows and requests keep the shape of their columns and variables in every reachable
\* state (app/services/vpn_tunnels.py and wireguard_peers.py).
THEOREM TunnelTypeCorrect == TunnelSpec => []TunnelTypeOK
<1>1. QED
  BY TunnelInitType, TunnelNextType, PTL DEF TunnelSpec

-----------------------------------------------------------------------------
(* Rows and routers *)

\* OffIsOff is not inductive: it takes what the requests in progress have done to the
\* router, and that a row without an account has none.
Row(c) ==
    /\ row[c].provisioned => row[c].status = "active"
    /\ row[c].status # "none" /\ ~row[c].provisioned => c \notin router
    /\ c \in RecordTunnels => c \notin router
TunnelRequest(w) ==
    /\ desk[w].at = "create" => desk[w].c \notin RecordTunnels
    /\ desk[w].at = "commit" /\ desk[w].c \notin RecordTunnels => desk[w].c \in router
    /\ desk[w].at \in {"create", "commit"} =>
         /\ row[desk[w].c].status = "none" /\ ~row[desk[w].c].provisioned
         /\ \A v \in TunnelWorkers : v # w => desk[v].c # desk[w].c
    /\ desk[w].at \in {"remove", "forget"} => row[desk[w].c].status # "none"
    /\ desk[w].at = "forget" => desk[w].c \notin router
TunnelInv == (\A c \in Connections : Row(c)) /\ (\A w \in TunnelWorkers : TunnelRequest(w))

LEMMA TunnelInvInit == TunnelInit => TunnelInv
  BY DEF TunnelInit, TunnelInv, Row, TunnelRequest, NoRow, FreeDesk

\* A worker that leaves its desk leaves the invariant as it is.
LEMMA StopStep ==
  ASSUME TunnelTypeOK, TunnelInv, NEW w \in TunnelWorkers, Stop(w),
         row' = row, router' = router
  PROVE  TunnelInv'
<1>1. desk'[w] = FreeDesk /\ \A v \in TunnelWorkers : v # w => desk'[v] = desk[v]
  BY StopType
<1>2. \A c \in Connections : Row(c)'
  BY DEF TunnelInv, Row
<1>3. TunnelRequest(w)'
  BY <1>1 DEF TunnelRequest, FreeDesk
<1>4. ASSUME NEW v \in TunnelWorkers, v # w
      PROVE  TunnelRequest(v)'
  <2>1. TunnelRequest(v) /\ desk'[v] = desk[v]
    BY <1>1, <1>4 DEF TunnelInv
  <2>2. desk[v].at # "idle" => desk[v].c # FreeDesk.c
    BY BusyDesk, TunnelAssumption DEF FreeDesk
  <2>3. QED
    BY <1>1, <2>1, <2>2 DEF TunnelRequest
<1>5. QED
  BY <1>2, <1>3, <1>4 DEF TunnelInv

LEMMA TunnelInvStep ==
  TunnelTypeOK /\ TunnelTypeOK' /\ TunnelInv /\ [TunnelNext]_tunnelVars => TunnelInv'
<1> SUFFICES ASSUME TunnelTypeOK, TunnelTypeOK', TunnelInv, [TunnelNext]_tunnelVars
             PROVE  TunnelInv'
  OBVIOUS
<1>1. ASSUME NEW w \in TunnelWorkers, Asks(w)
      PROVE  TunnelInv'
  <2>1. PICK c \in Connections, at \in {"create", "commit"}, by \in Grounds, a \in Nat :
               /\ Unused(c) /\ BeginRequest(w, at, c, by, a)
               /\ at = "commit" <=> c \in RecordTunnels
    BY <1>1, AskFacts
  <2>2. /\ desk'[w].at = at /\ desk'[w].c = c
        /\ \A v \in TunnelWorkers : v # w => desk'[v] = desk[v]
        /\ row' = row /\ router' = router
    <3>1. at \in {"create", "commit", "remove", "forget"}
      OBVIOUS
    <3>2. QED
      BY <2>1, <3>1, BeginDesk
  <2>3. row[c].status = "none" /\ ~row[c].provisioned
        /\ \A v \in TunnelWorkers : desk[v].c # c
    BY <2>1, RowFacts DEF Unused, TunnelInv, Row
  <2>4. TunnelRequest(w)'
    BY <2>1, <2>2, <2>3 DEF TunnelRequest
  <2>5. ASSUME NEW v \in TunnelWorkers, v # w
        PROVE  TunnelRequest(v)'
    BY <2>2, <2>3, <2>5 DEF TunnelInv, TunnelRequest
  <2>6. \A b \in Connections : Row(b)'
    BY <2>2 DEF TunnelInv, Row
  <2>7. QED
    BY <2>4, <2>5, <2>6 DEF TunnelInv
<1>2. ASSUME NEW w \in TunnelWorkers, NEW c \in Connections, RequestRevoke(w, c)
      PROVE  TunnelInv'
  <2>2. /\ \/ desk'[w].at = "remove"
           \/ desk'[w].at = "forget" /\ ~row[c].provisioned
        /\ desk'[w].c = c /\ row[c].status # "none"
        /\ \A v \in TunnelWorkers : v # w => desk'[v] = desk[v]
        /\ row' = row /\ router' = router
    BY <1>2, RevokeBegins
  <2>3. TunnelRequest(w)'
    BY <2>2 DEF TunnelRequest, TunnelInv, Row
  <2>4. ASSUME NEW v \in TunnelWorkers, v # w
        PROVE  TunnelRequest(v)'
    BY <2>2, <2>4 DEF TunnelInv, TunnelRequest
  <2>5. \A b \in Connections : Row(b)'
    BY <2>2 DEF TunnelInv, Row
  <2>6. QED
    BY <2>3, <2>4, <2>5 DEF TunnelInv
<1>3. ASSUME NEW w \in TunnelWorkers, CreateOnRouter(w) \/ CreateUnheard(w)
      PROVE  TunnelInv'
  <2> DEFINE c == desk[w].c
  <2>1. /\ desk[w].at = "create" /\ router' = router \cup {c} /\ row' = row
        /\ Go(w, "commit") \/ Stop(w)
    BY <1>3 DEF CreateOnRouter, CreateUnheard
  <2>2. c \in Connections
    BY <2>1, BusyDesk
  <2>3. /\ row[c].status = "none" /\ ~row[c].provisioned /\ c \notin RecordTunnels
        /\ \A v \in TunnelWorkers : v # w => desk[v].c # c
    BY <2>1 DEF TunnelInv, TunnelRequest
  <2>4. /\ \/ desk'[w].at = "commit" /\ desk'[w].c = c
           \/ desk'[w] = FreeDesk
        /\ \A v \in TunnelWorkers : v # w => desk'[v] = desk[v]
    BY <2>1, GoType, StopType
  <2>5. \A b \in Connections : Row(b)'
    BY <2>1, <2>3 DEF TunnelInv, Row
  <2>6. TunnelRequest(w)'
    BY <2>1, <2>3, <2>4 DEF TunnelRequest, FreeDesk
  <2>7. ASSUME NEW v \in TunnelWorkers, v # w
        PROVE  TunnelRequest(v)'
    <3>1. desk[v].at # "idle" => desk[v].c # FreeDesk.c
      BY BusyDesk, TunnelAssumption DEF FreeDesk
    <3>2. QED
      BY <2>1, <2>3, <2>4, <2>7, <3>1 DEF TunnelInv, TunnelRequest
  <2>8. QED
    BY <2>5, <2>6, <2>7 DEF TunnelInv
<1>4. ASSUME NEW w \in TunnelWorkers, RemoveFromRouter(w) \/ RemoveUnheard(w)
      PROVE  TunnelInv'
  <2> DEFINE c == desk[w].c
  <2>1. /\ desk[w].at = "remove" /\ router' = router \ {c} /\ row' = row
        /\ Go(w, "forget") \/ Stop(w)
    BY <1>4 DEF RemoveFromRouter, RemoveUnheard
  <2>2. row[c].status # "none" /\ c \in Connections
    BY <2>1, BusyDesk DEF TunnelInv, TunnelRequest
  <2>3. /\ \/ desk'[w].at = "forget" /\ desk'[w].c = c
           \/ desk'[w] = FreeDesk
        /\ \A v \in TunnelWorkers : v # w => desk'[v] = desk[v]
    BY <2>1, GoType, StopType
  <2>4. \A b \in Connections : Row(b)'
    BY <2>1 DEF TunnelInv, Row
  <2>5. TunnelRequest(w)'
    BY <2>1, <2>2, <2>3 DEF TunnelRequest, FreeDesk
  <2>6. ASSUME NEW v \in TunnelWorkers, v # w
        PROVE  TunnelRequest(v)'
    <3>1. desk[v].at # "idle" => desk[v].c # FreeDesk.c
      BY BusyDesk, TunnelAssumption DEF FreeDesk
    <3>2. desk[v].at \in {"create", "commit"} => desk[v].c # c
      BY <2>2 DEF TunnelInv, TunnelRequest
    <3>3. QED
      BY <2>1, <2>3, <2>6, <3>1, <3>2 DEF TunnelInv, TunnelRequest
  <2>7. QED
    BY <2>4, <2>5, <2>6 DEF TunnelInv
<1>5. ASSUME NEW w \in TunnelWorkers, CommitCreated(w)
      PROVE  TunnelInv'
  <2> DEFINE c == desk[w].c
  <2>1. /\ desk[w].at = "commit" /\ c \in Connections
        /\ row'[c].status = "active" /\ (row'[c].provisioned <=> c \notin RecordTunnels)
        /\ \A b \in Connections : b # c => row'[b] = row[b]
        /\ router' = router
    BY <1>5, CreatedRow DEF CommitCreated
  <2>2. desk'[w] = FreeDesk /\ \A v \in TunnelWorkers : v # w => desk'[v] = desk[v]
    BY <1>5, StopType DEF CommitCreated
  <2>3. \A v \in TunnelWorkers : v # w => desk[v].c # c
    BY <2>1 DEF TunnelInv, TunnelRequest
  <2>4. \A b \in Connections : Row(b)'
    BY <2>1 DEF TunnelInv, Row
  <2>5. TunnelRequest(w)'
    BY <2>2 DEF TunnelRequest, FreeDesk
  <2>6. ASSUME NEW v \in TunnelWorkers, v # w
        PROVE  TunnelRequest(v)'
    <3>1. /\ desk[v].at # "idle" => desk[v].c # FreeDesk.c
          /\ desk[v].at # "idle" => row'[desk[v].c] = row[desk[v].c]
      BY <2>1, <2>3, <2>6, BusyDesk, TunnelAssumption DEF FreeDesk
    <3>2. QED
      BY <2>1, <2>2, <2>6, <3>1 DEF TunnelInv, TunnelRequest
  <2>7. QED
    BY <2>4, <2>5, <2>6 DEF TunnelInv
<1>6. ASSUME NEW w \in TunnelWorkers, CommitRevoked(w)
      PROVE  TunnelInv'
  <2> DEFINE c == desk[w].c
  <2>1. /\ desk[w].at = "forget" /\ c \in Connections
        /\ row'[c].status = "revoked" /\ row'[c].provisioned = FALSE
        /\ \A b \in Connections : b # c => row'[b] = row[b]
        /\ router' = router
    BY <1>6, RevokedRow DEF CommitRevoked
  <2>2. desk'[w] = FreeDesk /\ \A v \in TunnelWorkers : v # w => desk'[v] = desk[v]
    BY <1>6, StopType DEF CommitRevoked
  <2>3. c \notin router /\ row[c].status # "none"
    BY <2>1 DEF TunnelInv, TunnelRequest
  <2>4. \A b \in Connections : Row(b)'
    BY <2>1, <2>3 DEF TunnelInv, Row
  <2>5. TunnelRequest(w)'
    BY <2>2 DEF TunnelRequest, FreeDesk
  <2>6. ASSUME NEW v \in TunnelWorkers, v # w
        PROVE  TunnelRequest(v)'
    <3>1. /\ desk[v].at # "idle" => desk[v].c # FreeDesk.c /\ desk[v].c \in Connections
          /\ desk[v].at \in {"create", "commit"} => desk[v].c # c
      BY <2>3, BusyDesk, TunnelAssumption DEF FreeDesk, TunnelInv, TunnelRequest
    <3>2. QED
      BY <2>1, <2>2, <2>6, <3>1 DEF TunnelInv, TunnelRequest
  <2>7. QED
    BY <2>4, <2>5, <2>6 DEF TunnelInv
<1>7. ASSUME NEW w \in TunnelWorkers, KeyTaken(w) \/ WorkerDies(w) \/ RouterRefuses(w)
      PROVE  TunnelInv'
  BY <1>7, StopStep DEF KeyTaken, WorkerDies, RouterRefuses
<1>8. ASSUME NEW c \in Connections, NEW s \in {"active", "suspended"}, SetTunnelStatus(c, s)
      PROVE  TunnelInv'
  <2>1. /\ row[c].status # "none" /\ ~row[c].provisioned
        /\ row'[c].status = s /\ row'[c].provisioned = FALSE
        /\ \A b \in Connections : b # c => row'[b] = row[b]
        /\ router' = router /\ desk' = desk
    BY <1>8, StatusRow
  <2>2. \A b \in Connections : Row(b)'
    BY <2>1 DEF TunnelInv, Row
  <2>3. ASSUME NEW v \in TunnelWorkers
        PROVE  TunnelRequest(v)'
    <3>1. desk[v].at # "idle" => desk[v].c \in Connections
      BY BusyDesk
    <3>2. desk[v].at \in {"create", "commit"} => desk[v].c # c
      BY <2>1 DEF TunnelInv, TunnelRequest
    <3>3. QED
      BY <2>1, <3>1, <3>2 DEF TunnelInv, TunnelRequest
  <2>4. QED
    BY <2>2, <2>3 DEF TunnelInv
<1>9. CASE UNCHANGED tunnelVars
  BY <1>9 DEF tunnelVars, TunnelInv, Row, TunnelRequest
<1>10. QED
  BY <1>1, <1>2, <1>3, <1>4, <1>5, <1>6, <1>7, <1>8, <1>9, TunnelCases

LEMMA TunnelInvariant == TunnelSpec => [](TunnelTypeOK /\ TunnelInv)
<1>1. QED
  BY TunnelInitType, TunnelNextType, TunnelInvInit, TunnelInvStep, PTL DEF TunnelSpec

\* A connection that is suspended or revoked is not let in by its node, however
\* requests overlap, replies are lost and workers die.
THEOREM OffStaysOff == TunnelSpec => []OffIsOff
<1>1. TunnelTypeOK /\ TunnelInv => OffIsOff
  BY DEF TunnelInv, Row, OffIsOff
<1>2. QED
  BY TunnelInvariant, <1>1, PTL

-----------------------------------------------------------------------------
(* Accounts and rows left behind *)

\* A mismatch that no request in progress is about to commit.  One that is belongs to
\* a worker that has changed the router, and only a fault keeps it from the commit.
Excused(c) == \E w \in TunnelWorkers : desk[w].at \in {"commit", "forget"} /\ desk[w].c = c
Left == {c \in Connections : (c \in router) # row[c].provisioned /\ ~Excused(c)}
StrayInv == Cardinality(Left) <= accidents

LEMMA LeftFinite == IsFiniteSet(Left)
  BY FS_Subset, TunnelAssumption DEF Left

\* A step adds no mismatch, or one with an accident.
LEMMA NoneLeft ==
  ASSUME TunnelTypeOK, StrayInv, Left' \subseteq Left, accidents' = accidents
  PROVE  StrayInv'
<1>1. Cardinality(Left') <= Cardinality(Left) /\ Cardinality(Left') \in Nat /\ Cardinality(Left) \in Nat
  BY LeftFinite, FS_Subset, FS_CardinalityType
<1>2. QED
  BY <1>1 DEF StrayInv, TunnelTypeOK

LEMMA OneLeft ==
  ASSUME TunnelTypeOK, StrayInv, NEW c, Left' \subseteq Left \cup {c},
         accidents' = accidents + 1
  PROVE  StrayInv'
<1> DEFINE L == Left
<1>0. IsFiniteSet(L) /\ Cardinality(L) \in Nat
  BY LeftFinite, FS_CardinalityType
<1> HIDE DEF L
<1>a. /\ IsFiniteSet(L \cup {c})
      /\ Cardinality(L \cup {c}) =
           IF c \in L THEN Cardinality(L) ELSE Cardinality(L) + 1
  BY <1>0, FS_AddElement
<1>b. IsFiniteSet(L \cup {c}) /\ Cardinality(L \cup {c}) <= Cardinality(L) + 1
      /\ Cardinality(L) \in Nat /\ Cardinality(L \cup {c}) \in Nat
  BY <1>0, <1>a
<1>1. IsFiniteSet(Left \cup {c}) /\ Cardinality(Left \cup {c}) <= Cardinality(Left) + 1
      /\ Cardinality(Left) \in Nat /\ Cardinality(Left \cup {c}) \in Nat
  BY <1>b DEF L
<1>2. Cardinality(Left') <= Cardinality(Left \cup {c}) /\ Cardinality(Left') \in Nat
  BY <1>1, FS_Subset, FS_CardinalityType
<1>3. QED
  BY <1>1, <1>2 DEF StrayInv, TunnelTypeOK

\* A desk that did not excuse anything is taken, or changed.
LEMMA DeskOnly ==
  ASSUME NEW w \in TunnelWorkers, desk[w].at \notin {"commit", "forget"},
         \A v \in TunnelWorkers : v # w => desk'[v] = desk[v],
         row' = row, router' = router
  PROVE  Left' \subseteq Left
<1>1. ASSUME NEW c, Excused(c) PROVE Excused(c)'
  BY <1>1 DEF Excused
<1>2. QED
  BY <1>1 DEF Left

LEMMA StrayInit == TunnelInit => StrayInv
<1> SUFFICES ASSUME TunnelInit PROVE StrayInv
  OBVIOUS
<1>1. ASSUME NEW c \in Connections PROVE (c \in router) = row[c].provisioned
  <2>1. row[c].provisioned = FALSE
    BY DEF TunnelInit, NoRow
  <2>2. (c \in router) = FALSE
    BY DEF TunnelInit
  <2>3. QED
    BY <2>1, <2>2
<1>2. Left = {}
  BY <1>1 DEF Left
<1>3. QED
  BY <1>2, FS_EmptySet DEF TunnelInit, StrayInv

LEMMA StrayStep ==
  TunnelTypeOK /\ TunnelInv /\ StrayInv /\ [TunnelNext]_tunnelVars => StrayInv'
<1> SUFFICES ASSUME TunnelTypeOK, TunnelInv, StrayInv, [TunnelNext]_tunnelVars
             PROVE  StrayInv'
  OBVIOUS
<1>1. ASSUME NEW w \in TunnelWorkers, Asks(w)
      PROVE  StrayInv'
  <2>1. PICK c \in Connections, at \in {"create", "commit"}, by \in Grounds, a \in Nat :
               BeginRequest(w, at, c, by, a)
    BY <1>1, AskFacts
  <2>2. at \in {"create", "commit", "remove", "forget"}
    OBVIOUS
  <2>3. /\ desk[w].at = "idle" /\ row' = row /\ router' = router
        /\ \A v \in TunnelWorkers : v # w => desk'[v] = desk[v]
    BY <2>1, <2>2, BeginDesk
  <2>4. accidents' = accidents
    BY <2>1 DEF BeginRequest
  <2>5. QED
    BY <2>3, <2>4, DeskOnly, NoneLeft
<1>2. ASSUME NEW w \in TunnelWorkers, NEW c \in Connections, RequestRevoke(w, c)
      PROVE  StrayInv'
  <2>1. accidents' = accidents
    BY <1>2 DEF RequestRevoke, BeginRequest
  <2>2. QED
    BY <1>2, <2>1, RevokeBegins, DeskOnly, NoneLeft
<1>3. ASSUME NEW w \in TunnelWorkers, CreateOnRouter(w) \/ RemoveFromRouter(w)
      PROVE  StrayInv'
  <2>0. PICK c \in Connections : c = desk[w].c
    BY <1>3, BusyDesk DEF CreateOnRouter, RemoveFromRouter
  <2>1. /\ desk[w].at \in {"create", "remove"} /\ row' = row /\ accidents' = accidents
        /\ router' \in {router \cup {c}, router \ {c}}
        /\ Go(w, "commit") \/ Go(w, "forget")
    BY <1>3, <2>0 DEF CreateOnRouter, RemoveFromRouter
  <2>2. /\ desk'[w].at \in {"commit", "forget"} /\ desk'[w].c = c
        /\ \A v \in TunnelWorkers : v # w => desk'[v] = desk[v]
    BY <2>0, <2>1, GoType
  <2>3. \A b : Excused(b) => Excused(b)'
    BY <2>1, <2>2 DEF Excused
  <2>4. Excused(c)'
    BY <2>2 DEF Excused
  <2>5. ASSUME NEW b \in Connections, b # c
        PROVE  (b \in router') = (b \in router)
    BY <2>1, <2>5
  <2>6. ASSUME NEW b \in Left'
        PROVE  b \in Left
    <3>1. b \in Connections /\ (b \in router') # row[b].provisioned /\ ~Excused(b)'
      BY <2>1, <2>6 DEF Left
    <3>2. b # c /\ ~Excused(b)
      BY <3>1, <2>3, <2>4
    <3>3. (b \in router) # row[b].provisioned
      BY <3>1, <3>2, <2>5
    <3>4. QED
      BY <3>1, <3>2, <3>3 DEF Left
  <2>7. Left' \subseteq Left
    BY <2>6
  <2>8. QED
    BY <2>1, <2>7, NoneLeft
<1>4. ASSUME NEW w \in TunnelWorkers,
             CreateUnheard(w) \/ RemoveUnheard(w) \/ KeyTaken(w) \/ WorkerDies(w)
      PROVE  StrayInv'
  <2> DEFINE c == desk[w].c
  <2>1. /\ row' = row /\ RouterFault /\ Stop(w)
        /\ router' \in {router, router \cup {c}, router \ {c}}
    BY <1>4 DEF CreateUnheard, RemoveUnheard, KeyTaken, WorkerDies
  <2>2. \A v \in TunnelWorkers : v # w => desk'[v] = desk[v]
    BY <2>1, StopType
  <2>3. \A b : b # c /\ Excused(b) => Excused(b)'
    BY <2>2 DEF Excused
  <2>4. Left' \subseteq Left \cup {c}
    BY <2>1, <2>3 DEF Left
  <2>5. QED
    BY <2>1, <2>4, AccidentFacts, OneLeft
<1>5. ASSUME NEW w \in TunnelWorkers, RouterRefuses(w)
      PROVE  StrayInv'
  <2>1. /\ desk[w].at \notin {"commit", "forget"} /\ row' = row /\ router' = router
        /\ Stop(w) /\ accidents' = accidents
    BY <1>5 DEF RouterRefuses
  <2>2. QED
    BY <2>1, StopType, DeskOnly, NoneLeft
<1>6. ASSUME NEW w \in TunnelWorkers, CommitCreated(w)
      PROVE  StrayInv'
  <2> DEFINE c == desk[w].c
  <2>1. /\ c \in Connections /\ (row'[c].provisioned <=> c \notin RecordTunnels)
        /\ \A b \in Connections : b # c => row'[b] = row[b]
        /\ desk[w].at = "commit" /\ row' \in [Connections -> ConnectionRow]
    BY <1>6, CreatedRow
  <2>2. c \in router <=> c \notin RecordTunnels
    BY <2>1 DEF TunnelInv, Row, TunnelRequest
  <2>3. router' = router /\ Stop(w) /\ accidents' = accidents
    BY <1>6 DEF CommitCreated
  <2>4. \A v \in TunnelWorkers : v # w => desk'[v] = desk[v]
    BY <2>3, StopType
  <2>5. \A b : b # c /\ Excused(b) => Excused(b)'
    BY <2>4 DEF Excused
  <2>6. c \notin Left'
    <3>1. row'[c].provisioned \in BOOLEAN
      BY <2>1 DEF ConnectionRow
    <3>2. (c \in router') = row'[c].provisioned
      BY <2>1, <2>2, <2>3, <3>1
    <3>3. QED
      BY <3>2 DEF Left
  <2>7. Left' \subseteq Left
    BY <2>1, <2>3, <2>5, <2>6 DEF Left
  <2>8. QED
    BY <2>3, <2>7, NoneLeft
<1>7. ASSUME NEW w \in TunnelWorkers, CommitRevoked(w)
      PROVE  StrayInv'
  <2> DEFINE c == desk[w].c
  <2>1. /\ c \in Connections /\ row'[c].provisioned = FALSE
        /\ \A b \in Connections : b # c => row'[b] = row[b]
        /\ desk[w].at = "forget"
    BY <1>7, RevokedRow
  <2>2. c \notin router
    BY <2>1 DEF TunnelInv, TunnelRequest
  <2>3. router' = router /\ Stop(w) /\ accidents' = accidents
    BY <1>7 DEF CommitRevoked
  <2>4. \A v \in TunnelWorkers : v # w => desk'[v] = desk[v]
    BY <2>3, StopType
  <2>5. \A b : b # c /\ Excused(b) => Excused(b)'
    BY <2>4 DEF Excused
  <2>6. c \notin Left'
    <3>1. (c \in router') = FALSE
      BY <2>2, <2>3
    <3>2. (c \in router') = row'[c].provisioned
      BY <3>1, <2>1
    <3>3. QED
      BY <3>2 DEF Left
  <2>7. Left' \subseteq Left
    BY <2>1, <2>3, <2>5, <2>6 DEF Left
  <2>8. QED
    BY <2>3, <2>7, NoneLeft
<1>8. ASSUME NEW c \in Connections, NEW s \in {"active", "suspended"}, SetTunnelStatus(c, s)
      PROVE  StrayInv'
  <2>1. /\ row'[c].provisioned = row[c].provisioned
        /\ \A b \in Connections : b # c => row'[b] = row[b]
        /\ router' = router /\ desk' = desk /\ accidents' = accidents
    BY <1>8, StatusRow, RowFacts
  <2>2. Left' \subseteq Left
    BY <2>1 DEF Left, Excused
  <2>3. QED
    BY <2>1, <2>2, NoneLeft
<1>9. CASE UNCHANGED tunnelVars
  <2>1. Left' = Left /\ accidents' = accidents
    BY <1>9 DEF tunnelVars, Left, Excused
  <2>2. QED
    BY <2>1 DEF StrayInv
<1>10. QED
  BY <1>1, <1>2, <1>3, <1>4, <1>5, <1>6, <1>7, <1>8, <1>9, TunnelCases

\* No more accounts than accidents are without a row or rows without an account, apart
\* from the requests in progress, however requests overlap.
THEOREM StraysNeedFaults == TunnelSpec => []StraysAreFaults
<1>1. TunnelTypeOK /\ TunnelInv /\ StrayInv => StraysAreFaults
  <2> SUFFICES ASSUME TunnelTypeOK, StrayInv PROVE StraysAreFaults
    OBVIOUS
  <2> DEFINE S == {c \in Connections : /\ (c \in router) # row[c].provisioned
                                       /\ \A w \in TunnelWorkers : desk[w].c # c}
  <2>1. S \subseteq Left
    BY DEF Left, Excused
  <2>2. Cardinality(S) <= Cardinality(Left) /\ Cardinality(S) \in Nat /\ Cardinality(Left) \in Nat
    BY <2>1, LeftFinite, FS_Subset, FS_CardinalityType
  <2>3. Cardinality(S) <= accidents
    BY <2>2 DEF StrayInv, TunnelTypeOK
  <2>4. QED
    BY <2>3 DEF StraysAreFaults
<1>2. QED
  BY TunnelInvariant, StrayInit, StrayStep, <1>1, PTL DEF TunnelSpec

-----------------------------------------------------------------------------
(* Addresses that are allocated *)

Holders == {q \in Live(Peers) : row[q].by # "unseen"}

\* AllocatedIsFree is not inductive: a request that is alone must still find the
\* address it has chosen free when it commits.
AddressInv ==
    /\ crossings = 0 => \A v, w \in TunnelWorkers :
         desk[v].at # "idle" /\ desk[w].at # "idle" => v = w
    /\ crossings + revived = 0 => \A w \in TunnelWorkers, q \in Holders :
         desk[w].at \in {"create", "commit"} /\ desk[w].by = "allocated"
         => row[q].address # desk[w].address

LEMMA AddressInit == TunnelInit => AddressInv
  BY DEF TunnelInit, AddressInv, FreeDesk

\* A busy worker goes on or stops, and no peer becomes live.
LEMMA DeskGoesOn ==
  ASSUME TunnelTypeOK, TunnelTypeOK', AddressInv, NEW w \in TunnelWorkers,
         desk[w].at # "idle",
         \/ desk'[w].at \notin {"create", "commit"}
         \/ /\ desk[w].at \in {"create", "commit"}
            /\ desk'[w].by = desk[w].by /\ desk'[w].address = desk[w].address,
         \A v \in TunnelWorkers : v # w => desk'[v] = desk[v],
         row' = row, crossings' = crossings, revived' = revived
  PROVE  AddressInv'
<1>1. Holders' = Holders
  BY DEF Holders, Live
<1>2. QED
  BY <1>1 DEF AddressInv

\* A worker commits, and the others hold what they held.
LEMMA DeskCommits ==
  ASSUME TunnelTypeOK, AddressInv, NEW w \in TunnelWorkers, desk[w].at # "idle", Stop(w),
         crossings' = crossings, revived' = revived
  PROVE  /\ AddressInv'
         /\ crossings = 0 => \A v \in TunnelWorkers : desk'[v].at = "idle"
<1>1. desk'[w] = FreeDesk /\ \A v \in TunnelWorkers : v # w => desk'[v] = desk[v]
  BY StopType
<1>2. crossings = 0 => \A v \in TunnelWorkers : desk'[v].at = "idle"
  BY <1>1 DEF AddressInv, FreeDesk
<1>3. crossings' + revived' = 0 => crossings = 0
  BY DEF TunnelTypeOK
<1>4. \A v, u \in TunnelWorkers :
          crossings' = 0 /\ desk'[v].at # "idle" /\ desk'[u].at # "idle" => v = u
  BY <1>2
<1>5. QED
  BY <1>2, <1>3, <1>4 DEF AddressInv

LEMMA BothZero == \A x, y \in Nat : x + y = 0 => x = 0 /\ y = 0
  OBVIOUS

LEMMA SumZero ==
  ASSUME TunnelTypeOK'
  PROVE  crossings' + revived' = 0 => crossings' = 0 /\ revived' = 0
<1>1. crossings' \in Nat /\ revived' \in Nat
  BY DEF TunnelTypeOK
<1>2. QED
  BY <1>1, BothZero

LEMMA AddressStep ==
  TunnelTypeOK /\ TunnelTypeOK' /\ AddressInv /\ [TunnelNext]_tunnelVars => AddressInv'
<1> SUFFICES ASSUME TunnelTypeOK, TunnelTypeOK', AddressInv, [TunnelNext]_tunnelVars
             PROVE  AddressInv'
  OBVIOUS
<1>1. ASSUME NEW w \in TunnelWorkers, Asks(w)
      PROVE  AddressInv'
  <2>1. PICK c \in Connections, at \in {"create", "commit"}, by \in Grounds, a \in Nat :
               BeginRequest(w, at, c, by, a) /\ (by = "allocated" => a \in FreeAddresses)
    BY <1>1, AskFacts
  <2>2. at \in {"create", "commit", "remove", "forget"}
    OBVIOUS
  <2>3. /\ desk'[w].by = by /\ desk'[w].address = a /\ row' = row /\ revived' = revived
        /\ \A v \in TunnelWorkers : v # w => desk'[v] = desk[v]
        /\ \/ \A v \in TunnelWorkers : desk[v].at = "idle"
           \/ crossings' = crossings + 1
    <3>1. BeginRequest(w, at, c, by, a)
      BY <2>1
    <3>2. /\ desk'[w].by = by /\ desk'[w].address = a
          /\ \A v \in TunnelWorkers : v # w => desk'[v] = desk[v]
      BY <2>2, <3>1, BeginDesk
    <3>3. /\ row' = row /\ revived' = revived
          /\ \/ \A v \in TunnelWorkers : desk[v].at = "idle"
             \/ crossings' = crossings + 1
      BY <3>1 DEF BeginRequest
    <3>4. QED
      BY <3>2, <3>3
  <2>4. crossings' = 0 => \A v \in TunnelWorkers : desk[v].at = "idle"
    BY <2>3 DEF TunnelTypeOK
  <2>5. Holders' = Holders
    BY <2>3 DEF Holders, Live
  <2>6. by = "allocated" => \A q \in Holders : row[q].address # a
    BY <2>1 DEF FreeAddresses, Holders
  <2>7. crossings' + revived' = 0 => crossings' = 0
    BY SumZero
  <2>8. QED
    BY <2>3, <2>4, <2>5, <2>6, <2>7 DEF AddressInv
<1>2. ASSUME NEW w \in TunnelWorkers, NEW c \in Connections, RequestRevoke(w, c)
      PROVE  AddressInv'
  <2>1. /\ desk'[w].at \notin {"create", "commit"} /\ row' = row
        /\ \A v \in TunnelWorkers : v # w => desk'[v] = desk[v]
    BY <1>2, RevokeBegins
  <2>2. /\ revived' = revived
        /\ \/ \A v \in TunnelWorkers : desk[v].at = "idle"
           \/ crossings' = crossings + 1
    BY <1>2 DEF RequestRevoke, BeginRequest
  <2>3. crossings' = 0 => \A v \in TunnelWorkers : desk[v].at = "idle"
    BY <2>2 DEF TunnelTypeOK
  <2>4. Holders' = Holders
    BY <2>1, <2>2 DEF Holders, Live
  <2>5. crossings' + revived' = 0 => crossings' = 0
    BY SumZero
  <2>6. QED
    BY <2>1, <2>3, <2>4, <2>5 DEF AddressInv
<1>3. ASSUME NEW w \in TunnelWorkers, CreateOnRouter(w) \/ RemoveFromRouter(w)
      PROVE  AddressInv'
  <2>1. /\ desk[w].at # "idle" /\ row' = row /\ crossings' = crossings /\ revived' = revived
        /\ \/ desk[w].at = "create" /\ Go(w, "commit")
           \/ Go(w, "forget")
    BY <1>3 DEF CreateOnRouter, RemoveFromRouter
  <2>2. /\ \A v \in TunnelWorkers : v # w => desk'[v] = desk[v]
        /\ desk'[w].by = desk[w].by /\ desk'[w].address = desk[w].address
        /\ desk'[w].at \notin {"create", "commit"} \/ desk[w].at = "create"
    BY <2>1, GoType
  <2>3. QED
    BY <2>1, <2>2, DeskGoesOn
<1>4. ASSUME NEW w \in TunnelWorkers,
             \/ CreateUnheard(w) \/ RemoveUnheard(w) \/ KeyTaken(w) \/ WorkerDies(w)
             \/ RouterRefuses(w)
      PROVE  AddressInv'
  <2>1. desk[w].at # "idle" /\ Stop(w) /\ crossings' = crossings /\ revived' = revived
    BY <1>4 DEF CreateUnheard, RemoveUnheard, KeyTaken, WorkerDies, RouterRefuses
  <2>2. QED
    BY <2>1, DeskCommits
<1>5. ASSUME NEW w \in TunnelWorkers, CommitCreated(w) \/ CommitRevoked(w)
      PROVE  AddressInv'
  <2>1. desk[w].at # "idle" /\ Stop(w) /\ crossings' = crossings /\ revived' = revived
    BY <1>5 DEF CommitCreated, CommitRevoked
  <2>2. QED
    BY <2>1, DeskCommits
<1>6. ASSUME NEW c \in Connections, NEW s \in {"active", "suspended"}, SetTunnelStatus(c, s)
      PROVE  AddressInv'
  <2>1. /\ row[c].status # "none" /\ row'[c].by = row[c].by /\ row'[c].address = row[c].address
        /\ \A b \in Connections : b # c => row'[b] = row[b]
        /\ row[c].status = "revoked" => revived' = revived + 1
        /\ row[c].status # "revoked" => revived' = revived
        /\ desk' = desk /\ crossings' = crossings
    BY <1>6, StatusRow
  <2>2. revived' = 0 => row[c].status \in {"active", "suspended"}
    BY <2>1 DEF TunnelTypeOK, ConnectionRow
  <2>3. crossings' + revived' = 0 => crossings + revived = 0 /\ revived' = 0
    <3>1. revived' = revived \/ revived' = revived + 1
      BY <2>1
    <3>2. crossings \in Nat /\ revived \in Nat /\ crossings' = crossings
      BY <2>1 DEF TunnelTypeOK
    <3>3. QED
      BY <3>1, <3>2
  <2>4. revived' = 0 => Holders' \subseteq Holders
    BY <2>1, <2>2 DEF Holders, Live, Connections
  <2>5. \A q \in Peers : row'[q].address = row[q].address
    BY <2>1 DEF Connections
  <2>6. QED
    BY <2>1, <2>3, <2>4, <2>5 DEF AddressInv, Holders, Live
<1>7. CASE UNCHANGED tunnelVars
  BY <1>7 DEF tunnelVars, AddressInv, Holders, Live
<1>8. QED
  BY <1>1, <1>2, <1>3, <1>4, <1>5, <1>6, <1>7, TunnelCases

\* A peer that the allocator serves has an address no live peer has, as long as no
\* requests overlap and no revoked peer is revived, whatever the router answers.
THEOREM AddressesAreFree == TunnelSpec => AllocatedIsFree
<1> DEFINE Free == \A p, q \in Peers :
          /\ crossings + revived = 0 /\ row[p].status = "none" /\ row'[p].status = "active"
          /\ row'[p].by = "allocated" /\ row[q].status \in {"active", "suspended"}
          /\ row[q].by # "unseen"
          => row'[p].address # row[q].address
<1>1. TunnelTypeOK /\ AddressInv /\ [TunnelNext]_tunnelVars => Free
  <2> SUFFICES ASSUME TunnelTypeOK, AddressInv, [TunnelNext]_tunnelVars,
                      NEW p \in Peers, NEW q \in Holders, crossings + revived = 0,
                      row[p].status = "none", row'[p].status = "active",
                      row'[p].by = "allocated"
               PROVE  row'[p].address # row[q].address
    BY DEF Free, Holders, Live
  <2>1. p \in Connections /\ row' # row
    BY DEF Connections
  <2>2. ASSUME NEW w \in TunnelWorkers, CommitCreated(w)
        PROVE  row'[p].address # row[q].address
    <3>1. desk[w].at = "commit" /\ p = desk[w].c
      BY <2>1, <2>2, CreatedRow
    <3>2. row'[p].by = desk[w].by /\ row'[p].address = desk[w].address
      BY <2>2, <3>1, CreatedRow
    <3>3. QED
      BY <3>1, <3>2 DEF AddressInv
  <2>3. ASSUME NEW w \in TunnelWorkers, CommitRevoked(w)
        PROVE  FALSE
    BY <2>1, <2>3, RevokedRow
  <2>4. ASSUME NEW c \in Connections, NEW s \in {"active", "suspended"}, SetTunnelStatus(c, s)
        PROVE  FALSE
    BY <2>1, <2>4, StatusRow
  <2>5. QED
    BY <2>1, <2>2, <2>3, <2>4
       DEF TunnelNext, tunnelVars, RequestTunnel, ApproveIpChange, RequestPeer,
           RequestTypedPeer, BeginRequest, CreateOnRouter, CreateUnheard, KeyTaken,
           RequestRevoke, RemoveFromRouter, RemoveUnheard, RouterRefuses, WorkerDies
<1>2. TunnelSpec => [](TunnelTypeOK /\ AddressInv)
  BY TunnelInitType, TunnelNextType, AddressInit, AddressStep, PTL DEF TunnelSpec
<1>3. TunnelTypeOK /\ AddressInv /\ [TunnelNext]_tunnelVars => [Free]_tunnelVars
  BY <1>1
<1>4. TunnelSpec => [][Free]_tunnelVars
  BY <1>2, <1>3, PTL DEF TunnelSpec
<1>5. QED
  BY <1>4 DEF AllocatedIsFree, Free

-----------------------------------------------------------------------------
(* The allowance *)

\* AllowanceKept is not inductive: a tunnel that a request has been allowed counts
\* from then on, although its row comes later.
Asked(t) == \E w \in TunnelWorkers :
    desk[w].at \in {"create", "commit"} /\ desk[w].c = t /\ desk[w].by = "allowance"
Has(t) == row[t].status \in {"active", "suspended"} /\ row[t].by = "allowance"
Claimed == {t \in Tunnels : Asked(t) \/ Has(t)}
ClaimInv == Cardinality(Claimed) <= Allowance + crossings + revived

LEMMA ClaimedFinite == IsFiniteSet(Claimed) /\ IsFiniteSet(Live(Tunnels))
  BY FS_Subset, TunnelAssumption DEF Claimed, Connections, Live

LEMMA ClaimInit == TunnelInit => ClaimInv
<1> SUFFICES ASSUME TunnelInit PROVE ClaimInv
  OBVIOUS
<1>1. \A t \in Tunnels : row[t].status = "none"
  BY DEF TunnelInit, NoRow, Connections
<1>2. Claimed = {}
  BY <1>1 DEF TunnelInit, Claimed, Asked, Has, FreeDesk
<1>3. QED
  BY <1>2, FS_EmptySet, TunnelAssumption DEF TunnelInit, ClaimInv

\* A step claims no tunnel, or one with an overlap or a revival.
LEMMA NoClaim ==
  ASSUME TunnelTypeOK, TunnelTypeOK', ClaimInv, Claimed' \subseteq Claimed,
         crossings' >= crossings, revived' >= revived
  PROVE  ClaimInv'
<1>1. /\ Cardinality(Claimed') <= Cardinality(Claimed)
      /\ Cardinality(Claimed') \in Nat /\ Cardinality(Claimed) \in Nat
  BY ClaimedFinite, FS_Subset, FS_CardinalityType
<1>2. Allowance \in Nat /\ crossings \in Nat /\ crossings' \in Nat
      /\ revived \in Nat /\ revived' \in Nat
  BY TunnelAssumption DEF TunnelTypeOK
<1>3. QED
  BY <1>1, <1>2 DEF ClaimInv

LEMMA OneClaim ==
  ASSUME TunnelTypeOK, ClaimInv, NEW c, Claimed' \subseteq Claimed \cup {c},
         crossings' + revived' = crossings + revived + 1,
         crossings' \in Nat, revived' \in Nat
  PROVE  ClaimInv'
<1> DEFINE C == Claimed
<1>1. IsFiniteSet(C) /\ Cardinality(C) \in Nat
  BY ClaimedFinite, FS_CardinalityType
<1> HIDE DEF C
<1>2. /\ IsFiniteSet(C \cup {c})
      /\ Cardinality(C \cup {c}) = IF c \in C THEN Cardinality(C) ELSE Cardinality(C) + 1
  BY <1>1, FS_AddElement
<1>3. Cardinality(Claimed') <= Cardinality(C \cup {c}) /\ Cardinality(Claimed') \in Nat
      /\ Cardinality(C \cup {c}) \in Nat
  BY <1>2, FS_Subset, FS_CardinalityType DEF C
<1>4. Cardinality(C) <= Allowance + crossings + revived
  BY DEF ClaimInv, C
<1>5. Allowance \in Nat /\ crossings \in Nat /\ revived \in Nat
  BY TunnelAssumption DEF TunnelTypeOK
<1>6. Cardinality(C \cup {c}) <= Cardinality(C) + 1
  BY <1>1, <1>2
<1>7. Cardinality(Claimed') <= Allowance + crossings + revived + 1
  BY <1>1, <1>3, <1>4, <1>5, <1>6
<1>8. \A k, a, x, y, u, v \in Nat :
          k <= a + x + y + 1 /\ u + v = x + y + 1 => k <= a + u + v
  OBVIOUS
<1> DEFINE k == Cardinality(Claimed')
           u == crossings'
           v == revived'
<1>9. k \in Nat /\ u \in Nat /\ v \in Nat /\ u + v = crossings + revived + 1
      /\ k <= Allowance + crossings + revived + 1
  BY <1>3, <1>7
<1> HIDE DEF k, u, v
<1>10. k <= Allowance + u + v
  BY <1>5, <1>8, <1>9
<1>11. QED
  BY <1>10 DEF ClaimInv, k, u, v

\* A request that is alone and finds the allowance not used up.
LEMMA FirstClaim ==
  ASSUME TunnelTypeOK, TunnelTypeOK', \A t \in Tunnels : ~Asked(t), NEW c,
         Claimed' \subseteq Claimed \cup {c}, Cardinality(Live(Tunnels)) < Allowance
  PROVE  ClaimInv'
<1> DEFINE L == Live(Tunnels)
<1>1. IsFiniteSet(L) /\ Cardinality(L) \in Nat
  BY ClaimedFinite, FS_CardinalityType
<1>2. Claimed' \subseteq L \cup {c}
  BY DEF Claimed, Has, Live
<1> HIDE DEF L
<1>3. /\ IsFiniteSet(L \cup {c})
      /\ Cardinality(L \cup {c}) = IF c \in L THEN Cardinality(L) ELSE Cardinality(L) + 1
  BY <1>1, FS_AddElement
<1>4. Cardinality(Claimed') <= Cardinality(L \cup {c}) /\ Cardinality(Claimed') \in Nat
      /\ Cardinality(L \cup {c}) \in Nat
  BY <1>2, <1>3, FS_Subset, FS_CardinalityType
<1>5. Cardinality(L) < Allowance /\ Allowance \in Nat
  BY TunnelAssumption DEF L
<1>6. Cardinality(L \cup {c}) <= Cardinality(L) + 1
  BY <1>1, <1>3
<1>7. crossings' \in Nat /\ revived' \in Nat
  BY DEF TunnelTypeOK
<1>8. Cardinality(Claimed') <= Allowance + crossings' + revived'
  BY <1>1, <1>4, <1>5, <1>6, <1>7
<1>9. QED
  BY <1>8 DEF ClaimInv

\* A busy worker goes on with the same request, or stops, and writes no row.
LEMMA DeskClaims ==
  ASSUME TunnelTypeOK, NEW w \in TunnelWorkers,
         \/ desk'[w].at \notin {"create", "commit"}
         \/ /\ desk[w].at \in {"create", "commit"}
            /\ desk'[w].c = desk[w].c /\ desk'[w].by = desk[w].by,
         \A v \in TunnelWorkers : v # w => desk'[v] = desk[v],
         row' = row
  PROVE  Claimed' \subseteq Claimed
<1>1. ASSUME NEW t, Asked(t)' PROVE Asked(t)
  BY <1>1 DEF Asked
<1>2. ASSUME NEW t, Has(t)' PROVE Has(t)
  BY <1>2 DEF Has
<1>3. QED
  BY <1>1, <1>2 DEF Claimed

LEMMA ClaimStep ==
  TunnelTypeOK /\ TunnelTypeOK' /\ ClaimInv /\ [TunnelNext]_tunnelVars => ClaimInv'
<1> SUFFICES ASSUME TunnelTypeOK, TunnelTypeOK', ClaimInv, [TunnelNext]_tunnelVars
             PROVE  ClaimInv'
  OBVIOUS
<1>0. /\ crossings \in Nat /\ crossings' \in Nat
      /\ revived \in Nat /\ revived' \in Nat
  BY DEF TunnelTypeOK
<1>1. ASSUME NEW w \in TunnelWorkers, Asks(w)
      PROVE  ClaimInv'
  <2>1. PICK c \in Connections, at \in {"create", "commit"}, by \in Grounds, a \in Nat :
               /\ BeginRequest(w, at, c, by, a)
               /\ by = "allowance" => Cardinality(Live(Tunnels)) < Allowance
    BY <1>1, AskFacts
  <2>2. BeginRequest(w, at, c, by, a) /\ at \in {"create", "commit", "remove", "forget"}
    BY <2>1
  <2>3. /\ desk'[w].c = c /\ desk'[w].by = by /\ row' = row
        /\ \A v \in TunnelWorkers : v # w => desk'[v] = desk[v]
    BY <2>2, BeginDesk
  <2>4. /\ revived' = revived
        /\ \/ crossings' = crossings /\ \A v \in TunnelWorkers : desk[v].at = "idle"
           \/ crossings' = crossings + 1
    BY <2>2 DEF BeginRequest
  <2>5. \A t : Has(t)' = Has(t)
    BY <2>3 DEF Has
  <2>6. \A t : Asked(t)' => Asked(t) \/ (t = c /\ by = "allowance")
    BY <2>3 DEF Asked
  <2>7. CASE by # "allowance"
    <3>1. Claimed' \subseteq Claimed
      BY <2>5, <2>6, <2>7 DEF Claimed
    <3>2. crossings' >= crossings /\ revived' >= revived
      BY <1>0, <2>4
    <3>3. QED
      BY <3>1, <3>2, NoClaim
  <2>8. CASE by = "allowance" /\ crossings' = crossings + 1
    <3>1. Claimed' \subseteq Claimed \cup {c}
      BY <2>5, <2>6 DEF Claimed
    <3>2. crossings' + revived' = crossings + revived + 1
      BY <1>0, <2>4, <2>8
    <3>3. QED
      BY <1>0, <3>1, <3>2, OneClaim
  <2>9. CASE by = "allowance" /\ \A v \in TunnelWorkers : desk[v].at = "idle"
    <3>1. Claimed' \subseteq Claimed \cup {c}
      BY <2>5, <2>6 DEF Claimed
    <3>2. \A t \in Tunnels : ~Asked(t)
      BY <2>9 DEF Asked
    <3>3. QED
      BY <2>1, <2>9, <3>1, <3>2, FirstClaim
  <2>10. QED
    BY <2>4, <2>7, <2>8, <2>9
<1>2. ASSUME NEW w \in TunnelWorkers, NEW c \in Connections, RequestRevoke(w, c)
      PROVE  ClaimInv'
  <2>1. /\ desk'[w].at \notin {"create", "commit"} /\ row' = row
        /\ \A v \in TunnelWorkers : v # w => desk'[v] = desk[v]
    BY <1>2, RevokeBegins
  <2>2. revived' = revived /\ (crossings' = crossings \/ crossings' = crossings + 1)
    BY <1>2 DEF RequestRevoke, BeginRequest
  <2>3. crossings' >= crossings /\ revived' >= revived
    BY <1>0, <2>2
  <2>4. QED
    BY <2>1, <2>3, DeskClaims, NoClaim
<1>3. ASSUME NEW w \in TunnelWorkers, CreateOnRouter(w) \/ RemoveFromRouter(w)
      PROVE  ClaimInv'
  <2>1. /\ desk[w].at # "idle" /\ row' = row /\ crossings' = crossings /\ revived' = revived
        /\ \/ desk[w].at = "create" /\ Go(w, "commit")
           \/ Go(w, "forget")
    BY <1>3 DEF CreateOnRouter, RemoveFromRouter
  <2>2. /\ \A v \in TunnelWorkers : v # w => desk'[v] = desk[v]
        /\ desk'[w].by = desk[w].by /\ desk'[w].c = desk[w].c
        /\ desk'[w].at \notin {"create", "commit"} \/ desk[w].at = "create"
    BY <2>1, GoType
  <2>3. QED
    BY <1>0, <2>1, <2>2, DeskClaims, NoClaim
<1>4. ASSUME NEW w \in TunnelWorkers,
             \/ CreateUnheard(w) \/ RemoveUnheard(w) \/ KeyTaken(w) \/ WorkerDies(w)
             \/ RouterRefuses(w)
      PROVE  ClaimInv'
  <2>1. row' = row /\ Stop(w) /\ crossings' = crossings /\ revived' = revived
    BY <1>4 DEF CreateUnheard, RemoveUnheard, KeyTaken, WorkerDies, RouterRefuses
  <2>2. QED
    BY <1>0, <2>1, StopType, DeskClaims, NoClaim DEF FreeDesk
<1>5. ASSUME NEW w \in TunnelWorkers, CommitCreated(w)
      PROVE  ClaimInv'
  <2>1. Stop(w) /\ crossings' = crossings /\ revived' = revived
    BY <1>5 DEF CommitCreated
  <2>2. desk'[w].at = "idle" /\ \A v \in TunnelWorkers : v # w => desk'[v] = desk[v]
    BY <2>1, StopType DEF FreeDesk
  <2>3. \A t : Asked(t)' => Asked(t)
    BY <2>2 DEF Asked
  <2>4. ASSUME NEW t \in Tunnels, Has(t)'
        PROVE  Has(t) \/ Asked(t)
    <3>1. CASE t = desk[w].c
      <4>1. desk[w].at = "commit" /\ desk[w].by = "allowance"
        BY <1>5, <2>4, <3>1, CreatedRow DEF Has
      <4>2. QED
        BY <3>1, <4>1 DEF Asked
    <3>2. CASE t # desk[w].c
      <4>1. row'[t] = row[t]
        BY <1>5, <3>2, CreatedRow DEF Connections
      <4>2. QED
        BY <2>4, <4>1 DEF Has
    <3>3. QED
      BY <3>1, <3>2
  <2>5. Claimed' \subseteq Claimed
    BY <2>3, <2>4 DEF Claimed
  <2>6. QED
    BY <1>0, <2>1, <2>5, NoClaim
<1>6. ASSUME NEW w \in TunnelWorkers, CommitRevoked(w)
      PROVE  ClaimInv'
  <2>1. Stop(w) /\ crossings' = crossings /\ revived' = revived
    BY <1>6 DEF CommitRevoked
  <2>2. desk'[w].at = "idle" /\ \A v \in TunnelWorkers : v # w => desk'[v] = desk[v]
    BY <2>1, StopType DEF FreeDesk
  <2>3. \A t : Asked(t)' => Asked(t)
    BY <2>2 DEF Asked
  <2>4. ASSUME NEW t \in Tunnels, Has(t)'
        PROVE  Has(t)
    <3>1. t # desk[w].c /\ t \in Connections
      BY <1>6, <2>4, RevokedRow DEF Has, Connections
    <3>2. QED
      BY <1>6, <2>4, <3>1, RevokedRow DEF Has
  <2>5. Claimed' \subseteq Claimed
    BY <2>3, <2>4 DEF Claimed
  <2>6. QED
    BY <1>0, <2>1, <2>5, NoClaim
<1>7. ASSUME NEW c \in Connections, NEW s \in {"active", "suspended"}, SetTunnelStatus(c, s)
      PROVE  ClaimInv'
  <2>1. /\ row[c].status # "none" /\ row'[c].by = row[c].by
        /\ \A b \in Connections : b # c => row'[b] = row[b]
        /\ row[c].status = "revoked" => revived' = revived + 1
        /\ row[c].status # "revoked" => revived' = revived
        /\ desk' = desk /\ crossings' = crossings
    BY <1>7, StatusRow
  <2>2. \A t : Asked(t)' => Asked(t)
    BY <2>1 DEF Asked
  <2>3. \A t \in Tunnels : t # c /\ Has(t)' => Has(t)
    BY <2>1 DEF Has, Connections
  <2>4. CASE row[c].status = "revoked"
    <3>1. Claimed' \subseteq Claimed \cup {c}
      BY <2>2, <2>3 DEF Claimed
    <3>2. crossings' + revived' = crossings + revived + 1
      BY <1>0, <2>1, <2>4
    <3>3. QED
      BY <1>0, <3>1, <3>2, OneClaim
  <2>5. CASE row[c].status # "revoked"
    <3>1. row[c].status \in {"active", "suspended"}
      BY <2>1, <2>5 DEF TunnelTypeOK, ConnectionRow
    <3>2. Has(c)' => Has(c)
      BY <2>1, <3>1 DEF Has
    <3>3. Claimed' \subseteq Claimed
      BY <2>2, <2>3, <3>2 DEF Claimed
    <3>4. QED
      BY <1>0, <2>1, <2>5, <3>3, NoClaim
  <2>6. QED
    BY <2>4, <2>5
<1>8. CASE UNCHANGED tunnelVars
  <2>1. Claimed' = Claimed /\ crossings' = crossings /\ revived' = revived
    BY <1>8 DEF tunnelVars, Claimed, Asked, Has
  <2>2. QED
    BY <1>0, <2>1, NoClaim
<1>9. QED
  BY <1>1, <1>2, <1>3, <1>4, <1>5, <1>6, <1>7, <1>8, TunnelCases

\* However many requests overlap, replies are lost and workers die, the customer has
\* no more allowed tunnels than the allowance, the overlaps and the revivals together.
THEOREM AllowanceIsKept == TunnelSpec => []AllowanceKept
<1>1. TunnelTypeOK /\ ClaimInv => AllowanceKept
  <2> SUFFICES ASSUME TunnelTypeOK, ClaimInv PROVE AllowanceKept
    OBVIOUS
  <2> DEFINE A == {t \in Tunnels : /\ row[t].status \in {"active", "suspended"}
                                   /\ row[t].by = "allowance"}
  <2>1. A \subseteq Claimed
    BY DEF Claimed, Has
  <2>2. Cardinality(A) <= Cardinality(Claimed) /\ Cardinality(A) \in Nat
        /\ Cardinality(Claimed) \in Nat
    BY <2>1, ClaimedFinite, FS_Subset, FS_CardinalityType
  <2>3. Cardinality(Claimed) <= Allowance + crossings + revived
        /\ Allowance \in Nat /\ crossings \in Nat /\ revived \in Nat
    BY TunnelAssumption DEF ClaimInv, TunnelTypeOK
  <2> HIDE DEF A
  <2>4. Cardinality(A) <= Allowance + crossings + revived
    BY <2>2, <2>3
  <2>5. QED
    BY <2>4 DEF A, AllowanceKept
<1>2. QED
  BY TunnelInitType, TunnelNextType, ClaimInit, ClaimStep, <1>1, PTL DEF TunnelSpec

-----------------------------------------------------------------------------
(* The quota: types *)

LEMMA DecideType ==
  ASSUME NEW r \in QuotaRow, NEW now \in Months, NEW bytes \in Nat
  PROVE  /\ Decide(r, now, bytes) \in QuotaRow
         /\ Decide(r, now, bytes).throttled = r.throttled
         /\ NextCall(Decide(r, now, bytes)) \in {"slow", "full", "commit"}
<1>1. (IF bytes >= r.sample THEN bytes - r.sample ELSE bytes) \in Nat
  BY DEF QuotaRow
<1>2. Decide(r, now, bytes) \in QuotaRow /\ Decide(r, now, bytes).throttled = r.throttled
  <2> DEFINE x == IF bytes >= r.sample THEN bytes - r.sample ELSE bytes
  <2>1. x \in Nat /\ r \in QuotaRow /\ r.used + x \in Nat
    BY <1>1 DEF QuotaRow
  <2>2. Decide(r, now, bytes) = IF r.period # now
                                THEN [r EXCEPT !.period = now, !.used = 0, !.sample = bytes]
                                ELSE [r EXCEPT !.used = r.used + x, !.sample = bytes]
    BY DEF Decide, QuotaRow
  <2> HIDE DEF x
  <2>3. CASE r.period # now
    <3> DEFINE y == [r EXCEPT !.period = now, !.used = 0, !.sample = bytes]
    <3>1. y \in QuotaRow /\ y.throttled = r.throttled
      BY <2>1 DEF QuotaRow
    <3>2. Decide(r, now, bytes) = y
      BY <2>2, <2>3
    <3> HIDE DEF y
    <3>3. QED
      BY <3>1, <3>2
  <2>4. CASE r.period = now
    BY <2>1, <2>2, <2>4 DEF QuotaRow
  <2>5. QED
    BY <2>3, <2>4
<1>3. NextCall(Decide(r, now, bytes)) \in {"slow", "full", "commit"}
  BY DEF NextCall
<1>4. QED
  BY <1>2, <1>3

LEMMA SyncStepType ==
  ASSUME QuotaTypeOK, NEW r \in QuotaRow,
         NEW at \in {"idle", "read", "slow", "full", "drop", "commit"}, SyncStep(at, r)
  PROVE  /\ sync' \in Sync
         /\ sync'.at = at /\ sync'.row = r /\ sync'.now = sync.now
         /\ sync'.settled = sync.settled
  BY DEF QuotaTypeOK, SyncStep, Sync

LEMMA LossType ==
  ASSUME QuotaTypeOK, Loss
  PROVE  quotaLosses' \in 0..MaxLosses
  BY QuotaAssumption DEF QuotaTypeOK, Loss

LEMMA QuotaInitType == QuotaInit => QuotaTypeOK
<1> SUFFICES ASSUME QuotaInit PROVE QuotaTypeOK
  OBVIOUS
<1>1. 0 \in Months /\ 1 \in Months /\ 0 \in 0..MaxLosses
  BY QuotaAssumption DEF Months
<1>2. FreshRow \in QuotaRow
  BY <1>1 DEF FreshRow, QuotaRow
<1>3. sync \in Sync
  BY <1>1, <1>2 DEF QuotaInit, Sync
<1>4. QED
  BY <1>1, <1>2, <1>3 DEF QuotaInit, QuotaTypeOK

LEMMA QuotaNextType == QuotaTypeOK /\ [QuotaNext]_quotaVars => QuotaTypeOK'
<1> SUFFICES ASSUME QuotaTypeOK, [QuotaNext]_quotaVars
             PROVE  QuotaTypeOK'
  OBVIOUS
<1>1. CASE Carry
  BY <1>1 DEF Carry, QuotaTypeOK
<1>2. CASE Reconnect
  <2>1. [up : BOOLEAN, bytes : {0}] \subseteq [up : BOOLEAN, bytes : Nat]
    OBVIOUS
  <2>2. QED
    BY <1>2, <2>1 DEF Reconnect, QuotaTypeOK
<1>3. CASE MonthTurns
  BY <1>3, QuotaAssumption DEF MonthTurns, QuotaTypeOK, Months
<1>4. CASE TimerFires
  BY <1>4 DEF TimerFires, QuotaTypeOK, Sync, traffic
<1>5. CASE ReadLive
  <2>1. sync.row \in QuotaRow /\ sync.now \in Months /\ live.bytes \in Nat
    BY DEF QuotaTypeOK, Sync
  <2>2. sync' \in Sync
    BY <1>5, <2>1, DecideType, SyncStepType DEF ReadLive
  <2>3. QED
    BY <1>5, <2>2 DEF ReadLive, QuotaTypeOK, traffic
<1>6. CASE ReadLiveFails
  <2>1. sync' \in Sync
    BY <1>6, SyncStepType DEF ReadLiveFails, QuotaTypeOK, Sync
  <2>2. QED
    BY <1>6, <2>1, LossType DEF ReadLiveFails, QuotaTypeOK, traffic
<1>7. CASE SetProfile
  BY <1>7 DEF SetProfile, QuotaTypeOK, traffic, Sync, QuotaRow
<1>8. CASE SetProfileFails
  <2>1. sync' \in Sync
    BY <1>8, SyncStepType DEF SetProfileFails, QuotaTypeOK, Sync
  <2>2. QED
    BY <1>8, <2>1, LossType DEF SetProfileFails, QuotaTypeOK, traffic
<1>9. CASE DropSession
  <2>1. sync' \in Sync
    BY <1>9, SyncStepType DEF DropSession, QuotaTypeOK, Sync
  <2>2. live' \in [up : BOOLEAN, bytes : Nat]
    <3>1. [up |-> FALSE, bytes |-> 0] \in [up : BOOLEAN, bytes : Nat]
      OBVIOUS
    <3>2. QED
      BY <1>9, <3>1 DEF DropSession, QuotaTypeOK
  <2>3. QED
    BY <1>9, <2>1, <2>2 DEF DropSession, QuotaTypeOK
<1>10. CASE CommitSync
  BY <1>10 DEF CommitSync, QuotaTypeOK, traffic, Sync
<1>11. CASE SyncDies
  BY <1>11, LossType DEF SyncDies, QuotaTypeOK, traffic, Sync
<1>12. CASE UNCHANGED quotaVars
  BY <1>12 DEF quotaVars, QuotaTypeOK
<1>13. QED
  BY <1>1, <1>2, <1>3, <1>4, <1>5, <1>6, <1>7, <1>8, <1>9, <1>10, <1>11, <1>12
     DEF QuotaNext, SyncRun

\* The clock, the session, the row and the run keep their shape in every reachable
\* state (app/services/vpn_quota.py).
THEOREM QuotaTypeCorrect == QuotaSpec => []QuotaTypeOK
<1>1. QED
  BY QuotaInitType, QuotaNextType, PTL DEF QuotaSpec

-----------------------------------------------------------------------------
(* What is charged *)

\* What the next sample of a row will add to its count.
Uncounted(r) == IF live.bytes >= r.sample THEN live.bytes - r.sample ELSE live.bytes

\* NeverOvercharged is not inductive: the bytes that the session has carried since
\* the sample must fit in as well, for the row and for what the run holds of it.
Fits(r) == /\ r.period <= month
           /\ r.used + Uncounted(r) <= carried - before[r.period]
ChargeInv ==
    /\ \A m \in Months : before[m] <= carried
    /\ sync.now <= month
    /\ Fits(quota) /\ Fits(sync.row)

LEMMA UncountedNat ==
  ASSUME QuotaTypeOK, NEW r \in QuotaRow
  PROVE  Uncounted(r) \in Nat
  BY DEF QuotaTypeOK, Uncounted, QuotaRow

LEMMA DecideFits ==
  ASSUME QuotaTypeOK, ChargeInv
  PROVE  LET d == Decide(sync.row, sync.now, live.bytes) IN
            /\ d.period <= month
            /\ live.bytes >= d.sample /\ d.sample = live.bytes
            /\ d.used <= carried - before[d.period]
<1> DEFINE r == sync.row
<1>1. r \in QuotaRow /\ sync.now \in Months /\ live.bytes \in Nat /\ carried \in Nat
      /\ before[sync.now] \in Nat /\ before[sync.now] <= carried
  BY DEF QuotaTypeOK, Sync, ChargeInv
<1>2. r.period <= month /\ sync.now <= month /\ r.used + Uncounted(r) <= carried - before[r.period]
  BY DEF ChargeInv, Fits
<1>3. CASE r.period # sync.now
  BY <1>1, <1>2, <1>3 DEF Decide, QuotaRow
<1>4. CASE r.period = sync.now
  BY <1>1, <1>2, <1>4 DEF Decide, QuotaRow, Uncounted
<1>5. QED
  BY <1>3, <1>4

\* The traffic, the calendar and a reconnection keep what fits.
LEMMA TrafficFits ==
  ASSUME QuotaTypeOK, QuotaTypeOK', ChargeInv, Carry \/ Reconnect \/ MonthTurns,
         NEW r \in QuotaRow, Fits(r), r' = r
  PROVE  Fits(r)'
<1>1. r.period \in Months /\ r.used \in Nat /\ r.sample \in Nat
  BY DEF QuotaRow
<1>2. live.bytes \in Nat /\ carried \in Nat /\ month \in Nat /\ before[r.period] \in Nat
  BY <1>1 DEF QuotaTypeOK, Months
<1>3. CASE Carry
  <2>1. live'.bytes = live.bytes + 1 /\ carried' = carried + 1 /\ before' = before /\ month' = month
    BY <1>3 DEF Carry, QuotaTypeOK
  <2>2. QED
    BY <1>1, <1>2, <2>1 DEF Fits, Uncounted
<1>4. CASE Reconnect
  <2>1. live'.bytes = 0 /\ carried' = carried /\ before' = before /\ month' = month
    BY <1>4 DEF Reconnect
  <2>2. QED
    BY <1>1, <1>2, <2>1 DEF Fits, Uncounted
<1>5. CASE MonthTurns
  <2>1. live' = live /\ carried' = carried /\ month' = month + 1
    BY <1>5 DEF MonthTurns
  <2>2. before'[r.period] = before[r.period]
    BY <1>1, <1>2, <1>5 DEF MonthTurns, QuotaTypeOK, Fits, Months
  <2>3. QED
    BY <1>1, <1>2, <2>1, <2>2, QuotaAssumption DEF Fits, Uncounted, Months
<1>6. QED
  BY <1>3, <1>4, <1>5

LEMMA ChargeInit == QuotaInit => ChargeInv
  BY QuotaAssumption DEF QuotaInit, ChargeInv, Fits, Uncounted, FreshRow, Months

LEMMA ChargeStep ==
  QuotaTypeOK /\ QuotaTypeOK' /\ ChargeInv /\ [QuotaNext]_quotaVars => ChargeInv'
<1> SUFFICES ASSUME QuotaTypeOK, QuotaTypeOK', ChargeInv, [QuotaNext]_quotaVars
             PROVE  ChargeInv'
  OBVIOUS
<1>0. quota \in QuotaRow /\ sync.row \in QuotaRow /\ sync.now \in Months
      /\ month \in Nat /\ carried \in Nat /\ live.bytes \in Nat
  BY DEF QuotaTypeOK, Sync, Months
<1>a. ASSUME NEW r \in QuotaRow, Fits(r), live'.bytes \in {live.bytes, 0},
             carried' = carried, before' = before, month' = month
      PROVE  r.used + (IF live'.bytes >= r.sample THEN live'.bytes - r.sample ELSE live'.bytes)
                <= carried' - before'[r.period]
  <2>1. r.used \in Nat /\ r.sample \in Nat /\ before[r.period] \in Nat
    BY DEF QuotaRow, QuotaTypeOK
  <2>2. QED
    BY <1>0, <1>a, <2>1 DEF Fits, Uncounted
<1>1. CASE Carry \/ Reconnect \/ MonthTurns
  <2>1. quota' = quota /\ sync' = sync
    BY <1>1 DEF Carry, Reconnect, MonthTurns
  <2>2. Fits(quota)'
    BY <1>0, <1>1, <2>1, TrafficFits DEF ChargeInv
  <2>3. Fits(sync.row)'
    <3>1. Fits(sync.row) /\ (sync.row)' = sync.row
      BY <2>1 DEF ChargeInv
    <3>2. QED
      BY <1>0, <1>1, <3>1, TrafficFits
  <2>4. (\A m \in Months : before[m] <= carried)'
    BY <1>0, <1>1 DEF Carry, Reconnect, MonthTurns, ChargeInv, QuotaTypeOK, Months
  <2>5. (sync.now <= month)'
    BY <1>0, <1>1, <2>1 DEF Carry, Reconnect, MonthTurns, ChargeInv, Months
  <2>6. QED
    BY <2>2, <2>3, <2>4, <2>5 DEF ChargeInv
<1>2. CASE TimerFires
  <2>1. sync'.row = quota /\ sync'.now = month /\ quota' = quota /\ month' = month
        /\ carried' = carried /\ before' = before /\ live' = live
    BY <1>2 DEF TimerFires, traffic
  <2>2. QED
    BY <1>0, <2>1 DEF ChargeInv, Fits, Uncounted
<1>3. CASE ReadLive
  <2> DEFINE d == Decide(sync.row, sync.now, live.bytes)
  <2>1. d \in QuotaRow /\ sync'.row = d /\ sync'.now = sync.now
    BY <1>0, <1>3, DecideType, SyncStepType DEF ReadLive
  <2>2. d.period <= month /\ live.bytes >= d.sample /\ d.sample = live.bytes
        /\ d.used <= carried - before[d.period]
    BY DecideFits
  <2>3. quota' = quota /\ month' = month /\ carried' = carried /\ before' = before /\ live' = live
    BY <1>3 DEF ReadLive, traffic
  <2>4. d.used \in Nat /\ before[d.period] \in Nat
    BY <2>1 DEF QuotaRow, QuotaTypeOK
  <2> HIDE DEF d
  <2>5. Fits(sync.row)'
    BY <1>0, <2>1, <2>2, <2>3, <2>4 DEF Fits, Uncounted
  <2>6. Fits(quota)'
    BY <2>3 DEF ChargeInv, Fits, Uncounted
  <2>7. QED
    BY <2>1, <2>3, <2>5, <2>6 DEF ChargeInv
<1>4. CASE ReadLiveFails \/ SetProfileFails
  <2>1. sync'.row = sync.row /\ sync'.now = sync.now
    BY <1>0, <1>4, SyncStepType DEF ReadLiveFails, SetProfileFails
  <2>2. quota' = quota /\ month' = month /\ carried' = carried /\ before' = before /\ live' = live
    BY <1>4 DEF ReadLiveFails, SetProfileFails, traffic
  <2>3. QED
    BY <2>1, <2>2 DEF ChargeInv, Fits, Uncounted
<1>5. CASE SetProfile
  <2>1. /\ sync'.row.period = sync.row.period /\ sync'.row.used = sync.row.used
        /\ sync'.row.sample = sync.row.sample /\ sync'.now = sync.now
    BY <1>5 DEF SetProfile, QuotaTypeOK, Sync, QuotaRow
  <2>2. quota' = quota /\ month' = month /\ carried' = carried /\ before' = before /\ live' = live
    BY <1>5 DEF SetProfile, traffic
  <2>3. QED
    BY <2>1, <2>2 DEF ChargeInv, Fits, Uncounted
<1>6. CASE DropSession
  <2>1. sync'.row = sync.row /\ sync'.now = sync.now
    BY <1>0, <1>6, SyncStepType DEF DropSession
  <2>2. quota' = quota /\ month' = month /\ carried' = carried /\ before' = before
        /\ live'.bytes \in {live.bytes, 0}
    BY <1>6 DEF DropSession
  <2>3. Fits(quota)' /\ Fits(sync.row)'
    BY <1>0, <1>a, <2>1, <2>2 DEF ChargeInv, Fits, Uncounted
  <2>4. QED
    BY <2>1, <2>2, <2>3 DEF ChargeInv
<1>7. CASE CommitSync
  <2>1. quota' = sync.row /\ sync'.row = sync.row /\ sync'.now = sync.now
    BY <1>7 DEF CommitSync, QuotaTypeOK, Sync
  <2>2. month' = month /\ carried' = carried /\ before' = before /\ live' = live
    BY <1>7 DEF CommitSync, traffic
  <2>3. QED
    BY <2>1, <2>2 DEF ChargeInv, Fits, Uncounted
<1>8. CASE SyncDies
  <2>1. quota' = quota /\ sync'.row = sync.row /\ sync'.now = sync.now
    BY <1>8 DEF SyncDies, QuotaTypeOK, Sync
  <2>2. month' = month /\ carried' = carried /\ before' = before /\ live' = live
    BY <1>8 DEF SyncDies, traffic
  <2>3. QED
    BY <2>1, <2>2 DEF ChargeInv, Fits, Uncounted
<1>9. CASE UNCHANGED quotaVars
  BY <1>9 DEF quotaVars, ChargeInv, Fits, Uncounted
<1>10. QED
  BY <1>1, <1>2, <1>3, <1>4, <1>5, <1>6, <1>7, <1>8, <1>9 DEF QuotaNext, SyncRun

\* A tunnel is never charged for more than it has carried since the row's month
\* began, for any number of reconnections, failed reads and dead runs.
THEOREM OnlyTrafficIsCharged == QuotaSpec => []NeverOvercharged
<1>1. QuotaTypeOK /\ ChargeInv => NeverOvercharged
  <2> SUFFICES ASSUME QuotaTypeOK, ChargeInv PROVE NeverOvercharged
    OBVIOUS
  <2>1. quota \in QuotaRow /\ Uncounted(quota) \in Nat
    BY UncountedNat DEF QuotaTypeOK
  <2>2. quota.used \in Nat /\ carried \in Nat /\ before[quota.period] \in Nat
    BY <2>1 DEF QuotaTypeOK, QuotaRow
  <2>3. QED
    BY <2>1, <2>2 DEF ChargeInv, Fits, NeverOvercharged
<1>2. QED
  BY QuotaTypeCorrect, ChargeInit, ChargeStep, <1>1, PTL DEF QuotaSpec

-----------------------------------------------------------------------------
(* The row and the profile *)

\* SpeedAgrees holds during a run as well, of the row; what the run will commit tells
\* the profile once the run has set it, and until then does not touch the flag.
SpeedInv ==
    /\ ~doubtful => (profile = "slow" <=> quota.throttled)
    /\ sync.at \in {"read", "slow", "full"} => ~sync.settled
    /\ sync.at # "idle" =>
         IF sync.settled THEN (profile = "slow" <=> sync.row.throttled)
                         ELSE sync.row.throttled = quota.throttled

LEMMA SpeedInit == QuotaInit => SpeedInv
  BY DEF QuotaInit, SpeedInv, FreshRow

LEMMA SpeedStep ==
  QuotaTypeOK /\ SpeedInv /\ [QuotaNext]_quotaVars => SpeedInv'
<1> SUFFICES ASSUME QuotaTypeOK, SpeedInv, [QuotaNext]_quotaVars
             PROVE  SpeedInv'
  OBVIOUS
<1>0. sync.row \in QuotaRow /\ sync.now \in Months /\ live.bytes \in Nat
  BY DEF QuotaTypeOK, Sync
<1>1. CASE Carry \/ Reconnect \/ MonthTurns
  BY <1>1 DEF Carry, Reconnect, MonthTurns, SpeedInv
<1>2. CASE TimerFires
  BY <1>2 DEF TimerFires, SpeedInv
<1>3. CASE ReadLive
  <2>1. /\ sync'.row.throttled = sync.row.throttled /\ sync'.settled = sync.settled
        /\ sync'.at # "idle" /\ sync.at = "read"
    BY <1>0, <1>3, DecideType, SyncStepType DEF ReadLive
  <2>2. quota' = quota /\ profile' = profile /\ doubtful' = doubtful
    BY <1>3 DEF ReadLive
  <2>3. QED
    BY <2>1, <2>2 DEF SpeedInv
<1>4. CASE ReadLiveFails
  <2>1. sync'.row = sync.row /\ sync'.settled = sync.settled /\ sync'.at = "commit"
        /\ sync.at = "read"
    BY <1>0, <1>4, SyncStepType DEF ReadLiveFails
  <2>2. quota' = quota /\ profile' = profile /\ doubtful' = doubtful
    BY <1>4 DEF ReadLiveFails
  <2>3. QED
    BY <2>1, <2>2 DEF SpeedInv
<1>5. CASE SetProfile
  <2>1. /\ sync'.row.throttled = (sync.at = "slow") /\ sync'.settled
        /\ sync'.at = "drop" /\ sync.at \in {"slow", "full"}
    BY <1>5 DEF SetProfile, QuotaTypeOK, Sync, QuotaRow
  <2>2. quota' = quota /\ profile' = sync.at /\ doubtful'
    BY <1>5 DEF SetProfile
  <2>3. QED
    BY <2>1, <2>2 DEF SpeedInv
<1>6. CASE SetProfileFails
  <2>1. sync'.row = sync.row /\ sync'.settled = sync.settled /\ sync'.at = "commit"
        /\ sync.at \in {"slow", "full"}
    BY <1>0, <1>6, SyncStepType DEF SetProfileFails
  <2>2. quota' = quota /\ (doubtful' \/ (profile' = profile /\ doubtful' = doubtful))
    BY <1>6 DEF SetProfileFails
  <2>3. QED
    BY <2>1, <2>2 DEF SpeedInv
<1>7. CASE DropSession
  <2>1. sync'.row = sync.row /\ sync'.settled = sync.settled /\ sync'.at = "commit"
        /\ sync.at = "drop"
    BY <1>0, <1>7, SyncStepType DEF DropSession
  <2>2. quota' = quota /\ profile' = profile /\ doubtful' = doubtful
    BY <1>7 DEF DropSession
  <2>3. QED
    BY <2>1, <2>2 DEF SpeedInv
<1>8. CASE CommitSync
  <2>1. sync'.at = "idle" /\ sync.at = "commit" /\ quota' = sync.row /\ profile' = profile
        /\ doubtful' = (doubtful /\ ~sync.settled)
    BY <1>8 DEF CommitSync, QuotaTypeOK, Sync
  <2>2. QED
    BY <2>1 DEF SpeedInv
<1>9. CASE SyncDies
  <2>1. sync'.at = "idle"
    BY <1>9 DEF SyncDies, QuotaTypeOK, Sync
  <2>2. QED
    BY <1>9, <2>1 DEF SyncDies, SpeedInv
<1>10. CASE UNCHANGED quotaVars
  BY <1>10 DEF quotaVars, SpeedInv
<1>11. QED
  BY <1>1, <1>2, <1>3, <1>4, <1>5, <1>6, <1>7, <1>8, <1>9, <1>10 DEF QuotaNext, SyncRun

\* Between runs the row tells the profile of the account, unless a reply was lost or
\* a run died after the node was changed and no later run has set the profile since.
THEOREM RowTellsSpeed == QuotaSpec => []SpeedAgrees
<1>1. SpeedInv => SpeedAgrees
  BY DEF SpeedInv, SpeedAgrees
<1>2. QED
  BY QuotaTypeCorrect, SpeedInit, SpeedStep, <1>1, PTL DEF QuotaSpec
-----------------------------------------------------------------------------
(* The quota is enforced *)

\* As long as no call has failed and no run has died, between runs the account has
\* the slow profile exactly when the row's count has reached the quota: the safety
\* half of QuotaTakesEffect (sync_tunnel of app/services/vpn_quota.py).
QuotaIsEnforced ==
    quotaLosses = 0 /\ sync.at = "idle" =>
        /\ quota.used >= Quota <=> quota.throttled
        /\ quota.throttled <=> profile = "slow"

Exhausted(r) == r.used >= Quota
\* During a run it is what the run holds that agrees: with the profile until the
\* count is read, with the decision while the call is due, with both from then on.
RunDecides ==
    quotaLosses = 0 =>
        /\ QuotaIsEnforced
        /\ sync.at \in {"read", "slow", "full"} => (sync.row.throttled <=> profile = "slow")
        /\ sync.at = "read" => sync.row = quota
                               /\ (Exhausted(quota) <=> quota.throttled)
        /\ sync.at = "slow" => Exhausted(sync.row)
        /\ sync.at = "full" => ~Exhausted(sync.row)
        /\ sync.at \in {"drop", "commit"} =>
              /\ Exhausted(sync.row) <=> sync.row.throttled
              /\ sync.row.throttled <=> profile = "slow"

LEMMA EnforcedInit == QuotaInit => RunDecides
  BY QuotaAssumption DEF QuotaInit, RunDecides, QuotaIsEnforced, Exhausted, FreshRow

\* The call that is due is the one that makes the flag tell the count.
LEMMA NextCallDecides ==
  ASSUME NEW r \in QuotaRow
  PROVE  /\ NextCall(r) = "slow" => Exhausted(r)
         /\ NextCall(r) = "full" => ~Exhausted(r)
         /\ NextCall(r) = "commit" => (Exhausted(r) <=> r.throttled)
<1>1. r.used \in Nat /\ r.throttled \in BOOLEAN /\ Quota \in Nat
  BY QuotaAssumption DEF QuotaRow
<1>2. r.used < Quota <=> ~(r.used >= Quota)
  BY <1>1
<1>3. CASE Exhausted(r) /\ ~r.throttled
  BY <1>3 DEF NextCall, Exhausted
<1>4. CASE ~Exhausted(r) /\ r.throttled
  BY <1>2, <1>4 DEF NextCall, Exhausted
<1>5. CASE Exhausted(r) <=> r.throttled
  BY <1>2, <1>5 DEF NextCall, Exhausted
<1>6. QED
  BY <1>1, <1>3, <1>4, <1>5

LEMMA LossCounts ==
  ASSUME QuotaTypeOK, Loss
  PROVE  quotaLosses' # 0
  BY DEF QuotaTypeOK, Loss

LEMMA EnforcedStep ==
  QuotaTypeOK /\ RunDecides /\ [QuotaNext]_quotaVars => RunDecides'
<1> SUFFICES ASSUME QuotaTypeOK, RunDecides, [QuotaNext]_quotaVars
             PROVE  RunDecides'
  OBVIOUS
<1>0. sync.row \in QuotaRow /\ sync.now \in Months /\ live.bytes \in Nat
  BY DEF QuotaTypeOK, Sync
<1>1. CASE ReadLiveFails \/ SetProfileFails \/ SyncDies
  BY <1>1, LossCounts DEF ReadLiveFails, SetProfileFails, SyncDies, RunDecides
<1>2. CASE Carry \/ Reconnect \/ MonthTurns
  BY <1>2 DEF Carry, Reconnect, MonthTurns, RunDecides, QuotaIsEnforced, Exhausted
<1>3. CASE TimerFires
  <2>1. /\ sync.at = "idle" /\ sync'.at = "read" /\ sync'.row = quota
        /\ quota' = quota /\ profile' = profile /\ quotaLosses' = quotaLosses
    BY <1>3 DEF TimerFires
  <2>2. QED
    BY <2>1 DEF RunDecides, QuotaIsEnforced, Exhausted
<1>4. CASE ReadLive
  <2> DEFINE d == Decide(sync.row, sync.now, live.bytes)
  <2>1. /\ d \in QuotaRow /\ d.throttled = sync.row.throttled
        /\ NextCall(d) \in {"slow", "full", "commit"}
    BY <1>0, DecideType
  <2>2. sync'.at = NextCall(d) /\ sync'.row = d
    BY <1>4, <2>1, SyncStepType DEF ReadLive
  <2>3. /\ sync.at = "read"
        /\ quota' = quota /\ profile' = profile /\ quotaLosses' = quotaLosses
    BY <1>4 DEF ReadLive
  <2>4. /\ NextCall(d) = "slow" => Exhausted(d)
        /\ NextCall(d) = "full" => ~Exhausted(d)
        /\ NextCall(d) = "commit" => (Exhausted(d) <=> d.throttled)
    BY <2>1, NextCallDecides
  <2> HIDE DEF d
  <2>5. QED
    BY <2>1, <2>2, <2>3, <2>4 DEF RunDecides, QuotaIsEnforced, Exhausted
<1>5. CASE SetProfile
  <2>1. /\ sync'.row.throttled = (sync.at = "slow") /\ sync'.row.used = sync.row.used
        /\ sync'.at = "drop" /\ sync.at \in {"slow", "full"}
    BY <1>5 DEF SetProfile, QuotaTypeOK, Sync, QuotaRow
  <2>2. quota' = quota /\ profile' = sync.at /\ quotaLosses' = quotaLosses
    BY <1>5 DEF SetProfile
  <2>3. QED
    BY <2>1, <2>2 DEF RunDecides, QuotaIsEnforced, Exhausted
<1>6. CASE DropSession
  <2>1. sync'.row = sync.row /\ sync'.at = "commit" /\ sync.at = "drop"
    BY <1>0, <1>6, SyncStepType DEF DropSession
  <2>2. quota' = quota /\ profile' = profile /\ quotaLosses' = quotaLosses
    BY <1>6 DEF DropSession
  <2>3. QED
    BY <2>1, <2>2 DEF RunDecides, QuotaIsEnforced, Exhausted
<1>7. CASE CommitSync
  <2>1. /\ sync'.at = "idle" /\ sync.at = "commit" /\ quota' = sync.row
        /\ profile' = profile /\ quotaLosses' = quotaLosses
    BY <1>7 DEF CommitSync, QuotaTypeOK, Sync
  <2>2. QED
    BY <2>1 DEF RunDecides, QuotaIsEnforced, Exhausted
<1>8. CASE UNCHANGED quotaVars
  BY <1>8 DEF quotaVars, RunDecides, QuotaIsEnforced, Exhausted
<1>9. QED
  BY <1>1, <1>2, <1>3, <1>4, <1>5, <1>6, <1>7, <1>8 DEF QuotaNext, SyncRun

\* As long as no call has failed and no run has died, between runs the account is
\* slow exactly when its count has reached the quota.
THEOREM SlowMeansExhausted == QuotaSpec => []QuotaIsEnforced
<1>1. QuotaTypeOK /\ RunDecides => QuotaIsEnforced
  BY DEF RunDecides, QuotaIsEnforced, QuotaTypeOK
<1>2. QED
  BY QuotaTypeCorrect, EnforcedInit, EnforcedStep, <1>1, PTL DEF QuotaSpec
=============================================================================
