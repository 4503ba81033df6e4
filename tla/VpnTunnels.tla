----------------------------- MODULE VpnTunnels -----------------------------
(***************************************************************************)
(* VPN tunnels and WireGuard peers on the fleet's nodes:                    *)
(* app/services/vpn_tunnels.py, wireguard_peers.py, the provisioning half   *)
(* of ip_change_pricing.py, and the routes of the panel and of the          *)
(* customer's bridge that call them.                                        *)
(*                                                                          *)
(* A request checks the database, then changes the node's router, then      *)
(* commits the row.  Nothing spans the two: a lost reply or a dead worker   *)
(* leaves the router changed and the row as it was.  The limit of tunnels   *)
(* and the choice of an address are read before the router is called and    *)
(* are not checked again.                                                   *)
(***************************************************************************)
EXTENDS Integers, FiniteSets

CONSTANTS
    PppTunnels,     \* tunnels with an account on a node
    RecordTunnels,  \* IPsec tunnels while CHR_IPSEC_AUTO_PROVISION is off: a row only
    Peers,          \* WireGuard peers
    NoConnection,
    Allowance,      \* how many tunnels the customer may have
    NumAddresses,   \* addresses of the client network
    TunnelWorkers,  \* web workers
    MaxMishaps      \* bound: overlapping requests, faults and revivals together

Tunnels == PppTunnels \cup RecordTunnels
Connections == Tunnels \cup Peers
Addresses == 1..NumAddresses

ASSUME TunnelAssumption ==
    /\ IsFiniteSet(Connections) /\ NoConnection \notin Connections
    /\ PppTunnels \cap RecordTunnels = {} /\ Tunnels \cap Peers = {}
    /\ Allowance \in Nat /\ NumAddresses \in Nat /\ MaxMishaps \in Nat

VARIABLES
    row,       \* customer_vpn_tunnels and customer_wireguard_peers
    router,    \* accounts and peers the nodes let in
    desk,      \* what every web worker is doing
    crossings, \* how often a request started while another was in progress
    accidents, \* lost replies, dead workers and refused rows
    revived    \* how often a revoked row was made active again

tunnelVars == <<row, router, desk, crossings, accidents, revived>>

-----------------------------------------------------------------------------

\* by: what let the connection in; unseen: an address typed without a prefix length,
\* or as a network, which the allocator does not see.  address: 0 for a tunnel.
Grounds == {"allowance", "ip_change", "allocated", "typed", "unseen"}
ConnectionRow == [status : {"none", "active", "suspended", "revoked"},
                  provisioned : BOOLEAN, by : Grounds, address : Nat]
NoRow == [status |-> "none", provisioned |-> FALSE, by |-> "allowance", address |-> 0]

Desk == {d \in [at : {"idle", "create", "commit", "remove", "forget"},
                c : Connections \cup {NoConnection}, by : Grounds, address : Nat] :
            d.at = "idle" <=> d.c = NoConnection}
FreeDesk == [at |-> "idle", c |-> NoConnection, by |-> "allowance", address |-> 0]

TunnelInit ==
    /\ row = [c \in Connections |-> NoRow]
    /\ router = {}
    /\ desk = [w \in TunnelWorkers |-> FreeDesk]
    /\ crossings = 0 /\ accidents = 0 /\ revived = 0

MoreMishaps == crossings + accidents + revived < MaxMishaps

Live(S) == {c \in S : row[c].status \in {"active", "suspended"}}

\* Connections are numbered as they come: one that was given up does not return.
Unused(c) ==
    /\ row[c].status = "none" /\ c \notin router
    /\ \A w \in TunnelWorkers : desk[w].c # c

BeginRequest(w, at, c, by, address) ==
    /\ desk[w].at = "idle"
    /\ IF \A v \in TunnelWorkers : desk[v].at = "idle"
       THEN UNCHANGED crossings
       ELSE MoreMishaps /\ crossings' = crossings + 1
    /\ desk' = [desk EXCEPT ![w] = [at |-> at, c |-> c, by |-> by, address |-> address]]
    /\ UNCHANGED <<row, router, accidents, revived>>

Go(w, at) == desk' = [desk EXCEPT ![w].at = at]
Stop(w) == desk' = [desk EXCEPT ![w] = FreeDesk]
RouterFault == MoreMishaps /\ accidents' = accidents + 1

-----------------------------------------------------------------------------
(* Asking for a connection *)

\* Mutant: suspended tunnels do not count.
RequestIfActive(w, t) ==
    /\ Unused(t)
    /\ Cardinality({u \in Tunnels : row[u].status = "active"}) < Allowance
    /\ BeginRequest(w, IF t \in PppTunnels THEN "create" ELSE "commit", t, "allowance", 0)
\* The bridge and the panel count the live rows.
RequestTunnel(w, t) ==
    /\ Unused(t)
    /\ Cardinality(Live(Tunnels)) < Allowance
    /\ BeginRequest(w, IF t \in PppTunnels THEN "create" ELSE "commit", t, "allowance", 0)

\* Approving a change of address is not limited, but takes an active tunnel there is.
ApproveIpChange(w, t) ==
    /\ Unused(t)
    /\ \A u \in PppTunnels : row[u].status # "active"
    /\ BeginRequest(w, "create", t, "ip_change", 0)

FreeAddresses ==
    Addresses \ {row[p].address : p \in {q \in Live(Peers) : row[q].by # "unseen"}}

\* Mutant: the address is counted, not searched.
CountedAddress(w, p) ==
    /\ Unused(p) /\ FreeAddresses # {}
    /\ BeginRequest(w, "create", p, "allocated", 1 + Cardinality(Live(Peers)))
\* The first address that no live peer has.
RequestPeer(w, p) ==
    /\ Unused(p)
    /\ \E a \in FreeAddresses :
         /\ \A b \in FreeAddresses : a <= b
         /\ BeginRequest(w, "create", p, "allocated", a)

\* An address the operator types is not compared with the others.
RequestTypedPeer(w, p, a) ==
    /\ Unused(p)
    /\ \E by \in {"typed", "unseen"} : BeginRequest(w, "create", p, by, a)

-----------------------------------------------------------------------------
(* The router's call, then the commit *)

\* Mutant: the request ends before its row is committed.
CreateAndEnd(w) ==
    /\ desk[w].at = "create"
    /\ router' = router \cup {desk[w].c}
    /\ Stop(w)
    /\ UNCHANGED <<row, crossings, accidents, revived>>
CreateOnRouter(w) ==
    /\ desk[w].at = "create"
    /\ router' = router \cup {desk[w].c}
    /\ Go(w, "commit")
    /\ UNCHANGED <<row, crossings, accidents, revived>>

\* Created, but the reply is lost: the request fails and writes nothing.
CreateUnheard(w) ==
    /\ desk[w].at = "create"
    /\ router' = router \cup {desk[w].c}
    /\ RouterFault
    /\ Stop(w)
    /\ UNCHANGED <<row, crossings, revived>>

CommitCreated(w) ==
    /\ desk[w].at = "commit"
    /\ row' = [row EXCEPT ![desk[w].c] =
                  [status |-> "active", provisioned |-> desk[w].c \notin RecordTunnels,
                   by |-> desk[w].by, address |-> desk[w].address]]
    /\ Stop(w)
    /\ UNCHANGED <<router, crossings, accidents, revived>>

\* The operator typed the public key of another row, a revoked one included: the
\* router has the peer, the row is refused.
KeyTaken(w) ==
    /\ desk[w].at = "commit" /\ desk[w].c \in Peers
    /\ \E p \in Peers : row[p].status # "none"
    /\ RouterFault
    /\ Stop(w)
    /\ UNCHANGED <<row, router, crossings, revived>>

\* Mutant: the account is left to a later clean-up.
RevokeRowOnly(w, c) ==
    /\ row[c].status # "none"
    /\ BeginRequest(w, "forget", c, row[c].by, row[c].address)
RequestRevoke(w, c) ==
    /\ row[c].status # "none"
    /\ BeginRequest(w, IF row[c].provisioned THEN "remove" ELSE "forget",
             c, row[c].by, row[c].address)

\* An account that is already gone counts as removed.
RemoveFromRouter(w) ==
    /\ desk[w].at = "remove"
    /\ router' = router \ {desk[w].c}
    /\ Go(w, "forget")
    /\ UNCHANGED <<row, crossings, accidents, revived>>

RemoveUnheard(w) ==
    /\ desk[w].at = "remove"
    /\ router' = router \ {desk[w].c}
    /\ RouterFault
    /\ Stop(w)
    /\ UNCHANGED <<row, crossings, revived>>

CommitRevoked(w) ==
    /\ desk[w].at = "forget"
    /\ row' = [row EXCEPT ![desk[w].c].status = "revoked", ![desk[w].c].provisioned = FALSE]
    /\ Stop(w)
    /\ UNCHANGED <<router, crossings, accidents, revived>>

\* The node cannot be reached or refuses: the request fails and writes nothing.
RouterRefuses(w) ==
    /\ desk[w].at \in {"create", "remove"}
    /\ Stop(w)
    /\ UNCHANGED <<row, router, crossings, accidents, revived>>

WorkerDies(w) ==
    /\ desk[w].at # "idle" /\ RouterFault
    /\ Stop(w)
    /\ UNCHANGED <<row, router, crossings, revived>>

-----------------------------------------------------------------------------
(* Suspending and activating *)

\* A row without an account gets the status, a revoked one included, which the
\* pages do not offer but a stale page sends.  For a row with an account the code
\* looks for a name that is gone and fails before it changes anything.
SetTunnelStatus(c, status) ==
    /\ row[c].status \notin {"none", status} /\ ~row[c].provisioned
    /\ row' = [row EXCEPT ![c].status = status]
    /\ IF row[c].status = "revoked"
       THEN MoreMishaps /\ revived' = revived + 1
       ELSE UNCHANGED revived
    /\ UNCHANGED <<router, desk, crossings, accidents>>

-----------------------------------------------------------------------------

TunnelNext ==
    \/ \E w \in TunnelWorkers :
         \/ \E t \in Tunnels : RequestTunnel(w, t)
         \/ \E t \in PppTunnels : ApproveIpChange(w, t)
         \/ \E p \in Peers :
              RequestPeer(w, p) \/ \E a \in Addresses : RequestTypedPeer(w, p, a)
         \/ CreateOnRouter(w) \/ CreateUnheard(w) \/ CommitCreated(w) \/ KeyTaken(w)
         \/ \E c \in Connections : RequestRevoke(w, c)
         \/ RemoveFromRouter(w) \/ RemoveUnheard(w) \/ CommitRevoked(w)
         \/ RouterRefuses(w) \/ WorkerDies(w)
    \/ \E c \in Connections, s \in {"active", "suspended"} : SetTunnelStatus(c, s)

TunnelSpec == TunnelInit /\ [][TunnelNext]_tunnelVars

-----------------------------------------------------------------------------
(* Properties *)

\* Rows and requests have the shape of their columns and variables.
TunnelTypeOK ==
    /\ row \in [Connections -> ConnectionRow]
    /\ router \subseteq Connections
    /\ desk \in [TunnelWorkers -> Desk]
    /\ crossings \in Nat /\ accidents \in Nat /\ revived \in Nat

\* The customer has more tunnels than allowed only by as many as requests overlapped
\* or revoked rows were revived; lost replies, dead workers, suspensions and retried
\* requests do not add one.  Approved changes of address come on top of the allowance.
AllowanceKept ==
    Cardinality({t \in Tunnels : /\ row[t].status \in {"active", "suspended"}
                                 /\ row[t].by = "allowance"})
        <= Allowance + crossings + revived

\* A peer never gets an address from the allocator that another live peer has, typed
\* or allocated, unless requests overlapped, a revoked peer was revived, or the
\* address was typed in a form that the allocator does not see.
AllocatedIsFree ==
    [][\A p, q \in Peers :
          /\ crossings + revived = 0 /\ row[p].status = "none" /\ row'[p].status = "active"
          /\ row'[p].by = "allocated" /\ row[q].status \in {"active", "suspended"}
          /\ row[q].by # "unseen"
          => row'[p].address # row[q].address]_tunnelVars

\* A connection that is suspended, or revoked and committed so, is not let in by its
\* node, however requests overlap, replies are lost and workers die: the account goes
\* first, the row second, and no status is written for a row with an account.
OffIsOff ==
    \A c \in Connections :
        row[c].status \in {"suspended", "revoked"} => c \notin router

\* No more accounts than accidents are without a row or rows without an account, apart
\* from the requests in progress: overlapping requests alone leave nothing behind.
StraysAreFaults ==
    Cardinality({c \in Connections : /\ (c \in router) # row[c].provisioned
                                     /\ \A w \in TunnelWorkers : desk[w].c # c}) <= accidents
=============================================================================
