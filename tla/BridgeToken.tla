---------------------------- MODULE BridgeToken ----------------------------
(***************************************************************************)
(* The bridge token of a license: app/services/bridge_token_sync.py and the *)
(* route hoberadius_bridge_token_report of app/api/routes.py.               *)
(*                                                                          *)
(* The panel keeps one row per license; every RADIUS instance of the        *)
(* customer keeps a copy of its own, may rotate it, reports it and takes    *)
(* what the panel answers.  The higher version wins, a tie is the panel's.  *)
(* The panel serves one request at a time; requests are delayed, repeated   *)
(* by newer ones and lost, and so are replies.  The instances are programs  *)
(* of their own: they are modelled from what the service's doc asks.        *)
(***************************************************************************)
EXTENDS Integers

CONSTANTS
    Instances,
    PanelSeed,     \* who makes the panel's first token
    MaxRotations,  \* bound: rotations
    MaxDelays      \* bound: replies given up and requests lost together

ASSUME BridgeAssumption ==
    /\ PanelSeed \notin Instances
    /\ MaxRotations \in Nat /\ MaxDelays \in Nat

VARIABLES
    bridge,     \* the panel's row; version 0: none yet
    held,       \* each instance's copy
    reports,    \* reports on their way
    replies,    \* the reply to each instance that waits for one
    rotations,  \* rotations so far
    delays      \* delays so far

bridgeVars == <<bridge, held, reports, replies, rotations, delays>>

-----------------------------------------------------------------------------

\* A token is told by who made it and the version it was made at.  An instance that
\* never heard of versions reports none, which is read as 0.
Token == [by : Instances \cup {PanelSeed}, version : Nat]
NoToken == [by |-> PanelSeed, version |-> 0]
Report == [from : Instances, copy : Token, waited : BOOLEAN]
Reply == {NoToken} \cup [by : Instances \cup {PanelSeed}, version : Nat \ {0}]

BridgeInit ==
    /\ bridge = NoToken
    /\ held = [i \in Instances |-> [by |-> i, version |-> 0]]
    /\ reports = {} /\ replies = [i \in Instances |-> NoToken]
    /\ rotations = 0 /\ delays = 0

Delay == delays < MaxDelays /\ delays' = delays + 1
Waits(i) == replies[i] # NoToken \/ \E r \in reports : r.from = i /\ r.waited

-----------------------------------------------------------------------------
(* The instances *)

Rotate(i) ==
    /\ rotations < MaxRotations
    /\ rotations' = rotations + 1
    /\ held' = [held EXCEPT ![i] = [by |-> i, version |-> @.version + 1]]
    /\ UNCHANGED <<bridge, reports, replies, delays>>

SendReport(i) ==
    /\ ~Waits(i)
    /\ reports' = reports \cup {[from |-> i, copy |-> held[i], waited |-> TRUE]}
    /\ UNCHANGED <<bridge, held, replies, rotations, delays>>

\* "Higher version wins; tie: the panel wins", on this side too.
Receive(i) ==
    /\ replies[i] # NoToken
    /\ held' = [held EXCEPT ![i] = IF replies[i].version >= @.version THEN replies[i] ELSE @]
    /\ replies' = [replies EXCEPT ![i] = NoToken]
    /\ UNCHANGED <<bridge, reports, rotations, delays>>

\* The instance gives up: its report may still arrive, and a reply is dropped.
GivesUp(i) ==
    /\ Waits(i)
    /\ Delay
    /\ reports' = {IF r.from = i THEN [r EXCEPT !.waited = FALSE] ELSE r : r \in reports}
    /\ replies' = [replies EXCEPT ![i] = NoToken]
    /\ UNCHANGED <<bridge, held, rotations>>

RequestLost ==
    /\ Delay
    /\ \E r \in reports : ~r.waited /\ reports' = reports \ {r}
    /\ UNCHANGED <<bridge, held, replies, rotations>>

-----------------------------------------------------------------------------
(* The panel *)

\* ensure_state: the first request makes the row.
Ensured == IF bridge.version = 0 THEN [by |-> PanelSeed, version |-> 1] ELSE bridge

\* Mutant: a tie is the customer's.
ResolveTies(row, copy) == IF copy.version >= row.version THEN copy ELSE row
\* apply_customer_report: a higher version is adopted, whatever its token.
Resolve(row, copy) == IF copy.version > row.version THEN copy ELSE row

\* The route: resolve, commit and answer.
TakeReport(r) ==
    /\ r \in reports
    /\ bridge' = Resolve(Ensured, r.copy)
    /\ reports' = reports \ {r}
    /\ replies' = [replies EXCEPT ![r.from] = IF r.waited THEN bridge' ELSE @]
    /\ UNCHANGED <<held, rotations, delays>>

-----------------------------------------------------------------------------

PanelTakes(i) == \E r \in reports : r.from = i /\ r.waited /\ TakeReport(r)

BridgeNext ==
    \/ \E i \in Instances : Rotate(i) \/ SendReport(i) \/ Receive(i) \/ GivesUp(i)
    \/ RequestLost
    \/ \E r \in reports : TakeReport(r)

\* Instances report again and again; a report that is waited for is served, and the
\* reply is read.
BridgeFairness ==
    \A i \in Instances : /\ WF_bridgeVars(SendReport(i)) /\ WF_bridgeVars(Receive(i))
                         /\ WF_bridgeVars(PanelTakes(i))

BridgeSpec == BridgeInit /\ [][BridgeNext]_bridgeVars /\ BridgeFairness

-----------------------------------------------------------------------------
(* Properties *)

\* Copies, the row and messages keep the shape of the table and of the JSON.
BridgeTypeOK ==
    /\ bridge \in Token
    /\ held \in [Instances -> Token]
    /\ reports \subseteq Report
    /\ replies \in [Instances -> Reply]
    /\ rotations \in 0..MaxRotations /\ delays \in 0..MaxDelays

\* When the instances have stopped rotating, the panel's row, once there is one, and
\* every copy come to agree and stay so, however rotations collided and whatever
\* reports came late: the "one source" of the module's doc.
BridgeSettles == <>[](bridge # NoToken => \A i \in Instances : held[i] = bridge)
=============================================================================
