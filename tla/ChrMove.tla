------------------------------- MODULE ChrMove -------------------------------
(***************************************************************************)
(* Moving a customer to another CHR: app/services/chr_move.py,              *)
(* app/services/coa_disconnect.py and the proxy's two endpoints of          *)
(* app/api/proxy_api.py.                                                    *)
(*                                                                          *)
(* A move rewrites the customer's realm routes in one commit and queues the *)
(* disconnect of the live sessions in a second one.  The RADIUS proxy takes *)
(* no calls: it polls for the routing table, which carries the disconnects  *)
(* that are alive, carries them out and posts their results.  A poll reads  *)
(* the routes, then the commands, and writes the commands' statuses by id   *)
(* in later commits.                                                        *)
(*                                                                          *)
(* Customers share nothing but the list of commands, so one is modelled.    *)
(* Which node it moves to makes no difference here: its routes are the      *)
(* number of moves that were committed.  A refused move changes nothing.    *)
(***************************************************************************)
EXTENDS Integers, FiniteSets

CONSTANTS
    Commands,         \* command ids, and so the moves of the customer
    PanelWorkers,     \* web workers: each serves one request at a time
    NoCommand, NoPanelWorker,
    MaxTroubles       \* bound: how often a request starts while another is in
                      \* progress, and a worker dies, together

ASSUME MoveAssumption ==
    /\ NoCommand \notin Commands
    /\ NoPanelWorker \notin PanelWorkers
    /\ MaxTroubles \in Nat

VARIABLES
    route,     \* proxy_realm_routes of the customer: how many moves they show
    command,   \* pending_coa_commands
    server,    \* what every web worker is doing
    proxy,     \* the proxy: its routes, what it has to do and what came of it
    overlaps,  \* how often a request was started while another was in progress
    died       \* how many workers died so far

moveVars == <<route, command, server, proxy, overlaps, died>>

-----------------------------------------------------------------------------
(* Rows, workers and the proxy *)

Alive == {"pending", "sent"}
Terminal == {"done", "failed", "expired"}
\* old: the time to live has elapsed.  move: the routes the command belongs to.
CommandRow == [status : Alive \cup Terminal \cup {"none"}, old : BOOLEAN, move : Nat]

\* at: the next step.  c: the command of a move or of a result with its outcome.
\* routes: what a move has written or a poll has read.  tooOld, fresh: the
\* commands a poll has read, and unsent those of fresh it holds as pending.
Serving ==
    {s \in [at : {"idle", "enqueue", "commands", "expire", "mark", "result"},
            c : Commands \cup {NoCommand}, outcome : {"done", "failed"}, routes : Nat,
            tooOld : SUBSET Commands, fresh : SUBSET Commands, unsent : SUBSET Commands] :
        s.at \in {"enqueue", "result"} => s.c \in Commands}

Free == [at |-> "idle", c |-> NoCommand, outcome |-> "done", routes |-> 0,
         tooOld |-> {}, fresh |-> {}, unsent |-> {}]

MoveInit ==
    /\ route = 0
    /\ command = [c \in Commands |-> [status |-> "none", old |-> FALSE, move |-> 0]]
    /\ server = [w \in PanelWorkers |-> Free]
    /\ proxy = [routes |-> 0, asked |-> NoPanelWorker, todo |-> {},
                outcome |-> [c \in Commands |-> "none"], stale |-> {}]
    /\ overlaps = 0 /\ died = 0

Serve(w, activity) == server' = [server EXCEPT ![w] = activity]

\* A worker takes a request.
Accepts(w) ==
    /\ server[w].at = "idle"
    /\ IF \A v \in PanelWorkers : server[v].at = "idle"
       THEN UNCHANGED overlaps
       ELSE overlaps + died < MaxTroubles /\ overlaps' = overlaps + 1

-----------------------------------------------------------------------------
(* The move *)

\* Mutant: the disconnect is queued before the routes are written.
QueueBeforeRoutes(w, c) ==
    /\ Accepts(w)
    /\ command[c].status = "none" /\ \A v \in PanelWorkers : server[v].c # c
    /\ command' = [command EXCEPT ![c] = [status |-> "pending", old |-> FALSE,
                                          move |-> route + 1]]
    /\ Serve(w, Free)
    /\ UNCHANGED <<route, proxy, died>>

\* The routes are committed, even if nothing changes; the command comes next.
MoveRoutes(w, c) ==
    /\ Accepts(w)
    /\ command[c].status = "none" /\ \A v \in PanelWorkers : server[v].c # c
    /\ route' = route + 1
    /\ Serve(w, [Free EXCEPT !.at = "enqueue", !.c = c, !.routes = route + 1])
    /\ UNCHANGED <<command, proxy, died>>

Enqueue(w) ==
    /\ server[w].at = "enqueue"
    /\ command' = [command EXCEPT ![server[w].c] = [status |-> "pending", old |-> FALSE,
                                                    move |-> server[w].routes]]
    /\ Serve(w, Free)
    /\ UNCHANGED <<route, proxy, overlaps, died>>

\* DEFAULT_TTL_SECONDS pass.
TtlElapses(c) ==
    /\ command[c].status \in Alive /\ ~command[c].old
    /\ command' = [command EXCEPT ![c].old = TRUE]
    /\ UNCHANGED <<route, server, proxy, overlaps, died>>

-----------------------------------------------------------------------------
(* The poll: routes first, commands later *)

SetStatus(S, status) ==
    command' = [c \in Commands |-> IF c \in S THEN [command[c] EXCEPT !.status = status]
                                              ELSE command[c]]
Pending == {c \in Commands : command[c].status = "pending"}

PollRoutes(w) ==
    /\ proxy.asked = NoPanelWorker
    /\ Accepts(w)
    /\ proxy' = [proxy EXCEPT !.asked = w]
    /\ Serve(w, [Free EXCEPT !.at = "commands", !.routes = route])
    /\ UNCHANGED <<route, command, died>>

\* Mutant: only commands that were never fetched expire.
PollExpiresPending(w) ==
    LET alive == {c \in Commands : command[c].status \in Alive}
        tooOld == {c \in Pending : command[c].old} IN
    /\ server[w].at = "commands"
    /\ Serve(w, [server[w] EXCEPT !.at = IF tooOld = {} THEN "mark" ELSE "expire",
                    !.tooOld = tooOld, !.fresh = alive \ tooOld,
                    !.unsent = Pending \ tooOld])
    /\ UNCHANGED <<route, command, proxy, overlaps, died>>
PollCommands(w) ==
    LET alive == {c \in Commands : command[c].status \in Alive}
        tooOld == {c \in alive : command[c].old} IN
    /\ server[w].at = "commands"
    /\ Serve(w, [server[w] EXCEPT !.at = IF tooOld = {} THEN "mark" ELSE "expire",
                    !.tooOld = tooOld, !.fresh = alive \ tooOld,
                    !.unsent = Pending \ tooOld])
    /\ UNCHANGED <<route, command, proxy, overlaps, died>>

\* The commit makes the session read the other rows again, but not filter them.
PollExpire(w) ==
    /\ server[w].at = "expire"
    /\ SetStatus(server[w].tooOld, "expired")
    /\ Serve(w, [server[w] EXCEPT !.at = "mark", !.tooOld = {},
                    !.unsent = server[w].fresh \cap Pending])
    /\ UNCHANGED <<route, proxy, overlaps, died>>

\* The proxy takes the reply unless it is lost or the proxy has stopped waiting.
Replied(w, arrives) ==
    proxy' = IF proxy.asked # w THEN proxy
             ELSE IF arrives
             THEN [proxy EXCEPT !.asked = NoPanelWorker, !.routes = server[w].routes,
                     !.todo = {c \in server[w].fresh : proxy.outcome[c] = "none"}]
             ELSE [proxy EXCEPT !.asked = NoPanelWorker]

\* Mutant: the alive rows are not filtered before they are marked.
PollMarkAll(w, arrives) ==
    /\ server[w].at = "mark"
    /\ SetStatus({c \in Commands : command[c].status # "none"}, "sent")
    /\ Replied(w, arrives)
    /\ Serve(w, Free)
    /\ UNCHANGED <<route, overlaps, died>>
PollMark(w, arrives) ==
    /\ server[w].at = "mark"
    /\ SetStatus(server[w].unsent, "sent")
    /\ Replied(w, arrives)
    /\ Serve(w, Free)
    /\ UNCHANGED <<route, overlaps, died>>

-----------------------------------------------------------------------------
(* The proxy and its results *)

\* The proxy's call times out, or its connection breaks.
PollTimesOut ==
    /\ proxy.asked # NoPanelWorker
    /\ proxy' = [proxy EXCEPT !.asked = NoPanelWorker]
    /\ UNCHANGED <<route, command, server, overlaps, died>>

\* The CHR acknowledges the disconnect (41) or refuses it (42).  stale: sessions
\* were dropped while the proxy still let the customer in on the old routes.
ProxyDisconnects(c, outcome) ==
    /\ c \in proxy.todo
    /\ proxy' = [proxy EXCEPT !.todo = @ \ {c}, !.outcome[c] = outcome,
                    !.stale = IF proxy.routes < command[c].move THEN @ \cup {c} ELSE @]
    /\ UNCHANGED <<route, command, server, overlaps, died>>

\* The proxy may post a result as often as it likes.
ResultRead(w, c) ==
    /\ proxy.outcome[c] # "none" /\ command[c].status \notin Terminal
    /\ Accepts(w)
    /\ Serve(w, [Free EXCEPT !.at = "result", !.c = c, !.outcome = proxy.outcome[c]])
    /\ UNCHANGED <<route, command, proxy, died>>

\* Mutant: the row gets the word the CHR answered with.
ResultAsAnswered(w) ==
    /\ server[w].at = "result"
    /\ SetStatus({server[w].c}, "acknowledged")
    /\ Serve(w, Free)
    /\ UNCHANGED <<route, proxy, overlaps, died>>
ResultCommit(w) ==
    /\ server[w].at = "result"
    /\ SetStatus({server[w].c}, server[w].outcome)
    /\ Serve(w, Free)
    /\ UNCHANGED <<route, proxy, overlaps, died>>

PanelCrash(w) ==
    /\ server[w].at # "idle" /\ overlaps + died < MaxTroubles
    /\ died' = died + 1
    /\ Serve(w, Free)
    /\ UNCHANGED <<route, command, proxy, overlaps>>

-----------------------------------------------------------------------------

\* The steps that end a request.
Finish(w) ==
    \/ Enqueue(w) \/ ResultCommit(w)
    \/ PollCommands(w) \/ PollExpire(w) \/ \E b \in BOOLEAN : PollMark(w, b)

Polls == \E w \in PanelWorkers : PollRoutes(w)

MoveNext ==
    \/ \E w \in PanelWorkers :
         \/ \E c \in Commands : MoveRoutes(w, c) \/ ResultRead(w, c)
         \/ Finish(w) \/ PanelCrash(w)
    \/ Polls \/ PollTimesOut
    \/ \E c \in Commands :
         TtlElapses(c) \/ \E o \in {"done", "failed"} : ProxyDisconnects(c, o)

MoveSpec == MoveInit /\ [][MoveNext]_moveVars

\* Requests end, the proxy goes on polling, and time passes.  Nothing obliges it
\* to carry out or to report what it is given.
MoveFairness ==
    /\ \A w \in PanelWorkers : WF_moveVars(Finish(w))
    /\ WF_moveVars(Polls) /\ WF_moveVars(PollTimesOut)
    /\ \A c \in Commands : WF_moveVars(TtlElapses(c))

-----------------------------------------------------------------------------
(* Properties *)

\* Rows, requests and the proxy have the shape of their columns and variables.
MoveTypeOK ==
    /\ route \in Nat
    /\ command \in [Commands -> CommandRow]
    /\ server \in [PanelWorkers -> Serving]
    /\ proxy \in [routes : Nat, asked : PanelWorkers \cup {NoPanelWorker},
                  todo : SUBSET Commands, stale : SUBSET Commands,
                  outcome : [Commands -> {"none", "done", "failed"}]]
    /\ overlaps \in 0..MaxTroubles
    /\ died \in 0..MaxTroubles

\* A command that is done, failed or expired stays so as long as no two requests
\* overlap: the lazy expiry, the lazy marking, the proxy's repeated posts and a
\* crash between any two commits do not undo each other.
TerminalIsFinal ==
    [][\A c \in Commands : command[c].status \in Terminal =>
          overlaps' > 0 \/ command'[c].status = command[c].status]_moveVars

\* The proxy drops a customer's sessions only when it already has the routes of the
\* move; a session dropped earlier would come back on the old node.  A poll that
\* overlaps a move may read the old routes and the new command.
DisconnectSeesRoutes == overlaps = 0 => proxy.stale = {}

\* Sooner or later no disconnect is open any more, for good, however requests overlap,
\* replies are lost and workers die: a poll that works from stale rows may reopen a
\* command, but only until the time to live ends it.
CommandsSettle == <>[](\A c \in Commands : command[c].status \notin Alive)

MoveFairSpec == MoveSpec /\ MoveFairness
=============================================================================
