------------------------------- MODULE Tunnel -------------------------------
(***************************************************************************)
(* The database tunnel of internal/tunnel/db.go: a local TCP listener, one *)
(* accept loop, one handler and two copy pumps per client, and Close.      *)
(*                                                                         *)
(* One action is one step another goroutine can be interleaved with: what  *)
(* happens under t.mu or between two blocking calls is atomic only where   *)
(* the code makes it so.  Bytes are abstracted to "a chunk read and not    *)
(* yet written"; sockets to whether this process still holds them open.    *)
(*                                                                         *)
(* A definition whose name ends in what is wrong with it (NoAdd, NoWait,   *)
(* Unchecked, Inline, Both, Leaked, Unbuffered, Deferred) is a faulty      *)
(* variant of the action that follows it; no specification uses it.        *)
(***************************************************************************)
EXTENDS Naturals, FiniteSets

CONSTANTS Conns,    \* the clients that may connect to the local listener
          Closers,  \* the goroutines that may call Close
          Resets    \* the sockets, <<c, side>>, that their peer may reset

ASSUME ConnsFinite == IsFiniteSet(Conns)

VARIABLES
  listener,      \* the local listener
  loop,          \* acceptLoop: before Accept, holding a client, or returned
  closed,        \* t.closed; t.ctx is cancelled in the same critical section
  mu,            \* t.mu is held across steps (only Close does that)
  conns,         \* t.conns, the client connections Close will force-close
  wg,            \* t.wg's counter
  closer,        \* where each caller of Close is
  todo,          \* the entries of t.conns Close's range loop has not visited
  handler,       \* where each client is, from the backlog to wg.Done
  clientOpen,    \* clients whose accepted socket this process holds open
  upstreamOpen,  \* clients whose socket to the Teleport proxy is open
  pump,          \* where each of a client's two copy goroutines is
  done,          \* tokens in the handler's done channel
  fin,           \* <<c, side>>: the next read from that side returns EOF
  broken,        \* <<c, side>>: that side was reset by its peer
  relayed        \* history: <<c, d>> ended at EOF with every byte written

netVars  == <<fin, broken>>
pumpVars == <<pump, relayed>>
vars == <<listener, loop, closed, mu, conns, wg, closer, todo, handler,
          clientOpen, upstreamOpen, pump, done, fin, broken, relayed>>

Sides == {"client", "upstream"}
Dirs  == {"up", "down"}
Src(d) == IF d = "up" THEN "client" ELSE "upstream"
Dst(d) == IF d = "up" THEN "upstream" ELSE "client"

DoneCap == 2        \* make(chan struct{}, 2)

IsOpen(c, side) == IF side = "client" THEN c \in clientOpen ELSE c \in upstreamOpen

HandlerStates == {"dial", "pump", "closeUp", "closeClient", "untrack", "wgDone"}
ConnStates == HandlerStates \cup
  {"idle", "backlog", "refused", "accepted", "rejected", "tracked", "gone"}

\* Clients with a handler goroutine, each of which owes t.wg one Done.
Active == {c \in Conns : handler[c] \in HandlerStates}

TypeOK ==
  /\ listener \in {"none", "open", "closed"}
  /\ loop \in {"none", "accept", "busy", "done"}
  /\ closed \in BOOLEAN
  /\ mu \in BOOLEAN
  /\ conns \subseteq Conns
  /\ wg \in Nat
  /\ closer \in [Closers ->
       {"idle", "called", "noop", "listener", "conns", "wait", "done"}]
  /\ todo \subseteq Conns
  /\ handler \in [Conns -> ConnStates]
  /\ clientOpen \subseteq Conns
  /\ upstreamOpen \subseteq Conns
  /\ pump \in [Conns -> [Dirs -> {"none", "read", "write", "send", "exit"}]]
  /\ done \in [Conns -> 0 .. DoneCap]
  /\ fin \subseteq Conns \X Sides
  /\ broken \subseteq Conns \X Sides
  /\ relayed \subseteq Conns \X Dirs

Init ==
  /\ listener = "none"
  /\ loop = "none"
  /\ closed = FALSE
  /\ mu = FALSE
  /\ conns = {}
  /\ wg = 0
  /\ closer = [p \in Closers |-> "idle"]
  /\ todo = {}
  /\ handler = [c \in Conns |-> "idle"]
  /\ clientOpen = {}
  /\ upstreamOpen = {}
  /\ pump = [c \in Conns |-> [d \in Dirs |-> "none"]]
  /\ done = [c \in Conns |-> 0]
  /\ fin = {}
  /\ broken = {}
  /\ relayed = {}

----------------------------------------------------------------------------
(* The environment: local clients and the Teleport proxy.                  *)

\* The kernel completes a client's handshake whenever the listener is open,
\* whether or not anything calls Accept.
Connect(c) ==
  /\ listener = "open"
  /\ handler[c] = "idle"
  /\ handler' = [handler EXCEPT ![c] = "backlog"]
  /\ UNCHANGED <<listener, loop, closed, mu, conns, wg, closer, todo,
                 clientOpen, upstreamOpen, done, netVars, pumpVars>>

\* A peer ends its sending half; everything it sent has been read.
PeerFin(c, side) ==
  /\ handler[c] = "pump"
  /\ <<c, side>> \notin fin
  /\ fin' = fin \cup {<<c, side>>}
  /\ UNCHANGED <<listener, loop, closed, mu, conns, wg, closer, todo, handler,
                 clientOpen, upstreamOpen, done, broken, pumpVars>>

\* A peer resets its connection.
PeerBreak(c, side) ==
  /\ handler[c] = "pump"
  /\ <<c, side>> \in Resets \ broken
  /\ broken' = broken \cup {<<c, side>>}
  /\ UNCHANGED <<listener, loop, closed, mu, conns, wg, closer, todo, handler,
                 clientOpen, upstreamOpen, done, fin, pumpVars>>

----------------------------------------------------------------------------
(* NewDBTunnel and the accept loop.                                        *)

NewDBTunnelNoAdd ==
  /\ loop = "none"
  /\ listener' = "open"
  /\ loop' = "accept"
  /\ UNCHANGED <<closed, mu, conns, wg, closer, todo, handler, clientOpen,
                 upstreamOpen, done, netVars, pumpVars>>

\* The validations before net.Listen acquire nothing, so a failed
\* NewDBTunnel leaves the initial state.
NewDBTunnel ==
  /\ loop = "none"
  /\ listener' = "open"
  /\ loop' = "accept"
  /\ wg' = wg + 1
  /\ UNCHANGED <<closed, mu, conns, closer, todo, handler, clientOpen,
                 upstreamOpen, done, netVars, pumpVars>>

\* listener.Accept returns a client.
Accept(c) ==
  /\ loop = "accept"
  /\ listener = "open"
  /\ handler[c] = "backlog"
  /\ loop' = "busy"
  /\ handler' = [handler EXCEPT ![c] = "accepted"]
  /\ clientOpen' = clientOpen \cup {c}
  /\ UNCHANGED <<listener, closed, mu, conns, wg, closer, todo, upstreamOpen,
                 done, netVars, pumpVars>>

\* listener.Accept returns an error: the loop returns whatever the error is.
AcceptError ==
  /\ loop = "accept"
  /\ loop' = "done"
  /\ wg' = wg - 1
  /\ UNCHANGED <<listener, closed, mu, conns, closer, todo, handler,
                 clientOpen, upstreamOpen, done, netVars, pumpVars>>

AcceptClosed == listener = "closed" /\ AcceptError

\* EMFILE, ENFILE...: an error of a listener that is still open.  (A client that
\* is gone before it is accepted is no error: package net goes on to the next.)
AcceptFails == listener = "open" /\ AcceptError

TrackConnUnchecked(c) ==
  /\ handler[c] = "accepted"
  /\ ~mu
  /\ conns' = conns \cup {c}
  /\ handler' = [handler EXCEPT ![c] = "tracked"]
  /\ UNCHANGED <<listener, loop, closed, mu, wg, closer, todo, clientOpen,
                 upstreamOpen, done, netVars, pumpVars>>

TrackConn(c) ==
  /\ handler[c] = "accepted"
  /\ ~mu
  /\ \/ /\ closed
        /\ handler' = [handler EXCEPT ![c] = "rejected"]
        /\ UNCHANGED conns
     \/ /\ ~closed
        /\ conns' = conns \cup {c}
        /\ handler' = [handler EXCEPT ![c] = "tracked"]
  /\ UNCHANGED <<listener, loop, closed, mu, wg, closer, todo, clientOpen,
                 upstreamOpen, done, netVars, pumpVars>>

\* trackConn said no: the loop closes the client and returns.
Reject(c) ==
  /\ handler[c] = "rejected"
  /\ handler' = [handler EXCEPT ![c] = "refused"]
  /\ clientOpen' = clientOpen \ {c}
  /\ loop' = "done"
  /\ wg' = wg - 1
  /\ UNCHANGED <<listener, closed, mu, conns, closer, todo, upstreamOpen,
                 done, netVars, pumpVars>>

SpawnNoAdd(c) ==
  /\ handler[c] = "tracked"
  /\ handler' = [handler EXCEPT ![c] = "dial"]
  /\ loop' = "accept"
  /\ UNCHANGED <<listener, closed, mu, conns, wg, closer, todo, clientOpen,
                 upstreamOpen, done, netVars, pumpVars>>

SpawnInline(c) ==
  /\ handler[c] = "tracked"
  /\ handler' = [handler EXCEPT ![c] = "dial"]
  /\ wg' = wg + 1
  /\ UNCHANGED <<listener, loop, closed, mu, conns, closer, todo, clientOpen,
                 upstreamOpen, done, netVars, pumpVars>>

\* wg.Add(1); go t.handleConn(client).
Spawn(c) ==
  /\ handler[c] = "tracked"
  /\ handler' = [handler EXCEPT ![c] = "dial"]
  /\ loop' = "accept"
  /\ wg' = wg + 1
  /\ UNCHANGED <<listener, closed, mu, conns, closer, todo, clientOpen,
                 upstreamOpen, done, netVars, pumpVars>>

----------------------------------------------------------------------------
(* handleConn, and its defers in the order they run.                       *)

\* The dial succeeds and both pumps start.  It may still succeed after
\* cancel(): the context is only looked at while the dial is in progress.
DialOK(c) ==
  /\ handler[c] = "dial"
  /\ handler' = [handler EXCEPT ![c] = "pump"]
  /\ upstreamOpen' = upstreamOpen \cup {c}
  /\ pump' = [pump EXCEPT ![c] = [d \in Dirs |-> "read"]]
  /\ UNCHANGED <<listener, loop, closed, mu, conns, wg, closer, todo,
                 clientOpen, done, netVars, relayed>>

DialFail(c) ==
  /\ handler[c] = "dial"
  /\ handler' = [handler EXCEPT ![c] = "closeClient"]
  /\ UNCHANGED <<listener, loop, closed, mu, conns, wg, closer, todo,
                 clientOpen, upstreamOpen, done, netVars, pumpVars>>

HandleDoneNoWait(c) ==
  /\ handler[c] = "pump"
  /\ handler' = [handler EXCEPT ![c] = "closeUp"]
  /\ UNCHANGED <<listener, loop, closed, mu, conns, wg, closer, todo,
                 clientOpen, upstreamOpen, done, netVars, pumpVars>>

HandleDoneBoth(c) ==
  /\ handler[c] = "pump"
  /\ done[c] = DoneCap
  /\ done' = [done EXCEPT ![c] = 0]
  /\ handler' = [handler EXCEPT ![c] = "closeUp"]
  /\ UNCHANGED <<listener, loop, closed, mu, conns, wg, closer, todo,
                 clientOpen, upstreamOpen, netVars, pumpVars>>

\* <-done: one of the two pumps has ended.
HandleDone(c) ==
  /\ handler[c] = "pump"
  /\ done[c] > 0
  /\ done' = [done EXCEPT ![c] = @ - 1]
  /\ handler' = [handler EXCEPT ![c] = "closeUp"]
  /\ UNCHANGED <<listener, loop, closed, mu, conns, wg, closer, todo,
                 clientOpen, upstreamOpen, netVars, pumpVars>>

CloseUpstreamLeaked(c) ==
  /\ handler[c] = "closeUp"
  /\ handler' = [handler EXCEPT ![c] = "closeClient"]
  /\ UNCHANGED <<listener, loop, closed, mu, conns, wg, closer, todo,
                 clientOpen, upstreamOpen, done, netVars, pumpVars>>

CloseUpstream(c) ==
  /\ handler[c] = "closeUp"
  /\ handler' = [handler EXCEPT ![c] = "closeClient"]
  /\ upstreamOpen' = upstreamOpen \ {c}
  /\ UNCHANGED <<listener, loop, closed, mu, conns, wg, closer, todo,
                 clientOpen, done, netVars, pumpVars>>

CloseClient(c) ==
  /\ handler[c] = "closeClient"
  /\ handler' = [handler EXCEPT ![c] = "untrack"]
  /\ clientOpen' = clientOpen \ {c}
  /\ UNCHANGED <<listener, loop, closed, mu, conns, wg, closer, todo,
                 upstreamOpen, done, netVars, pumpVars>>

UntrackConn(c) ==
  /\ handler[c] = "untrack"
  /\ ~mu
  /\ handler' = [handler EXCEPT ![c] = "wgDone"]
  /\ conns' = conns \ {c}
  /\ UNCHANGED <<listener, loop, closed, mu, wg, closer, todo, clientOpen,
                 upstreamOpen, done, netVars, pumpVars>>

HandlerExit(c) ==
  /\ handler[c] = "wgDone"
  /\ handler' = [handler EXCEPT ![c] = "gone"]
  /\ wg' = wg - 1
  /\ UNCHANGED <<listener, loop, closed, mu, conns, closer, todo, clientOpen,
                 upstreamOpen, done, netVars, pumpVars>>

----------------------------------------------------------------------------
(* The two copy goroutines of a handler.  They are not counted in t.wg.    *)

StepPump(c, d, from, to) ==
  /\ pump[c][d] = from
  /\ pump' = [pump EXCEPT ![c][d] = to]
  /\ UNCHANGED <<listener, loop, closed, mu, conns, wg, closer, todo, handler,
                 clientOpen, upstreamOpen, netVars>>

Usable(c, side) == IsOpen(c, side) /\ <<c, side>> \notin broken

\* io.Copy reads a chunk...
PumpRead(c, d) ==
  /\ StepPump(c, d, "read", "write")
  /\ Usable(c, Src(d))
  /\ <<c, Src(d)>> \notin fin
  /\ UNCHANGED <<done, relayed>>

\* ...and writes it.  The write blocks for as long as the peer does not read.
PumpWrite(c, d) ==
  /\ StepPump(c, d, "write", "read")
  /\ Usable(c, Dst(d))
  /\ UNCHANGED <<done, relayed>>

\* A read returns EOF: the copy is complete and closeWrite(dst) follows.
PumpEof(c, d) ==
  /\ StepPump(c, d, "read", "send")
  /\ Usable(c, Src(d))
  /\ <<c, Src(d)>> \in fin
  /\ relayed' = relayed \cup {<<c, d>>}
  /\ UNCHANGED done

\* A read or a write fails; the error is dropped and closeWrite(dst) follows.
PumpError(c, d) ==
  /\ \/ StepPump(c, d, "read", "send") /\ ~Usable(c, Src(d))
     \/ StepPump(c, d, "write", "send") /\ ~Usable(c, Dst(d))
  /\ UNCHANGED <<done, relayed>>

PumpSendUnbuffered(c, d) ==
  /\ handler[c] = "pump"
  /\ done[c] = 0
  /\ StepPump(c, d, "send", "exit")
  /\ done' = [done EXCEPT ![c] = @ + 1]
  /\ UNCHANGED relayed

\* done <- struct{}{}, into a channel with room for both pumps.
PumpSend(c, d) ==
  /\ done[c] < DoneCap
  /\ StepPump(c, d, "send", "exit")
  /\ done' = [done EXCEPT ![c] = @ + 1]
  /\ UNCHANGED relayed

----------------------------------------------------------------------------
(* Close, called by p.                                                     *)

CloseCall(p) ==
  /\ loop # "none"
  /\ closer[p] = "idle"
  /\ closer' = [closer EXCEPT ![p] = "called"]
  /\ UNCHANGED <<listener, loop, closed, mu, conns, wg, todo, handler,
                 clientOpen, upstreamOpen, done, netVars, pumpVars>>

\* Lock; a second caller finds t.closed and returns nil at once, the first
\* sets it and cancels the context.
CloseBegin(p) ==
  /\ closer[p] = "called"
  /\ ~mu
  /\ \/ /\ closed
        /\ closer' = [closer EXCEPT ![p] = "noop"]
        /\ UNCHANGED <<closed, mu>>
     \/ /\ ~closed
        /\ closer' = [closer EXCEPT ![p] = "listener"]
        /\ closed' = TRUE
        /\ mu' = TRUE
  /\ UNCHANGED <<listener, loop, conns, wg, todo, handler, clientOpen,
                 upstreamOpen, done, netVars, pumpVars>>

\* listener.Close(): the kernel resets what is still in the backlog.
CloseListener(p) ==
  /\ closer[p] = "listener"
  /\ closer' = [closer EXCEPT ![p] = "conns"]
  /\ listener' = "closed"
  /\ handler' = [c \in Conns |->
                   IF handler[c] = "backlog" THEN "refused" ELSE handler[c]]
  /\ todo' = conns
  /\ UNCHANGED <<loop, closed, mu, conns, wg, clientOpen, upstreamOpen, done,
                 netVars, pumpVars>>

\* for c := range t.conns { c.Close() }, one connection.
CloseConn(p, c) ==
  /\ closer[p] = "conns"
  /\ c \in todo
  /\ todo' = todo \ {c}
  /\ clientOpen' = clientOpen \ {c}
  /\ UNCHANGED <<listener, loop, closed, mu, conns, wg, closer, handler,
                 upstreamOpen, done, netVars, pumpVars>>

CloseUnlockDeferred(p) ==
  /\ closer[p] = "conns"
  /\ todo = {}
  /\ closer' = [closer EXCEPT ![p] = "wait"]
  /\ UNCHANGED <<listener, loop, closed, mu, conns, wg, todo, handler,
                 clientOpen, upstreamOpen, done, netVars, pumpVars>>

CloseUnlock(p) ==
  /\ closer[p] = "conns"
  /\ todo = {}
  /\ closer' = [closer EXCEPT ![p] = "wait"]
  /\ mu' = FALSE
  /\ UNCHANGED <<listener, loop, closed, conns, wg, todo, handler, clientOpen,
                 upstreamOpen, done, netVars, pumpVars>>

CloseNoWait(p) ==
  /\ closer[p] = "wait"
  /\ closer' = [closer EXCEPT ![p] = "done"]
  /\ UNCHANGED <<listener, loop, closed, mu, conns, wg, todo, handler,
                 clientOpen, upstreamOpen, done, netVars, pumpVars>>

\* t.wg.Wait() returns, and with it Close.
CloseWait(p) ==
  /\ closer[p] = "wait"
  /\ wg = 0
  /\ closer' = [closer EXCEPT ![p] = "done"]
  /\ UNCHANGED <<listener, loop, closed, mu, conns, wg, todo, handler,
                 clientOpen, upstreamOpen, done, netVars, pumpVars>>

----------------------------------------------------------------------------
(* Specifications.                                                         *)

EnvConn(c) == Connect(c) \/ \E side \in Sides : PeerFin(c, side) \/ PeerBreak(c, side)

LoopStep(c) == Accept(c) \/ TrackConn(c) \/ Reject(c) \/ Spawn(c)

HandlerLocal(c) ==
  HandleDone(c) \/ CloseUpstream(c) \/ CloseClient(c) \/ UntrackConn(c) \/ HandlerExit(c)

HandlerStep(c) == DialOK(c) \/ DialFail(c) \/ HandlerLocal(c)

PumpLocal(c, d) == PumpEof(c, d) \/ PumpError(c, d) \/ PumpSend(c, d)

CloseLocal(p) ==
  \/ CloseBegin(p) \/ CloseListener(p) \/ CloseUnlock(p) \/ CloseWait(p)
  \/ \E c \in Conns : CloseConn(p, c)

Next ==
  \/ NewDBTunnel \/ AcceptClosed \/ AcceptFails
  \/ \E c \in Conns : EnvConn(c) \/ LoopStep(c) \/ HandlerStep(c)
  \/ \E c \in Conns, d \in Dirs : PumpLocal(c, d) \/ PumpRead(c, d) \/ PumpWrite(c, d)
  \/ \E p \in Closers : CloseCall(p) \/ CloseLocal(p)

Spec == Init /\ [][Next]_vars

\* The Go scheduler runs every goroutine that can run.  A mutex or a channel
\* gets no more than that: t.mu is held across steps only once.  A dial has
\* to end only after cancel(): the TLS handshake before it is unbounded.
\* Nothing is assumed of clients, of the proxy, or of who calls Close.
Fairness ==
  /\ WF_vars(AcceptClosed)
  /\ \A c \in Conns :
       /\ WF_vars(LoopStep(c))
       /\ WF_vars(HandlerLocal(c))
       /\ WF_vars(closed /\ (DialOK(c) \/ DialFail(c)))
       /\ \A d \in Dirs : WF_vars(PumpLocal(c, d))
  /\ \A p \in Closers : WF_vars(CloseLocal(p))

FairSpec == Spec /\ Fairness

\* The proxy also keeps reading what is written to it.  The code does not
\* enforce this: no write has a deadline.
ProxyDrains == \A c \in Conns : WF_vars(PumpWrite(c, "up"))

DrainSpec == FairSpec /\ ProxyDrains

----------------------------------------------------------------------------
(* Properties.                                                             *)

Returned == \E p \in Closers : closer[p] = "done"

\* The accept loop and every handler are over, and with them every socket.
NothingHeld ==
  /\ listener = "closed"
  /\ loop = "done"
  /\ conns = {}
  /\ clientOpen = {}
  /\ upstreamOpen = {}
  /\ \A c \in Conns : handler[c] \in {"idle", "refused", "gone"}

\* Once the Close that does the work has returned, nothing of the tunnel is
\* left: "so nothing leaks past terraform apply" (DBTunnel's doc comment).
NothingLeaks == Returned => NothingHeld

\* From the moment Close lets go of t.mu, no registered client is still
\* open, although trackConn and the handlers run concurrently with it.
ForceClosed ==
  closed /\ ~mu => listener = "closed" /\ conns \cap clientOpen = {}

\* A second caller of Close returns without waiting for the first, but not before
\* the listener and every registered client are closed.
SecondCloseForces ==
  \A p \in Closers :
    closer[p] = "noop" => closed /\ listener = "closed" /\ conns \cap clientOpen = {}

\* wg.Add never raises the counter from zero once the tunnel is up, so it
\* never races a Wait that is about to return (sync.WaitGroup's contract).
NoAddFromZero == [][wg' > wg => wg > 0 \/ loop = "none"]_vars

\* What a handler may take for the end of a connection.
Ended(c) ==
  \/ closed
  \/ \E side \in Sides : <<c, side>> \in broken
  \/ \E d \in Dirs : <<c, d>> \in relayed

\* A handler gives up on a connection only for a reason: the tunnel is
\* closing, a peer reset it, or one direction was relayed to its end.
FirstEndedIsComplete ==
  [][\A c \in Conns :
       handler[c] = "pump" /\ handler'[c] = "closeUp"
         => Ended(c)]_vars

\* Every call of Close returns.
CloseReturns ==
  \A p \in Closers : closer[p] = "called" ~> closer[p] \in {"noop", "done"}

\* The pumps are not waited for, yet none outlives its handler for ever: the
\* done channel has room for both, and closed sockets end their copies.
NoPumpSurvives ==
  \A c \in Conns, d \in Dirs :
    handler[c] = "gone" ~> pump[c][d] \in {"none", "exit"}

\* While the accept loop is alive a client that reached the listener is
\* taken off the backlog, whatever the other connections are doing.
BacklogAnswered ==
  \A c \in Conns :
    handler[c] = "backlog" ~> handler[c] # "backlog" \/ loop = "done"

\* The comment on the loop's return says an Accept error means "listener
\* closed or unrecoverable": a client that reached an open listener is always
\* accepted, or refused when the tunnel is closed.
BacklogNeverAbandoned ==
  \A c \in Conns : handler[c] = "backlog" ~> handler[c] # "backlog"

----------------------------------------------------------------------------
(* What Close may have to wait for.  A step is due when its goroutine can   *)
(* take it without waiting for a peer: a guard of one of the fair actions.  *)

HandlerDue(c) ==
  \/ handler[c] \in {"rejected", "tracked", "dial", "closeUp", "closeClient", "wgDone"}
  \/ handler[c] \in {"accepted", "untrack"} /\ ~mu
  \/ handler[c] = "pump" /\ done[c] > 0

\* The copy to the proxy can end.
UpCopyDue(c) ==
  \/ pump[c]["up"] = "send" /\ done[c] < DoneCap
  \/ pump[c]["up"] = "read" /\ ~Usable(c, "client")
  \/ pump[c]["up"] = "write" /\ ~Usable(c, "upstream")

CloseDue(p) == closer[p] \in {"listener", "conns"} \/ (closer[p] = "wait" /\ wg = 0)

\* One of the goroutines that Close waits for, or the working Close, can go on.
SomeStepDue ==
  \/ loop = "accept" /\ listener = "closed"
  \/ \E c \in Conns : HandlerDue(c) \/ (handler[c] = "pump" /\ UpCopyDue(c))
  \/ \E p \in Closers : CloseDue(p)

\* A copy to the proxy is under way, and nothing has closed that socket.
Stalled(c) == handler[c] = "pump" /\ pump[c]["up"] = "write" /\ Usable(c, "upstream")

\* t.mu, t.wg and the done channels never make Close and the goroutines wait
\* for one another: if none of them can go on, a write to the proxy is pending.
\* (db.go:243-292 against 295-310)
CloseHeldUpByWritesOnly ==
  closed /\ ~Returned => SomeStepDue \/ \E c \in Conns : Stalled(c)

\* How far a client is on its way through the tunnel.
Rank(h) ==
  CASE h = "idle"     -> 0
    [] h = "backlog"  -> 1
    [] h = "accepted" -> 2
    [] h \in {"tracked", "rejected"} -> 3
    [] h \in {"dial", "refused"}     -> 4
    [] h = "pump"        -> 5
    [] h = "closeUp"     -> 6
    [] h = "closeClient" -> 7
    [] h = "untrack"     -> 8
    [] h = "wgDone"      -> 9
    [] OTHER             -> 10

\* A client only ever moves on: it is accepted, tracked and handled at most once,
\* and each close, untrackConn and wg.Done of its handler happens once.
OneWay ==
  [][\A c \in Conns : handler'[c] # handler[c] => Rank(handler[c]) < Rank(handler'[c])]_vars

\* The copies of a handler that has closed its sockets run out: a copy moves no
\* more data and each of its steps takes it closer to its end.
CopiesRunOut ==
  [][\A c \in Conns, d \in Dirs :
       handler[c] \in {"untrack", "wgDone", "gone"} /\ pump'[c][d] # pump[c][d] =>
         \/ pump[c][d] \in {"read", "write"} /\ pump'[c][d] = "send"
         \/ pump[c][d] = "send" /\ pump'[c][d] = "exit"]_vars

\* t.conns, a map, does not change while Close ranges over it.
RangeUndisturbed ==
  [][(\E p \in Closers : closer[p] = "conns") => conns' = conns]_vars

\* Nothing a tunnel held comes back once Close has returned, whatever its clients,
\* its copies and later callers of Close do.
StaysClosed ==
  [][Returned => Returned' /\ UNCHANGED <<listener, loop, closed, mu, conns, wg,
                                         handler, clientOpen, upstreamOpen>>]_vars

----------------------------------------------------------------------------
(* The inductive invariant behind NothingLeaks, ForceClosed and            *)
(* NoAddFromZero (proved in TunnelProofs).                                 *)

\* The client the accept loop has in hand, between Accept and go handleConn.
Busy == {c \in Conns : handler[c] \in {"accepted", "rejected", "tracked"}}

LoopOwnsOne ==
  /\ loop = "busy" <=> Busy # {}
  /\ \A c, e \in Busy : c = e
  /\ \A c \in Conns : handler[c] = "rejected" => closed

\* t.wg counts the accept loop and the handlers, and nothing else.
WgCounts ==
  wg = Cardinality(Active) + (IF loop \in {"accept", "busy"} THEN 1 ELSE 0)

\* t.conns holds a client from trackConn to untrackConn.
ConnsTracked ==
  conns = {c \in Conns :
             handler[c] \in {"tracked", "dial", "pump", "closeUp", "closeClient", "untrack"}}

\* Every socket still open has the loop or a handler that will close it.
SocketsOwned ==
  /\ \A c \in clientOpen :
       handler[c] \in {"accepted", "rejected", "tracked",
                       "dial", "pump", "closeUp", "closeClient"}
  /\ \A c \in upstreamOpen : handler[c] \in {"pump", "closeUp"}
  /\ \A c \in Conns : handler[c] = "backlog" => listener = "open"

\* One caller of Close does the work, and it alone holds t.mu across steps.
Owner(p) == closer[p] \in {"listener", "conns", "wait", "done"}

LockOwned ==
  /\ closed <=> \E p \in Closers : Owner(p)
  /\ \A p, q \in Closers : Owner(p) /\ Owner(q) => p = q
  /\ mu <=> \E p \in Closers : closer[p] \in {"listener", "conns"}
  /\ loop = "none" => \A p \in Closers : closer[p] = "idle"

\* How far the working Close has come tells what it has already shut.
CloseProgress ==
  \A p \in Closers :
    /\ closer[p] \in {"conns", "wait", "done"} => listener = "closed"
    /\ closer[p] = "conns" => conns \cap clientOpen \subseteq todo
    /\ closer[p] \in {"wait", "done"} => conns \cap clientOpen = {}
    /\ closer[p] = "done" => loop = "done" /\ Active = {}

IInv ==
  /\ TypeOK
  /\ LoopOwnsOne
  /\ WgCounts
  /\ ConnsTracked
  /\ SocketsOwned
  /\ LockOwned
  /\ CloseProgress

\* A handler in its copying phase holds both sockets, unless Close took the
\* client's; a pump that stopped, and a token in done, have a cause.
PumpsCaused ==
  \A c \in Conns :
    /\ handler[c] \in {"accepted", "tracked", "dial", "pump"} => closed \/ c \in clientOpen
    /\ handler[c] = "pump" => c \in upstreamOpen
    /\ handler[c] \in ConnStates \ {"pump", "closeUp", "closeClient", "untrack", "wgDone", "gone"} =>
         /\ pump[c] = [d \in Dirs |-> "none"]
         /\ done[c] = 0
    /\ handler[c] = "pump" =>
         /\ done[c] > 0 => Ended(c)
         /\ \A d \in Dirs : pump[c][d] \in {"send", "exit"} => Ended(c)

\* A token that a copy has still to put into its handler's done channel.
Owes(c, d) == IF pump[c][d] \in {"read", "write", "send"} THEN 1 ELSE 0

\* There is room for every token still to come, and a handler that waits for one
\* has not taken any.
TokensCounted ==
  \A c \in Conns :
    LET tokens == done[c] + Owes(c, "up") + Owes(c, "down")
    IN  tokens <= DoneCap /\ (handler[c] = "pump" => tokens = DoneCap)

\* A caller that found t.closed set had t.mu, so the first had released it.
NoopLate == \A p \in Closers : closer[p] = "noop" => closed /\ ~mu

CInv == IInv /\ PumpsCaused /\ TokensCounted /\ NoopLate

----------------------------------------------------------------------------
(* What a tunnel promises, whatever its goroutines do: see TunnelSpec.     *)

Status ==
  CASE loop = "none" -> "down"
    [] loop # "none" /\ ~closed -> "up"
    [] closed /\ ~Returned -> "closing"
    [] OTHER -> "closed"

Live   == {c \in Conns : handler[c] \in HandlerStates \cup {"tracked"}}
Served == {c \in Conns : handler[c] \in HandlerStates \cup {"tracked", "gone"}}

Promise == INSTANCE TunnelSpec WITH status <- Status, live <- Live, served <- Served

PromiseKept     == Promise!Spec
PromiseKeptLive == Promise!FairSpec
=============================================================================
