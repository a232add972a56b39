------------------------------ MODULE SSHTunnel ------------------------------
(***************************************************************************)
(* The SSH tunnel of internal/tunnel/ssh.go.  Its listener, accept loop,   *)
(* handlers and the locked part of Close are statement for statement those *)
(* of db.go, so this module takes Tunnel's actions for them and adds what  *)
(* is different: a constructor that acquires a proxy client, a host        *)
(* connection, an SSH session and a listener in turn and gives back what   *)
(* it has when a stage fails; upstreams that are channels of that one      *)
(* session; and a Close that ends the session and the proxy client after   *)
(* the handlers.                                                           *)
(*                                                                         *)
(* A definition whose name ends in Kept, NoWait or Skipped is a faulty     *)
(* variant of the action that follows it.                                  *)
(***************************************************************************)
EXTENDS Tunnel

ASSUME ChannelsMayBreak == Conns \X {"upstream"} \subseteq Resets

VARIABLES
  stage,     \* how far NewSSHTunnel has come
  held,      \* what it opened and the program has not closed
  teardown,  \* what Close does after wg.Wait: "none", "session", "proxy", "done"
  lost,      \* the session's connection has failed
  dead       \* clients whose channel the SSH multiplexer has dropped

sshVars == <<stage, held, teardown, lost, dead>>
allVars == <<vars, sshVars>>

SSHTypeOK ==
  /\ stage \in {"none", "dialHost", "handshake", "listen", "up", "failed"}
  /\ held \subseteq {"proxy", "host", "session"}
  /\ teardown \in {"none", "session", "proxy", "done"}
  /\ lost \in BOOLEAN
  /\ dead \subseteq Conns

SSHInit ==
  /\ Init
  /\ stage = "none"
  /\ held = {}
  /\ teardown = "none"
  /\ lost = FALSE
  /\ dead = {}

----------------------------------------------------------------------------
(* NewSSHTunnel.                                                           *)

Stage(from, to, holding) ==
  /\ stage = from
  /\ stage' = to
  /\ held' = holding
  /\ UNCHANGED <<teardown, lost, dead>>

\* The checks and signers before tpproxy.NewClient acquire nothing.
NewClient ==
  /\ Stage("none", "dialHost", {"proxy"}) \/ Stage("none", "failed", {})
  /\ UNCHANGED vars

DialHost ==
  /\ Stage("dialHost", "handshake", {"proxy", "host"}) \/ Stage("dialHost", "failed", {})
  /\ UNCHANGED vars

HandshakeKept ==
  /\ \/ Stage("handshake", "listen", {"proxy", "session"})
     \/ Stage("handshake", "failed", {"proxy"})
  /\ UNCHANGED vars

\* ssh.NewClientConn: the session takes the host connection over.
Handshake ==
  /\ \/ Stage("handshake", "listen", {"proxy", "session"})
     \/ Stage("handshake", "failed", {})
  /\ UNCHANGED vars

\* net.Listen, and the accept loop starts.
Listen == Stage("listen", "up", held) /\ NewDBTunnel

ListenFails == Stage("listen", "failed", {}) /\ UNCHANGED vars

----------------------------------------------------------------------------
(* The session and its channels.                                           *)

\* The connection to the gateway or to the proxy fails.  Nothing reconnects.
SessionLost ==
  /\ "session" \in held
  /\ ~lost
  /\ lost' = TRUE
  /\ UNCHANGED <<vars, stage, held, teardown, dead>>

SessionOver == lost \/ "session" \notin held

\* The multiplexer drops a channel: the peer closed it or answered our
\* close, or the session is over.  Reads and writes on it return from now on.
ChannelDropped(c) ==
  /\ pump[c] # [d \in Dirs |-> "none"]
  /\ c \notin dead
  /\ dead' = dead \cup {c}
  /\ \/ handler[c] = "pump" /\ PeerBreak(c, "upstream")
     \/ handler[c] # "pump" /\ UNCHANGED vars
  /\ UNCHANGED <<stage, held, teardown, lost>>

\* A channel is opened through the session.
DialChannel(c) == ~SessionOver /\ DialOK(c)

\* upstream.Close(), CloseUpstream here, only sends the close message, for which it
\* may have to wait: a pump that reads the channel stays in the read until the
\* multiplexer drops it.
ChannelError(c, d) == PumpError(c, d) /\ (pump[c][d] = "read" /\ d = "down" => c \in dead)

SSHHandler(c) == DialChannel(c) \/ DialFail(c) \/ HandlerLocal(c)
SSHPump(c, d) == PumpEof(c, d) \/ ChannelError(c, d) \/ PumpSend(c, d)

----------------------------------------------------------------------------
(* Close, called by p: as far as wg.Wait it is Tunnel's.                   *)

SSHCloseLocked(p) ==
  CloseBegin(p) \/ CloseListener(p) \/ CloseUnlock(p) \/ \E c \in Conns : CloseConn(p, c)

WaitReturnsNoWait(p) ==
  /\ closer[p] = "wait"
  /\ teardown = "none"
  /\ teardown' = "session"
  /\ UNCHANGED <<vars, stage, held, lost, dead>>

\* t.wg.Wait() returns.
WaitReturns(p) ==
  /\ closer[p] = "wait"
  /\ wg = 0
  /\ teardown = "none"
  /\ teardown' = "session"
  /\ UNCHANGED <<vars, stage, held, lost, dead>>

CloseSession(p) ==
  /\ closer[p] = "wait"
  /\ teardown = "session"
  /\ teardown' = "proxy"
  /\ held' = held \ {"session"}
  /\ UNCHANGED <<vars, stage, lost, dead>>

SSHReturn(p) ==
  /\ closer[p] = "wait"
  /\ teardown = "proxy"
  /\ teardown' = "done"
  /\ closer' = [closer EXCEPT ![p] = "done"]
  /\ UNCHANGED <<listener, loop, closed, mu, conns, wg, todo, handler, clientOpen,
                 upstreamOpen, done, netVars, pumpVars, stage, lost, dead>>

CloseProxySkipped(p) == SSHReturn(p) /\ UNCHANGED held

\* t.proxyClient.Close(), and Close returns.
CloseProxy(p) == SSHReturn(p) /\ held' = held \ {"proxy"}

SSHClose(p) == WaitReturns(p) \/ CloseSession(p) \/ CloseProxy(p)

----------------------------------------------------------------------------
SSHEnv(c) == Connect(c) \/ PeerBreak(c, "client") \/ \E side \in Sides : PeerFin(c, side)

\* Steps of the shared skeleton, which leave the SSH part alone.
Shared ==
  \/ AcceptClosed \/ AcceptFails
  \/ \E c \in Conns : SSHEnv(c) \/ LoopStep(c) \/ SSHHandler(c)
  \/ \E c \in Conns, d \in Dirs : SSHPump(c, d) \/ PumpRead(c, d) \/ PumpWrite(c, d)
  \/ \E p \in Closers : CloseCall(p) \/ SSHCloseLocked(p)

SSHNext ==
  \/ NewClient \/ DialHost \/ Handshake \/ Listen \/ ListenFails \/ SessionLost
  \/ Shared /\ UNCHANGED sshVars
  \/ \E c \in Conns : ChannelDropped(c)
  \/ \E p \in Closers : SSHClose(p)

SSHSpec == SSHInit /\ [][SSHNext]_allVars

\* As in Tunnel.  A cancelled DialContext returns; the multiplexer drops the
\* channels of a session that is over, but nothing is assumed of the gateway:
\* data, the end of the data and the close of a channel are sent over the
\* session, and may wait for as long as it lasts.
SSHFairness ==
  /\ WF_allVars(AcceptClosed /\ UNCHANGED sshVars)
  /\ \A c \in Conns :
       /\ WF_allVars(LoopStep(c) /\ UNCHANGED sshVars)
       /\ WF_allVars(/\ handler[c] = "closeUp" => SessionOver
                     /\ HandlerLocal(c)
                     /\ UNCHANGED sshVars)
       /\ WF_allVars(closed /\ (DialChannel(c) \/ DialFail(c)) /\ UNCHANGED sshVars)
       /\ WF_allVars(SessionOver /\ ChannelDropped(c))
       /\ \A d \in Dirs :
            WF_allVars(/\ pump[c][d] \in {"write", "send"} /\ d = "up" =>
                            SessionOver /\ c \in dead
                       /\ SSHPump(c, d)
                       /\ UNCHANGED sshVars)
  /\ \A p \in Closers :
       /\ WF_allVars(SSHCloseLocked(p) /\ UNCHANGED sshVars)
       /\ WF_allVars(SSHClose(p))

SSHFairSpec == SSHSpec /\ SSHFairness

\* The gateway also keeps reading, and granting window to what is written to it,
\* which CloseReturns needs, and local clients keep reading, which
\* LossEndsHandlers needs.
PeersRead ==
  \A c \in Conns :
    /\ WF_allVars(CloseUpstream(c) /\ UNCHANGED sshVars)
    /\ WF_allVars(PumpSend(c, "up") /\ UNCHANGED sshVars)
    /\ \A d \in Dirs : WF_allVars(PumpWrite(c, d) /\ UNCHANGED sshVars)

SSHPeersReadSpec == SSHFairSpec /\ PeersRead

----------------------------------------------------------------------------
(* Properties.                                                             *)

\* Everything the tunnel may do to its clients, Tunnel allows: NothingLeaks,
\* ForceClosed, NoAddFromZero and FirstEndedIsComplete hold here as well.
SkeletonKept == Spec

\* A constructor that failed holds nothing: not the proxy client of a failed
\* handshake, not the session of a failed listen.
FailedHoldsNothing == stage = "failed" => held = {} /\ listener = "none"

\* The program never ends the session or the proxy client under a handler,
\* not even under one that is still dialling.
SessionOutlivesHandlers ==
  loop # "none" /\ held # {"proxy", "session"} => Active = {} /\ loop = "done"

\* A Close that returned has ended the session and the proxy client too.
SessionReleased == Returned => held = {} /\ upstreamOpen = {}

\* A lost session ends every handler that has a channel, although nothing
\* tells the tunnel so and no deadline is set anywhere.
LossEndsHandlers == \A c \in Conns : lost /\ handler[c] = "pump" ~> handler[c] = "gone"

\* The pumps of a handler that is gone may wait for the gateway, but never
\* longer than the session lasts.
PumpsEndWithSession ==
  \A c \in Conns, d \in Dirs :
    handler[c] = "gone" /\ SessionOver ~> pump[c][d] \in {"none", "exit"}

\* Once the multiplexer has dropped its channel, a handler can only be held up by
\* its local client: it has a token to take, or the copy from the gateway can end,
\* or that copy is writing to the client.  (ssh.go:258-285)
DroppedHeldUpByClientOnly ==
  \A c \in dead :
    handler[c] = "pump" =>
      \/ done[c] > 0
      \/ pump[c]["down"] = "send" /\ done[c] < DoneCap
      \/ pump[c]["down"] = "read" /\ ~Usable(c, "upstream")
      \/ pump[c]["down"] = "write"

\* Something of c is being sent to the gateway: data, the end of the data, or the
\* close of its channel.
Sending(c) ==
  /\ ~SessionOver
  /\ \/ handler[c] = "closeUp"
     \/ handler[c] = "pump" /\ pump[c]["up"] \in {"write", "send"}

\* Something that Close waits for can go on without the gateway.  A step is due when
\* a guard of one of the fair actions holds; as in SomeStepDue for the rest.
SSHHandlerDue(c) ==
  \/ HandlerDue(c) /\ (handler[c] = "closeUp" => SessionOver)
  \/ handler[c] = "pump" /\ UpCopyDue(c) /\ (pump[c]["up"] = "read" \/ SessionOver)
  \/ handler[c] = "pump" /\ SessionOver /\ c \notin dead

SSHCloseDue(p) ==
  \/ closer[p] \in {"listener", "conns"}
  \/ closer[p] = "wait" /\ teardown = "none" /\ wg = 0
  \/ closer[p] = "wait" /\ teardown \in {"session", "proxy"}

SSHStepDue ==
  \/ loop = "accept" /\ listener = "closed"
  \/ \E c \in Conns : SSHHandlerDue(c)
  \/ \E p \in Closers : SSHCloseDue(p)

\* Close and its tear-down never wait for anything but the gateway, and no longer
\* for that once the session is lost.  (ssh.go:196-225 against 258-285)
SSHCloseHeldUpBySendsOnly ==
  closed /\ ~Returned => SSHStepDue \/ \E c \in Conns : Sending(c)

----------------------------------------------------------------------------
(* The inductive invariant (proved in SSHTunnelProofs).                    *)

\* What is held follows the constructor's stage and then Close's teardown.
Holding ==
  CASE stage = "none"      -> held = {}
    [] stage = "dialHost"  -> held = {"proxy"}
    [] stage = "handshake" -> held = {"proxy", "host"}
    [] stage = "listen"    -> held = {"proxy", "session"}
    [] stage = "failed"    -> held = {}
    [] stage = "up"        ->
         held = (IF teardown \in {"none", "session"} THEN {"proxy", "session"}
                 ELSE IF teardown = "proxy" THEN {"proxy"} ELSE {})

\* The tear-down starts when t.wg is zero, and ends as Close returns.
TeardownLast ==
  /\ stage = "up" <=> loop # "none"
  /\ loop = "none" => listener = "none"
  /\ teardown # "none" =>
       loop = "done" /\ wg = 0 /\ \E p \in Closers : closer[p] \in {"wait", "done"}
  /\ teardown = "done" <=> Returned

\* A channel that was dropped had been opened, and carries nothing any more: its
\* handler knows, or is about to close it.
Dropped ==
  \A c \in dead :
    /\ handler[c] \in {"pump", "closeUp", "closeClient", "untrack", "wgDone", "gone"}
    /\ Usable(c, "upstream") => handler[c] = "closeUp"

SInv == SSHTypeOK /\ Holding /\ TeardownLast /\ Dropped
=============================================================================
