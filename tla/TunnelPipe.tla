----------------------------- MODULE TunnelPipe -----------------------------
(***************************************************************************)
(* One connection of the Android client through the coordinator to the     *)
(* home server: a permit, a stream to the home server, the TLS handshake   *)
(* and then a pipe on the coordinator (coordinator/src/tunnel.rs), one     *)
(* copy loop per direction, and a pipe to the local web server on the home *)
(* server (np2p/network/tunnel.rs).  The pipe ends when either loop does.  *)
(* A loop that waits for its writer has no timer.  Permits are limited by  *)
(* a semaphore that refuses when it is empty.                              *)
(***************************************************************************)
EXTENDS Integers, FiniteSets

CONSTANTS
    Pipes,         \* client connections
    IDLE,          \* TUNNEL_IDLE_TIMEOUT, in ticks; also pipe_to_local's timeout
    MaxTunnels     \* MAX_CONCURRENT_TUNNELS

ASSUME TunnelPipeAssumption ==
    /\ IDLE \in Nat \ {0}
    /\ MaxTunnels \in Nat \ {0}

\* Ages stop counting at the timeout.
Age == 0 .. IDLE

\* stream: open_bi is waited for.  handshake: the TLS accept is; deaf: and the
\* stream is dead by now.  open: the copy loops run.  piped: the home server has
\* seen the stream and pipes too.  ended: its end is gone, and the loop that would
\* notice waits for the client to take a chunk.
Stages == {"closed", "stream", "handshake", "deaf", "open", "piped", "ended"}

PipeRecord ==
    [stage : Stages, quietUp : Age, quietDown : Age, old : Age,
     stuckUp : BOOLEAN, stuckDown : BOOLEAN]

Closed == [stage |-> "closed", quietUp |-> 0, quietDown |-> 0, old |-> 0,
           stuckUp |-> FALSE, stuckDown |-> FALSE]

VARIABLES
    pipes,     \* quiet: since the last read each way; old: since the home server's
               \* end began; stuck: the loop waits for its writer
    homeUp     \* the home server's tunnel is registered

tunnelVars == <<pipes, homeUp>>

TunnelTypeOK ==
    /\ pipes \in [Pipes -> PipeRecord]
    /\ homeUp \in BOOLEAN

TunnelInit ==
    /\ pipes = [p \in Pipes |-> Closed]
    /\ homeUp = TRUE

\* Clients that hold a permit: from the accept until their task ends.
Holders == {p \in Pipes : pipes[p].stage # "closed"}

\* The copy loops of the pipe run.
Running(p) == pipes[p].stage \in {"open", "piped", "ended"}

Becomes(p, r) == pipes' = [pipes EXCEPT ![p] = r] /\ UNCHANGED homeUp

-----------------------------------------------------------------------------
(* Opening *)

\* An accepted client gets a permit, unless there is none, and keeps it when a
\* home server is registered.
TakePermit(p) ==
    /\ pipes[p].stage = "closed"
    /\ Cardinality(Holders) < MaxTunnels
    /\ homeUp
    /\ Becomes(p, [Closed EXCEPT !.stage = "stream"])

\* open_bi returns; there is no deadline for it.
OpenBi(p) ==
    /\ pipes[p].stage = "stream"
    /\ Becomes(p, [pipes[p] EXCEPT !.stage = "handshake"])

\* The TLS accept returns; there is no deadline for it either.  On a stream that
\* is dead by now the pipe ends at once.
TlsAccept(p) ==
    \/ /\ pipes[p].stage = "handshake"
       /\ Becomes(p, [pipes[p] EXCEPT !.stage = "open"])
    \/ /\ pipes[p].stage = "deaf"
       /\ Becomes(p, Closed)

-----------------------------------------------------------------------------
(* Copying *)

\* copy_with_idle reads a chunk from the client and writes it to the home server,
\* which sees the stream by its first bytes; a write to an end that is gone fails.
ChunkUp(p) ==
    /\ Running(p) /\ ~pipes[p].stuckUp
    /\ IF pipes[p].stage = "ended"
       THEN Becomes(p, Closed)
       ELSE \E stuck \in BOOLEAN :
              Becomes(p, [pipes[p] EXCEPT !.stage = "piped", !.quietUp = 0, !.stuckUp = stuck])

\* ... or from the home server.
ChunkDown(p) ==
    /\ pipes[p].stage = "piped" /\ ~pipes[p].stuckDown
    /\ \E stuck \in BOOLEAN : Becomes(p, [pipes[p] EXCEPT !.quietDown = 0, !.stuckDown = stuck])

\* A write that was waited for is over, and the loop reads again.
WriteEnds(p) ==
    \/ /\ pipes[p].stuckUp
       /\ Becomes(p, [pipes[p] EXCEPT !.quietUp = 0, !.stuckUp = FALSE])
    \/ /\ pipes[p].stuckDown
       /\ Becomes(p, IF pipes[p].stage = "ended"
                     THEN Closed
                     ELSE [pipes[p] EXCEPT !.quietDown = 0, !.stuckDown = FALSE])

\* One side closes or fails, in whatever step, and the task ends.
SideCloses(p) ==
    /\ pipes[p].stage # "closed"
    /\ Becomes(p, Closed)

\* What is left of r when the home server's end of the stream is gone: a loop that
\* reads from it or writes to it ends, one that waits for the client does not.
HomeGone(r) ==
    IF r.stage \in {"handshake", "deaf"} THEN [r EXCEPT !.stage = "deaf"]
    ELSE IF r.stuckDown /\ ~r.stuckUp THEN [r EXCEPT !.stage = "ended"]
    ELSE Closed

-----------------------------------------------------------------------------
(* Time *)


\* Either direction's idle timeout, which runs while the loop reads.
TimedOut(p) ==
    \/ ~pipes[p].stuckUp /\ pipes[p].quietUp = IDLE
    \/ ~pipes[p].stuckDown /\ pipes[p].quietDown = IDLE

TimeOut(p) ==
    /\ Running(p)
    /\ TimedOut(p)
    /\ Becomes(p, Closed)

\* pipe_to_local's timeout, active or not.
HomeTimeOut(p) ==
    /\ pipes[p].stage = "piped" /\ pipes[p].old = IDLE
    /\ Becomes(p, HomeGone(pipes[p]))

\* A timer of the pipe is due.
Due(p) == Running(p) /\ (TimedOut(p) \/ (pipes[p].stage = "piped" /\ pipes[p].old = IDLE))

Later(age, runs) == IF runs /\ age < IDLE THEN age + 1 ELSE age

\* Time passes; a timer that is due fires first.
PipeTick ==
    /\ \A p \in Pipes : ~Due(p)
    /\ pipes' = [p \in Pipes |->
                   [pipes[p] EXCEPT !.quietUp = Later(@, Running(p) /\ ~pipes[p].stuckUp),
                                    !.quietDown = Later(@, Running(p) /\ ~pipes[p].stuckDown),
                                    !.old = Later(@, pipes[p].stage = "piped")]]
    /\ UNCHANGED homeUp

\* The home server's tunnel drops, and every stream on it with it, or comes back.
HomeDrops ==
    /\ homeUp
    /\ homeUp' = FALSE
    /\ pipes' = [p \in Pipes |-> HomeGone(pipes[p])]

HomeReturns ==
    /\ ~homeUp
    /\ homeUp' = TRUE
    /\ UNCHANGED pipes

TunnelNext ==
    \/ \E p \in Pipes :
          \/ TakePermit(p) \/ OpenBi(p) \/ TlsAccept(p)
          \/ ChunkUp(p) \/ ChunkDown(p) \/ WriteEnds(p) \/ SideCloses(p)
          \/ TimeOut(p) \/ HomeTimeOut(p)
    \/ PipeTick \/ HomeDrops \/ HomeReturns

\* Time passes and timers fire; nobody else need do anything.
TunnelFairness ==
    /\ WF_tunnelVars(PipeTick)
    /\ \A p \in Pipes : WF_tunnelVars(TimeOut(p) \/ HomeTimeOut(p))

TunnelSpec == TunnelInit /\ [][TunnelNext]_tunnelVars /\ TunnelFairness

-----------------------------------------------------------------------------
(* Properties *)


=============================================================================
