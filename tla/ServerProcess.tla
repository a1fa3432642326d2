----------------------------- MODULE ServerProcess -----------------------------
(***************************************************************************)
(* The life of the server process: main() of                               *)
(* crates/grainlift-server/src/main.rs, from the configuration to the exit, *)
(* and its start again by a supervisor.                                    *)
(*                                                                         *)
(* Each listener is a task.  The HTTP and the Iroh listener are async tasks *)
(* that can be aborted; the TCP listener runs on a blocking thread, which  *)
(* the runtime waits for when main() has returned.                         *)
(***************************************************************************)
EXTENDS TargetAccess

CONSTANTS
  MaxProcesses   \* bound: processes started one after the other

VARIABLES
  process,    \* the number of this process
  config,     \* its configuration
  phase,      \* where main() is
  listener,   \* what became of each listener's task
  told,       \* the listeners whose token or flag says to stop
  signalled,  \* SIGTERM or Ctrl-C has arrived
  chosen,     \* the branch select! took
  left,       \* the tasks the drain is still to await, in order
  exit        \* what main() returned

processVars == <<process, phase, listener, told, signalled, chosen, left, exit, config>>

Listeners == {"http", "tcp", "iroh"}

ASSUME ProcessAssumption == MaxProcesses \in Nat \ {0}

Finished(l) == listener[l] \in {"ended", "failed"}
Configured == {l \in Listeners : l = "http" \/ config.listeners[l]}

--------------------------------------------------------------------------------
\* A new process, with the configuration it finds.
StartWith(c) ==
  /\ config' = c
  /\ phase' = "config"
  /\ listener' = [l \in Listeners |-> "off"]
  /\ told' = {}
  /\ signalled' = FALSE
  /\ chosen' = "none"
  /\ left' = <<>>
  /\ exit' = "none"

ProcessInit(c) ==
  /\ process = 1
  /\ config = c
  /\ phase = "config"
  /\ listener = [l \in Listeners |-> "off"]
  /\ told = {}
  /\ signalled = FALSE
  /\ chosen = "none"
  /\ left = <<>>
  /\ exit = "none"

Return(e) == phase' = "returned" /\ exit' = e

\* Config::from_path()
LoadConfig ==
  /\ phase = "config"
  /\ IF ValidConfig(config) THEN phase' = "http" /\ UNCHANGED exit ELSE Return("error")
  /\ UNCHANGED <<process, config, listener, told, signalled, chosen, left>>

\* TcpListener::bind() for HTTP, which is not served yet.
BindHttp ==
  /\ phase = "http"
  /\ \/ /\ listener' = [listener EXCEPT !["http"] = "bound"]
        /\ phase' = "tcp"
        /\ UNCHANGED exit
     \/ Return("error") /\ UNCHANGED listener
  /\ UNCHANGED <<process, config, told, signalled, chosen, left>>

\* start_tcp_listener() returns when the listener is bound, or with the error the
\* listener's task ended with.
StartTcp ==
  /\ phase = "tcp"
  /\ \/ /\ "tcp" \notin Configured
        /\ phase' = "iroh"
        /\ UNCHANGED <<listener, exit>>
     \/ /\ "tcp" \in Configured
        /\ listener' = [listener EXCEPT !["tcp"] = "up"]
        /\ phase' = "iroh"
        /\ UNCHANGED exit
     \/ "tcp" \in Configured /\ Return("error") /\ UNCHANGED listener
  /\ UNCHANGED <<process, config, told, signalled, chosen, left>>

\* start_iroh_listener(), then HTTP is served.
StartIroh ==
  /\ phase = "iroh"
  /\ listener' = [listener EXCEPT !["http"] = "up",
                                  !["iroh"] = IF "iroh" \in Configured THEN "up" ELSE "off"]
  /\ phase' = "serving"
  /\ UNCHANGED <<process, config, told, signalled, chosen, left, exit>>

\* Variant: main() awaits the TCP task without setting its flag.
IrohFailsUntold ==
  /\ phase = "iroh"
  /\ "iroh" \in Configured
  /\ IF "tcp" \in Configured THEN phase' = "joining" /\ UNCHANGED exit ELSE Return("error")
  /\ UNCHANGED <<process, config, listener, told, signalled, chosen, left>>

\* start_iroh_listener() fails: the TCP listener is told to stop and awaited.
IrohFails ==
  /\ phase = "iroh"
  /\ "iroh" \in Configured
  /\ told' = told \cup {"tcp"}
  /\ IF "tcp" \in Configured THEN phase' = "joining" /\ UNCHANGED exit ELSE Return("error")
  /\ UNCHANGED <<process, config, listener, signalled, chosen, left>>

JoinTcp ==
  /\ phase = "joining"
  /\ Finished("tcp")
  /\ Return("error")
  /\ UNCHANGED <<process, config, listener, told, signalled, chosen, left>>

\* A listener's task ends, told to or not, with an error or without.
ListenerEnds(l) ==
  /\ listener[l] = "up"
  /\ phase # "exited"
  /\ \E how \in {"ended", "failed"} : listener' = [listener EXCEPT ![l] = how]
  /\ UNCHANGED <<process, config, phase, told, signalled, chosen, left, exit>>

Signal ==
  /\ phase = "serving"
  /\ ~signalled
  /\ signalled' = TRUE
  /\ UNCHANGED <<process, config, phase, listener, told, chosen, left, exit>>

--------------------------------------------------------------------------------
\* select!: one of the branches that are ready.  Then shutdown.cancel() and the
\* flag of the TCP listener.
Select ==
  /\ phase = "serving"
  /\ \/ signalled /\ chosen' = "signal"
     \/ \E l \in Configured : Finished(l) /\ chosen' = l
  /\ told' = Listeners
  /\ phase' = "closing"
  /\ UNCHANGED <<process, config, listener, signalled, left, exit>>

\* A task the drain is to await: one there is and that has not been awaited.
Awaited(l) == IF l \in Configured \ {chosen} THEN <<l>> ELSE <<>>

\* close_all(), which fails if the registry is poisoned; else it goes on to drop the
\* sessions it has taken out, on main()'s own thread.
CloseAll ==
  /\ phase = "closing"
  /\ (phase' = "dropping" /\ UNCHANGED exit) \/ Return("error")
  /\ UNCHANGED <<process, config, listener, told, signalled, chosen, left>>

\* They are dropped: the deadline of the drain begins.
CloseAllReturns ==
  /\ phase = "dropping"
  /\ phase' = "draining"
  /\ left' = Awaited("http") \o Awaited("tcp") \o Awaited("iroh")
  /\ UNCHANGED <<process, config, listener, told, signalled, chosen, exit>>

\* The drain awaits the tasks in order; the first error ends it, and main().
Await ==
  /\ phase = "draining"
  /\ left # <<>>
  /\ Finished(Head(left))
  /\ IF listener[Head(left)] = "ended"
       THEN left' = Tail(left) /\ UNCHANGED <<phase, exit>>
       ELSE Return("error") /\ UNCHANGED left
  /\ UNCHANGED <<process, config, listener, told, signalled, chosen>>

\* After the drain: the reaper is aborted, the traces are flushed, which may fail,
\* and main() returns the error of the listener that ended the service, if any.
Finish ==
  \/ chosen = "signal" /\ Return("ok")
  \/ Return("error")

Drained ==
  /\ phase = "draining"
  /\ left = <<>>
  /\ Finish
  /\ UNCHANGED <<process, config, listener, told, signalled, chosen, left>>

\* The deadline of the drain: what is left is aborted.  A blocking thread that
\* has begun cannot be.
GraceExpires ==
  /\ phase = "draining"
  /\ left # <<>>
  /\ listener' = [l \in Listeners |->
                    IF l # "tcp" /\ listener[l] = "up" THEN "aborted" ELSE listener[l]]
  /\ Finish
  /\ UNCHANGED <<process, config, told, signalled, chosen, left>>

\* The runtime is dropped: async tasks go, a blocking thread is waited for.
Exit ==
  /\ phase = "returned"
  /\ listener["tcp"] # "up"
  /\ phase' = "exited"
  /\ UNCHANGED <<process, config, listener, told, signalled, chosen, left, exit>>

\* The process is killed, or dies in a driver.
Killed ==
  /\ phase # "exited"
  /\ phase' = "exited"
  /\ exit' = "killed"
  /\ UNCHANGED <<process, config, listener, told, signalled, chosen, left>>

Restart(c) ==
  /\ phase = "exited"
  /\ process < MaxProcesses
  /\ process' = process + 1
  /\ StartWith(c)

MainStep ==
  LoadConfig \/ BindHttp \/ StartTcp \/ StartIroh \/ IrohFails \/ JoinTcp \/ Select
    \/ Await \/ Drained \/ GraceExpires

================================================================================
