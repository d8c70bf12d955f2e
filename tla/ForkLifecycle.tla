---------------------------- MODULE ForkLifecycle ----------------------------
(* Fork.__enter__ and __exit__ (src/hodl/fork.py): each hodl process opens one
   fork after another, and each fork owns a read bridge, a directory and an Anvil
   subprocess that listens on a port picked for it.  Several hodl processes share
   the ports of one machine. *)
EXTENDS FiniteSets

CONSTANTS Processes, Ports, Blocks, Nothing

VARIABLE fork      \* of each process: the fork it opens, uses and closes

Alive == {"starting", "listening"}

\* Nothing stands for what a fork does not have.
ASSUME NothingAssumption == Nothing \notin Alive /\ Nothing \notin Ports

Steps == {"idle", "bridge", "port", "temp", "spawn", "poll", "setup", "open",
          "exit", "wait", "close", "clean", "stuck", "ended"}
Closed == [pc |-> "idle", block |-> Nothing, port |-> Nothing, bridge |-> FALSE,
           temp |-> FALSE, anvil |-> Nothing, late |-> FALSE]

LifecycleInit == fork = [p \in Processes |-> Closed]

at(p) == fork[p].pc
Go(p, to) == fork' = [fork EXCEPT ![p].pc = to]
Answering(q) == {p \in Processes : fork[p].anvil = "listening" /\ fork[p].port = q}

\* with Fork(archive, block)
Enter(p) == /\ at(p) = "idle"
            /\ \E b \in Blocks :
                 fork' = [fork EXCEPT ![p] = [Closed EXCEPT !.pc = "bridge",
                                                            !.block = b]]

OpenBridge(p) ==
  /\ at(p) = "bridge"
  /\ fork' = [fork EXCEPT ![p].bridge = TRUE, ![p].pc = "port"]

\* bind(("127.0.0.1", 0)) finds a free port, and the socket is closed at once
PickPort(p) ==
  /\ at(p) = "port"
  /\ \E q \in Ports : /\ Answering(q) = {}
                      /\ fork' = [fork EXCEPT ![p].port = q, ![p].pc = "temp"]

MakeTemp(p) ==
  /\ at(p) = "temp"
  /\ fork' = [fork EXCEPT ![p].temp = TRUE, ![p].pc = "spawn"]

\* the end of the process: its threads and its directory go with it
Exited(f) == [f EXCEPT !.bridge = FALSE, !.temp = FALSE]

\* no socket or directory to be had: not Unavailable, so it ends the command
SetupRaises(p) ==
  /\ at(p) \in {"bridge", "port", "temp"}
  /\ fork' = [fork EXCEPT ![p] = [Exited(@) EXCEPT !.pc = "ended"]]

Spawn(p) ==
  /\ at(p) = "spawn"
  /\ \/ fork' = [fork EXCEPT ![p].anvil = "starting", ![p].pc = "poll"]
     \/ Go(p, "exit")

\* the polling loop talks to whoever listens on the port
SameBlock(p) == \E q \in Answering(fork[p].port) : fork[q].block = fork[p].block

PollAccepts(p) ==
  /\ at(p) = "poll" /\ SameBlock(p)
  /\ Go(p, "setup")

\* no answer, an error or a wrong hash: try again until the deadline is over
PollAgain(p) == at(p) = "poll" /\ ~fork[p].late /\ UNCHANGED fork
PollGivesUpOpen(p) == at(p) = "poll" /\ fork[p].late /\ Go(p, "idle")
PollGivesUp(p) == at(p) = "poll" /\ fork[p].late /\ Go(p, "exit")

DeadlinePasses(p) ==
  /\ at(p) = "poll" /\ ~fork[p].late
  /\ fork' = [fork EXCEPT ![p].late = TRUE]

\* impersonate the account and fund it
Prepare(p) ==
  /\ at(p) = "setup"
  /\ \/ Answering(fork[p].port) # {} /\ Go(p, "open")
     \/ Go(p, "exit")

\* the with-block ends or raises
Leave(p) == at(p) = "open" /\ Go(p, "exit")

TerminateOnly(p) ==
  /\ at(p) = "exit"
  /\ Go(p, "close")

\* self.process is None if Popen failed
Terminate(p) ==
  /\ at(p) = "exit"
  /\ Go(p, IF fork[p].anvil = Nothing THEN "close" ELSE "wait")

Reap(p) ==
  /\ at(p) = "wait" /\ fork[p].anvil = "dead"
  /\ Go(p, "close")

NeverTimesOut(p) == FALSE /\ UNCHANGED fork

\* wait(timeout=15) raises TimeoutExpired, which nothing catches
TimesOut(p) ==
  /\ at(p) = "wait" /\ fork[p].anvil \in Alive
  /\ fork' = [fork EXCEPT ![p] = [Exited(@) EXCEPT !.pc = "stuck"]]

CloseBridge(p) ==
  /\ at(p) = "close"
  /\ fork' = [fork EXCEPT ![p].bridge = FALSE, ![p].pc = "clean"]

\* afterwards the error in flight, if any, is an outcome or ends the command
CleanUp(p) ==
  /\ at(p) = "clean"
  /\ \E next \in {"idle", "ended"} :
       fork' = [fork EXCEPT ![p].temp = FALSE, ![p].pc = next]

\* Anvil takes its port, or ends because another node has it
Bind(p) ==
  /\ fork[p].anvil = "starting"
  /\ LET free == Answering(fork[p].port) = {}
     IN  fork' = [fork EXCEPT ![p].anvil = IF free THEN "listening" ELSE "dead"]

\* a failed read at startup, a crash or the signal ends it
AnvilDies(p) ==
  /\ fork[p].anvil \in Alive
  /\ fork' = [fork EXCEPT ![p].anvil = "dead"]

Ended == (\A p \in Processes : at(p) \in {"ended", "stuck"}) /\ UNCHANGED fork

Opening(p) == Enter(p) \/ OpenBridge(p) \/ PickPort(p) \/ MakeTemp(p) \/ SetupRaises(p)
              \/ Spawn(p) \/ PollAccepts(p) \/ PollGivesUp(p) \/ Prepare(p)
Closing(p) == Leave(p) \/ Terminate(p) \/ Reap(p) \/ TimesOut(p) \/ CloseBridge(p)
              \/ CleanUp(p)

LifecycleNext ==
  \/ \E p \in Processes : \/ Opening(p) \/ Closing(p)
                          \/ PollAgain(p) \/ DeadlinePasses(p)
                          \/ Bind(p) \/ AnvilDies(p)
  \/ Ended

LifecycleSpec == LifecycleInit /\ [][LifecycleNext]_fork

(* The program runs on, the clock moves, and every request of the with-block has
   a timeout.  Nothing obliges Anvil to start, to answer or to stop. *)
FairSpec == /\ LifecycleSpec
            /\ \A p \in Processes : /\ WF_fork(Opening(p) /\ at(p) # "idle")
                                    /\ WF_fork(Closing(p))
                                    /\ WF_fork(DeadlinePasses(p))
-----------------------------------------------------------------------------
(* Types, and what each step of the lifecycle may rely on: a directory for
   Anvil's log, and a port. *)
LifecycleTypes ==
  /\ fork \in [Processes -> [pc : Steps, block : Blocks \cup {Nothing},
                             port : Ports \cup {Nothing}, bridge : BOOLEAN,
                             temp : BOOLEAN, anvil : Alive \cup {"dead", Nothing},
                             late : BOOLEAN]]
  /\ \A p \in Processes : at(p) \in {"poll", "setup", "open"} =>
       fork[p].temp /\ fork[p].port # Nothing

(* Anvil reads the archive through the bridge from its start to its end: while
   it is alive, the bridge is open, unless the teardown itself timed out. *)
BridgeOutlivesAnvil ==
  \A p \in Processes : fork[p].anvil \in Alive /\ at(p) # "stuck" => fork[p].bridge

(* Between two forks, and when the command ends, nothing of a fork is open,
   however it was left: by an error before, during or after startup. *)
NothingLeftOpen ==
  \A p \in Processes : at(p) \in {"idle", "ended"} =>
    ~fork[p].bridge /\ ~fork[p].temp /\ fork[p].anvil \notin Alive

(* A fork that is entered is left in the end, although Anvil may never answer
   and may ignore the signal to stop. *)
EveryForkEnds ==
  \A p \in Processes : at(p) = "bridge" ~> at(p) \in {"idle", "ended", "stuck"}

(* "Execute hypothetical actions on a private, disposable Anvil fork only": the
   node behind an open fork is nobody else's. *)
ForkIsPrivate ==
  \A p, q \in Processes : p # q /\ at(p) = "open" => q \notin Answering(fork[p].port)
=============================================================================
