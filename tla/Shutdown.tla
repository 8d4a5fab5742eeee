------------------------------- MODULE Shutdown -------------------------------
(***************************************************************************)
(* Start and end of a process: connector, user or gate.                    *)
(*   connector/main.go (user/main.go and gate/main.go differ in the        *)
(*   package of app.Run)        main, program.run                          *)
(*   */app/app.go               app.Run                                    *)
(*   framework/connector/connector.go                                      *)
(*                                                                         *)
(* Three parties wait for signals in the connector: service.Run (external),*)
(* app.Run, and main after service.Run has returned.  Each has a channel   *)
(* of its own and registers it when it gets there.  Go sends a signal to   *)
(* every registered channel with room; one that nobody has registered for  *)
(* has its default effect and ends the process.                            *)
(***************************************************************************)
VARIABLES
    program,      \* connector, user, gate
    main,         \* starting, serving (in service.Run), returned, waiting, ended
    app,          \* app.Run: none, configured, starting, waiting, closing,
                  \* sleeping, quit
    server,       \* its goroutine: none, spawned, closable, managed, running
    listening,    \* parties whose channel is registered
    signalled,    \* of them, those with a signal in the channel
    interrupted   \* history: an interrupt or termination signal has come

processVars == <<program, main, app, server, listening, signalled, interrupted>>

ProcessInit ==
    /\ program \in {"connector", "user", "gate"}
    /\ main = "starting" /\ app = "none" /\ server = "none"
    /\ listening = {} /\ signalled = {}
    /\ interrupted = FALSE

----------------------------------------------------------------------------
(* The operators named Mutant... are defects the properties are tested     *)
(* against, and are used by no specification.                              *)

Alive == main # "ended"
HandledBy(s) == IF s \in {"int", "term"} THEN {"service", "app", "main"} ELSE {"app"}

Signal(s) ==
    /\ Alive
    /\ LET to == listening \intersect HandledBy(s)
       IN IF to = {} THEN main' = "ended" /\ UNCHANGED signalled
          ELSE signalled' = signalled \union to /\ UNCHANGED main
    /\ interrupted' = (interrupted \/ s \in {"int", "term"})
    /\ UNCHANGED <<program, app, server, listening>>

----------------------------------------------------------------------------
(* main *)

(* service.Run calls Start, which only starts program.run, and waits. *)
StartService ==
    /\ main = "starting"
    /\ main' = "serving"
    /\ listening' = listening \union {"service"}
    /\ UNCHANGED <<program, app, server, signalled, interrupted>>

(* It calls Stop, which has no clearFunc to call, and returns. *)
Stop ==
    /\ main = "serving" /\ "service" \in signalled
    /\ main' = "returned"
    /\ UNCHANGED <<program, app, server, listening, signalled, interrupted>>

(* Mutant: the channel is not registered. *)
MutantMainNotify ==
    /\ main = "returned"
    /\ main' = "waiting"
    /\ UNCHANGED <<program, app, server, listening, signalled, interrupted>>

MainNotify ==
    /\ main = "returned"
    /\ main' = "waiting"
    /\ listening' = listening \union {"main"}
    /\ UNCHANGED <<program, app, server, signalled, interrupted>>

Exit ==
    /\ main = "waiting" /\ "main" \in signalled
    /\ main' = "ended"
    /\ UNCHANGED <<program, app, server, listening, signalled, interrupted>>

(* A configuration that cannot be read, a port that is taken, a server     *)
(* that cannot be registered: panic, os.Exit or Fatal.                     *)
Fails ==
    /\ Alive /\ main # "starting"
    /\ main' = "ended"
    /\ UNCHANGED <<program, app, server, listening, signalled, interrupted>>

----------------------------------------------------------------------------
(* program.run: configuration, the monitor, and a goroutine for app.Run.   *)
InitConfig ==
    /\ main # "starting" /\ app = "none"
    /\ app' = "configured"
    /\ UNCHANGED <<program, main, server, listening, signalled, interrupted>>

Go(from, to) == server = from /\ server' = to

(* In user and gate app.Run leaves everything to its goroutine. *)
Run ==
    /\ app = "configured"
    /\ app' = IF program = "connector" THEN "starting" ELSE "quit"
    /\ Go("none", "spawned")
    /\ UNCHANGED <<program, main, listening, signalled, interrupted>>

RunServer ==
    /\ program = "user"
    /\ Go("spawned", "running")
    /\ UNCHANGED <<program, main, app, listening, signalled, interrupted>>

(* The HTTP server of the gate. *)
RunRouter ==
    /\ program = "gate"
    /\ Go("spawned", "running")
    /\ UNCHANGED <<program, main, app, listening, signalled, interrupted>>

(* exit = c.Close; then the databases are connected. *)
AssignExit ==
    /\ program = "connector"
    /\ Go("spawned", "closable")
    /\ UNCHANGED <<program, main, app, listening, signalled, interrupted>>

(* NewManager, the client of NATS. *)
RunManager ==
    /\ Go("closable", "managed")
    /\ UNCHANGED <<program, main, app, listening, signalled, interrupted>>

(* isRunning is set, and the server listens. *)
Serve ==
    /\ Go("managed", "running") /\ program = "connector"
    /\ UNCHANGED <<program, main, app, listening, signalled, interrupted>>

AppNotify ==
    /\ app = "starting"
    /\ app' = "waiting"
    /\ listening' = listening \union {"app"}
    /\ UNCHANGED <<program, main, server, signalled, interrupted>>

(* stop: exit does nothing yet before it is assigned, and Connector.Close  *)
(* nothing before isRunning is set; a server that is starting goes on.     *)
CallExit ==
    /\ app = "waiting" /\ "app" \in signalled
    /\ app' = IF server = "running" THEN "closing" ELSE "sleeping"
    /\ signalled' = signalled \ {"app"}
    /\ UNCHANGED <<program, main, server, listening, interrupted>>

(* Manager.Close returns; ConnLifecycle has what it does. *)
Closed ==
    /\ app = "closing"
    /\ app' = "sleeping"
    /\ UNCHANGED <<program, main, server, listening, signalled, interrupted>>

Quit ==
    /\ app = "sleeping"
    /\ app' = "quit"
    /\ UNCHANGED <<program, main, server, listening, signalled, interrupted>>

----------------------------------------------------------------------------
MainStep == StartService \/ Stop \/ MainNotify \/ Exit
AppStep == InitConfig \/ Run \/ AppNotify \/ CallExit \/ Closed \/ Quit
ServerStep == RunServer \/ RunRouter \/ AssignExit \/ RunManager \/ Serve

Signals == {"int", "term", "quit", "hup"}

ProcessNext ==
    /\ Alive
    /\ \/ MainStep \/ AppStep \/ ServerStep \/ Fails
       \/ \E s \in Signals : Signal(s)

ProcessSpec == ProcessInit /\ [][ProcessNext]_processVars

(* Goroutines run.  A database that is not reachable ends the process, and *)
(* Manager.Close returns (CloseTerminates of ConnLifecycle).               *)
ProcessFairness ==
    /\ WF_processVars(Alive /\ MainStep)
    /\ WF_processVars(Alive /\ AppStep)
    /\ WF_processVars(Alive /\ ServerStep)

FairProcess == ProcessSpec /\ ProcessFairness

----------------------------------------------------------------------------
ProcessTypeOK ==
    /\ program \in {"connector", "user", "gate"}
    /\ main \in {"starting", "serving", "returned", "waiting", "ended"}
    /\ app \in {"none", "configured", "starting", "waiting", "closing",
                "sleeping", "quit"}
    /\ server \in {"none", "spawned", "closable", "managed", "running"}
    /\ signalled \subseteq listening /\ listening \subseteq {"service", "app", "main"}
    /\ interrupted \in BOOLEAN

(* "Waits for an interrupt signal, to shut down gracefully" (connector/    *)
(* main.go:109, before <-sigs): after an interrupt or a termination signal *)
(* the process ends.                                                       *)
InterruptEndsProcess == interrupted ~> ~Alive

(* It does if such signals keep coming: whenever they meet a process in    *)
(* which one party has registered and the next has not yet, or app.Run is  *)
(* busy closing, one of them gets to main in the end.                      *)
InterruptsEndProcess ==
    ProcessFairness /\ WF_processVars(Signal("int")) => <>(~Alive)
=============================================================================
