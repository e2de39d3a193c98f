------------------------------ MODULE Shutdown ------------------------------
(***************************************************************************)
(* The start and the end of the process: package process (the registry of  *)
(* exit handlers, process.Exit, the goroutine that handles signals), the   *)
(* goroutines main.go starts (main itself, the indexer, the HTTP server)   *)
(* and the handlers each of them registers on its way.                     *)
(*                                                                         *)
(* Whoever takes the process down runs a copy of the handlers registered   *)
(* so far, one after the other, and then calls os.Exit.                    *)
(***************************************************************************)
EXTENDS Integers, Sequences, SequencesExt

CONSTANTS
  Modes,    \* "online" (runOnline), "offline" (runOffline)
  Faults,   \* "start": a step of main fails, "listen": ListenAndServe fails,
            \* "events": the indexer cannot read events, "slow": a request
            \* outlasts the five seconds srv.Shutdown is given
  Signals   \* whether SIGINT or SIGTERM may arrive

ASSUME ShutdownAssumption ==
  /\ Modes \subseteq {"online", "offline"}
  /\ Faults \subseteq {"start", "listen", "events", "slow"}
  /\ Signals \in BOOLEAN

VARIABLES
  mode,      \* how the process was started
  main,      \* the step of its start-up that main is about to take
  registry,  \* registry[os.Interrupt] (and registry[syscall.SIGTERM])
  exiting,   \* process.exiting
  first,     \* history: the handlers registered when the exit began
  todo,      \* for every goroutine in Exit or in the signal handler, the
             \* handlers it has yet to run
  indexer,   \* the goroutine of Store.IndexBlocks
  cancelled, \* its context is cancelled
  done,      \* the channel of capacity one it reports to holds a value
  server,    \* the goroutine of the HTTP server
  shut,      \* srv.Shutdown: not called, waiting, over, or out of time
  request,   \* a request is being answered
  ledger,    \* "none", "open" or "closed"
  closes,    \* how often store.Close was called
  ended      \* the process is gone

vars == <<mode, main, registry, exiting, first, todo, indexer, cancelled, done,
          server, shut, request, ledger, closes, ended>>
exitVars == <<exiting, first, todo>>
workers == <<indexer, cancelled, done, server, shut, request>>
stores == <<ledger, closes>>

\* The goroutines that may take the process down.
Runners == {"signal", "main", "indexer", "server"}
Idle == <<"idle">>                \* the todo of a goroutine that does not

\* The handlers a process ends up with, the last one registered first.
Handlers(m) == IF m = "online" THEN <<"server", "cancel", "wait", "ledger">>
                               ELSE <<"server", "wait">>

Stages == {"ledger", "node", "store", "wait", "spawn", "cancel", "router",
           "listen", "idle", "exit"}

\* The handlers of the process, in reverse order of registration.
IsRegistry(s) == IsSuffix(s, Handlers(mode))

TypeOK ==
  /\ mode \in {"online", "offline"}
  /\ main \in Stages
  /\ IsRegistry(registry)
  /\ exiting \in BOOLEAN
  /\ IsRegistry(first)
  /\ DOMAIN todo = Runners
  /\ \A r \in Runners :
       \/ todo[r] = Idle \/ IsRegistry(todo[r])
       \/ todo[r] # <<>> /\ Head(todo[r]) \in {"drain", "close"}
          /\ IsRegistry(Tail(todo[r]))
  /\ indexer \in {"none", "running", "returned", "exit"}
  /\ cancelled \in BOOLEAN
  /\ done \in BOOLEAN
  /\ server \in {"none", "spawned", "registered", "serving", "over", "exit"}
  /\ shut \in {"no", "draining", "drained", "expired"}
  /\ request \in BOOLEAN
  /\ ledger \in {"none", "open", "closed"}
  /\ closes \in 0..2
  /\ ended \in BOOLEAN

Init ==
  /\ mode \in Modes
  /\ main = IF mode = "online" THEN "ledger" ELSE "store"
  /\ registry = <<>>
  /\ exiting = FALSE
  /\ first = <<>>
  /\ todo = [r \in Runners |-> Idle]
  /\ indexer = "none"
  /\ cancelled = FALSE
  /\ done = FALSE
  /\ server = "none"
  /\ shut = "no"
  /\ request = FALSE
  /\ ledger = "none"
  /\ closes = 0
  /\ ended = FALSE

----------------------------------------------------------------------------
(* Package process.                                                        *)

\* SetExitHandler: the handlers run in reverse order of when they were set.
SetExitHandler_Appends(h) == registry' = registry \o <<h>>   \* slip
SetExitHandler(h) == registry' = <<h>> \o registry

\* The part of Exit and of the signal handler under the lock: the flag is
\* set and the handlers are copied.
Leave(r) ==
  /\ exiting' = TRUE
  /\ first' = IF exiting THEN first ELSE registry
  /\ todo' = [todo EXCEPT ![r] = registry]

\* The signal goroutine takes the first interrupt from its channel, whether
\* or not an exit has begun; it never comes to a second one.
Signal ==
  /\ ~ended
  /\ Signals
  /\ todo["signal"] = Idle
  /\ Leave("signal")
  /\ UNCHANGED <<mode, main, registry, workers, stores, ended>>

\* The next handler of r is h, and it is the turn of that handler.
Runs(r, h) ==
  /\ ~ended
  /\ todo[r] # <<>>
  /\ Head(todo[r]) = h

HandlerReturns(r) == todo' = [todo EXCEPT ![r] = Tail(@)]
HandlerGoesOn(r, h) == todo' = [todo EXCEPT ![r] = <<h>> \o Tail(@)]

\* os.Exit, when every handler has returned.
OSExit(r) ==
  /\ ~ended
  /\ todo[r] = <<>>
  /\ ended' = TRUE
  /\ UNCHANGED <<mode, main, registry, exitVars, workers, stores>>

----------------------------------------------------------------------------
(* The handlers.                                                           *)

\* The server: Shutdown closes the listener ...
ShutdownServer(r) ==
  /\ Runs(r, "server")
  /\ shut' = IF shut = "no" THEN "draining" ELSE shut
  /\ HandlerGoesOn(r, "drain")
  /\ UNCHANGED <<mode, main, registry, exiting, first, indexer, cancelled,
                 done, server, request, stores, ended>>

\* slip: the server is closed rather than shut down
Drained_AtOnce(r) ==
  /\ Runs(r, "drain")
  /\ shut' = IF shut = "draining" THEN "drained" ELSE shut
  /\ HandlerReturns(r)
  /\ UNCHANGED <<mode, main, registry, exiting, first, indexer, cancelled,
                 done, server, request, stores, ended>>

\* ... and waits for the requests in flight, five seconds at most.
Drained(r) ==
  /\ Runs(r, "drain")
  /\ ~request
  /\ shut' = IF shut = "draining" THEN "drained" ELSE shut
  /\ HandlerReturns(r)
  /\ UNCHANGED <<mode, main, registry, exiting, first, indexer, cancelled,
                 done, server, request, stores, ended>>

DrainExpires(r) ==
  /\ "slow" \in Faults
  /\ Runs(r, "drain")
  /\ request
  /\ shut' = "expired"
  /\ HandlerReturns(r)
  /\ UNCHANGED <<mode, main, registry, exiting, first, indexer, cancelled,
                 done, server, request, stores, ended>>

CancelIndexer(r) ==
  /\ Runs(r, "cancel")
  /\ cancelled' = TRUE
  /\ HandlerReturns(r)
  /\ UNCHANGED <<mode, main, registry, exiting, first, indexer, done, server,
                 shut, request, stores, ended>>

\* slip: the channel is closed by the indexer, so that every receive succeeds
AwaitIndexer_Closed(r) ==
  /\ Runs(r, "wait")
  /\ mode = "online" => done
  /\ HandlerGoesOn(r, "close")
  /\ UNCHANGED <<mode, main, registry, exiting, first, indexer, cancelled,
                 done, server, shut, request, stores, ended>>

\* The store: unless offline receive from done, then close.
AwaitIndexer(r) ==
  /\ Runs(r, "wait")
  /\ mode = "online" => done
  /\ done' = FALSE
  /\ HandlerGoesOn(r, "close")
  /\ UNCHANGED <<mode, main, registry, exiting, first, indexer, cancelled,
                 server, shut, request, stores, ended>>

CloseStore(r) ==
  /\ Runs(r, "close")
  /\ closes' = closes + 1
  /\ HandlerReturns(r)
  /\ UNCHANGED <<mode, main, registry, exiting, first, workers, ledger, ended>>

CloseLedger(r) ==
  /\ Runs(r, "ledger")
  /\ ledger' = "closed"
  /\ HandlerReturns(r)
  /\ UNCHANGED <<mode, main, registry, exiting, first, workers, closes, ended>>

RunHandlers(r) ==
  \/ ShutdownServer(r) \/ Drained(r) \/ DrainExpires(r)
  \/ CancelIndexer(r)
  \/ AwaitIndexer(r) \/ CloseStore(r)
  \/ CloseLedger(r)
  \/ OSExit(r)

----------------------------------------------------------------------------
(* The main goroutine: runOnline, runOffline and initServer.               *)

\* The ledger is opened and the handler that closes it is set.
InitLedger ==
  /\ ~ended
  /\ main = "ledger"
  /\ ledger' = "open"
  /\ SetExitHandler("ledger")
  /\ main' = "node"
  /\ UNCHANGED <<mode, exitVars, workers, closes, ended>>

\* The transaction pool and the P2P server; then the store.
InitNode ==
  /\ ~ended
  /\ main = "node"
  /\ main' = "store"
  /\ UNCHANGED <<mode, registry, exitVars, workers, stores, ended>>

InitStore ==
  /\ ~ended
  /\ main = "store"
  /\ main' = "wait"
  /\ UNCHANGED <<mode, registry, exitVars, workers, stores, ended>>

\* The handler that waits for the indexer and closes the store is set before
\* the indexer is started, and the one that cancels the indexer after it.
SetStoreHandler ==
  /\ ~ended
  /\ main = "wait"
  /\ SetExitHandler("wait")
  /\ main' = IF mode = "online" THEN "spawn" ELSE "router"
  /\ UNCHANGED <<mode, exitVars, workers, stores, ended>>

SpawnIndexer ==
  /\ ~ended
  /\ main = "spawn"
  /\ indexer' = "running"
  /\ main' = "cancel"
  /\ UNCHANGED <<mode, registry, exitVars, cancelled, done, server, shut,
                 request, stores, ended>>

SetCancelHandler ==
  /\ ~ended
  /\ main = "cancel"
  /\ SetExitHandler("cancel")
  /\ main' = "router"
  /\ UNCHANGED <<mode, exitVars, workers, stores, ended>>

MakeRouter ==
  /\ ~ended
  /\ main = "router"
  /\ main' = "listen"
  /\ UNCHANGED <<mode, registry, exitVars, workers, stores, ended>>

SpawnServer ==
  /\ ~ended
  /\ main = "listen"
  /\ server' = "spawned"
  /\ main' = "idle"
  /\ UNCHANGED <<mode, registry, exitVars, indexer, cancelled, done, shut,
                 request, stores, ended>>

\* A step that can fail does, and calls log.Fatalf.
StartFails ==
  /\ "start" \in Faults
  /\ ~ended
  /\ ~exiting
  /\ main \in {"ledger", "node", "store", "router"}
  /\ Leave("main")
  /\ main' = "exit"
  /\ UNCHANGED <<mode, registry, workers, stores, ended>>

\* When an exit has begun log.Fatalf returns.  Main goes on with the nil it
\* was given: the process panics on it, save for a nil router.
StartFailsExiting ==
  /\ "start" \in Faults
  /\ ~ended
  /\ exiting
  /\ main \in {"ledger", "node", "store", "router"}
  /\ IF main = "router" THEN main' = "listen" /\ UNCHANGED ended
                        ELSE ended' = TRUE /\ UNCHANGED main
  /\ UNCHANGED <<mode, registry, exitVars, workers, stores>>

Start ==
  \/ InitLedger \/ InitNode \/ InitStore \/ SetStoreHandler \/ SpawnIndexer
  \/ SetCancelHandler \/ MakeRouter \/ SpawnServer

----------------------------------------------------------------------------
(* The indexer, seen from outside, and the HTTP server.                    *)

\* slip: the receiver is not told
IndexerStops_Silent ==
  /\ ~ended
  /\ indexer = "running"
  /\ cancelled
  /\ indexer' = "returned"
  /\ UNCHANGED <<mode, main, registry, exitVars, cancelled, done, server,
                 shut, request, stores, ended>>

IndexerStops ==
  /\ ~ended
  /\ indexer = "running"
  /\ cancelled
  /\ indexer' = "returned"
  /\ done' = TRUE
  /\ UNCHANGED <<mode, main, registry, exitVars, cancelled, server, shut,
                 request, stores, ended>>

\* The log.Fatalf of the indexer, which returns when an exit has begun.
IndexerFatal ==
  /\ "events" \in Faults
  /\ ~ended
  /\ ~exiting
  /\ indexer = "running"
  /\ Leave("indexer")
  /\ indexer' = "exit"
  /\ UNCHANGED <<mode, main, registry, cancelled, done, server, shut, request,
                 stores, ended>>

\* The server's goroutine sets its own handler before it listens.
SetServerHandler ==
  /\ ~ended
  /\ server = "spawned"
  /\ SetExitHandler("server")
  /\ server' = "registered"
  /\ UNCHANGED <<mode, main, exitVars, indexer, cancelled, done, shut, request,
                 stores, ended>>

\* ListenAndServe, which returns at once after a Shutdown.
Listen ==
  /\ ~ended
  /\ server = "registered"
  /\ server' = IF shut = "no" THEN "serving" ELSE "over"
  /\ UNCHANGED <<mode, main, registry, exitVars, indexer, cancelled, done,
                 shut, request, stores, ended>>

ListenFails ==
  /\ "listen" \in Faults
  /\ ~ended
  /\ server = "registered"
  /\ shut = "no"
  /\ IF exiting THEN server' = "over" /\ UNCHANGED exitVars
                ELSE server' = "exit" /\ Leave("server")
  /\ UNCHANGED <<mode, main, registry, indexer, cancelled, done, shut, request,
                 stores, ended>>

RequestArrives ==
  /\ ~ended
  /\ server = "serving"
  /\ shut = "no"
  /\ request' = TRUE
  /\ UNCHANGED <<mode, main, registry, exitVars, indexer, cancelled, done,
                 server, shut, stores, ended>>

RequestEnds ==
  /\ ~ended
  /\ request
  /\ request' = FALSE
  /\ UNCHANGED <<mode, main, registry, exitVars, indexer, cancelled, done,
                 server, shut, stores, ended>>

----------------------------------------------------------------------------
Next ==
  \/ Signal
  \/ \E r \in Runners : RunHandlers(r)
  \/ Start \/ StartFails \/ StartFailsExiting
  \/ IndexerStops \/ IndexerFatal
  \/ SetServerHandler \/ Listen \/ ListenFails
  \/ RequestArrives \/ RequestEnds

Spec == Init /\ [][Next]_vars

\* Every goroutine is scheduled, and a request is answered some day.  Nothing
\* makes signals, failures or requests arrive.
Fairness ==
  /\ \A r \in Runners : WF_vars(RunHandlers(r))
  /\ WF_vars(Start)
  /\ WF_vars(IndexerStops)
  /\ WF_vars(SetServerHandler) /\ WF_vars(Listen)
  /\ WF_vars(RequestEnds)

FairSpec == Spec /\ Fairness
----------------------------------------------------------------------------
(* Properties.                                                             *)

Has(s, h) == h \in ToSet(s)

\* Badger is closed under nobody's hands: however many goroutines run the
\* handlers, Exit and a signal at once, an online process closes the store only
\* when no indexer will use it again, and only once, for done holds a single
\* value (the exit handler of initServer, main.go 229-235).
StoreOutlivesIndexer ==
  mode = "online" => /\ closes > 0 => indexer = "returned"
                     /\ closes <= 1

\* When the exit begins with the handlers of the indexer in place the ledger
\* is the last to go: the indexer, which reads it, has returned and the store
\* is closed (the order of SetExitHandler, process.go 38-46, and of its calls
\* in main.go 164, 230 and 242).
LedgerClosedLast ==
  ledger = "closed" /\ Has(first, "cancel") => indexer = "returned" /\ closes > 0

\* A request in flight finds the store open, provided the server had set its
\* handler when the exit began and no request outlasts the five seconds
\* (main.go 256-263).
RequestsFindStoreOpen ==
  request /\ Has(first, "server") /\ shut # "expired" => closes = 0

\* An exit ends, whoever began it and however many run the handlers, unless
\* it began while the store's handler was set and the indexer's was not, or
\* was begun by the indexer (process.go 20-36 and 66-81).
ExitEnds ==
  (/\ exiting
   /\ mode = "online" /\ Has(first, "wait") => Has(first, "cancel")
   /\ indexer # "exit") ~> ended

\* "Exit runs the registered exit handlers [...] and then terminates the
\* process" (process.go 20-21): so it does for the log.Fatalf of an indexer
\* whose process has started in full.
FatalTerminates == (indexer = "exit" /\ Has(first, "server")) ~> ended

\* The exit that a signal begins "terminates the process" too (process.go
\* 20-21, which describes Exit by what an interrupt does).
SignalTerminates == todo["signal"] # Idle ~> ended
=============================================================================
