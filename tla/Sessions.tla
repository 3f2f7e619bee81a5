------------------------------ MODULE Sessions ------------------------------
(***************************************************************************)
(* The process around the ledger: who opens and closes the badger store.   *)
(* The HTTP server and the network server run a goroutine per request or   *)
(* connection; each opens the store, works and closes it, with no lock of  *)
(* their own.  badger locks the store's directory: a second badger.Open    *)
(* fails, and OpenDB turns that into a panic.  net/http recovers a panic   *)
(* of a handler; in any other goroutine it ends the process.               *)
(*                                                                         *)
(* The process loads the chain twice: Run into one Blockchain object, then *)
(* startNetworkServer, concurrently with the HTTP server, into a second    *)
(* one that replaces the first in cache.  CloseDB closes whatever handle   *)
(* the object's Database field holds when it is called.                    *)
(***************************************************************************)
EXTENDS Naturals

CONSTANTS
  Nil,
  Requests,     \* goroutines of the HTTP server
  Connections,  \* goroutines of the network server
  Runner,       \* the goroutine of Run
  Starter,      \* the goroutine of startNetworkServer
  IsNodeZero    \* this node is NODE_ZERO, which sends no first version

Sessions == Requests \cup Connections \cup {Runner, Starter}
Chains == {1, 2}             \* the objects Run and startNetworkServer make
Handles == Sessions \X Chains \* an open store: who opened it, for which object

ASSUME SessionAssumption ==
  /\ Requests \cap Connections = {}
  /\ Runner # Starter
  /\ {Runner, Starter} \cap (Requests \cup Connections) = {}
  /\ Nil \notin Sessions \cup Chains \cup Handles
  /\ IsNodeZero \in BOOLEAN

VARIABLES
  pc,        \* what each goroutine does next
  chain,     \* the object each goroutine works with
  Database,  \* Blockchain.Database of each object: a handle, open or not, or Nil
  flock,     \* the handle that holds the lock of the store's directory, or Nil
  cache,     \* cache[CHAIN_ID]
  dying      \* the handler of SIGINT/SIGTERM has closed the store

vars == <<pc, chain, Database, flock, cache, dying>>

Down == [s \in Sessions |-> "idle"]

Init ==
  /\ pc = Down
  /\ chain = [s \in Sessions |-> Nil]
  /\ Database = [c \in Chains |-> Nil]
  /\ flock = Nil
  /\ cache = Nil
  /\ dying = FALSE

Up == pc[Runner] # "idle"

\* Work may be under way on the store: from OpenDB to the deferred CloseDB.
InUse == {"loading", "using", "panicking"}
Using(s) == pc[s] \in InUse

Goto(s, label) == pc' = [pc EXCEPT ![s] = label]

\* The process ends; the kernel drops the lock.
ProcessEnds ==
  /\ pc' = Down
  /\ chain' = [s \in Sessions |-> Nil]
  /\ Database' = [c \in Chains |-> Nil]
  /\ flock' = Nil
  /\ cache' = Nil
  /\ dying' = FALSE

----------------------------------------------------------------------------
(* OpenDB and CloseDB.                                                      *)

\* Mutant: the store is opened without its lock.
OpenDBNoLock(s, c) ==
  /\ flock' = <<s, c>>
  /\ Database' = [Database EXCEPT ![c] = <<s, c>>]

\* badger.Open succeeds, the object gets the new handle.
OpenDB(s, c) ==
  /\ flock = Nil
  /\ flock' = <<s, c>>
  /\ Database' = [Database EXCEPT ![c] = <<s, c>>]

\* Close the handle in the object's field; a handle closed before stays closed.
CloseDB(c) ==
  flock' = IF flock = Database[c] THEN Nil ELSE flock

----------------------------------------------------------------------------
(* Run and startNetworkServer.                                              *)

Start ==
  /\ ~Up
  /\ Goto(Runner, "load")
  /\ chain' = [chain EXCEPT ![Runner] = 1, ![Starter] = 2]
  /\ UNCHANGED <<Database, flock, cache, dying>>

\* LoadBlockchain opens the store (module Ledger is what it does then).
Load(s) ==
  /\ pc[s] = "load"
  /\ OpenDB(s, chain[s])
  /\ Goto(s, "loading")
  /\ UNCHANGED <<chain, cache, dying>>

\* LoadBlockchain returns, its deferred CloseDB runs.
Loaded(s) ==
  /\ pc[s] = "loading"
  /\ CloseDB(chain[s])
  /\ Goto(s, "cache")
  /\ UNCHANGED <<chain, Database, cache, dying>>

\* Run caches the object, registers the handlers, starts the other goroutine.
RunServes ==
  /\ pc[Runner] = "cache"
  /\ cache' = chain[Runner]
  /\ pc' = [pc EXCEPT ![Runner] = "serving", ![Starter] = "load"]
  /\ UNCHANGED <<chain, Database, flock, dying>>

\* Mutant: the starter waits until the store is free.
StarterWaits ==
  /\ pc[Starter] \in {"load", "version"}
  /\ flock # Nil
  /\ UNCHANGED vars

\* The starter's LoadBlockchain or SendVersion finds the store open.
StarterRefused ==
  /\ pc[Starter] \in {"load", "version"}
  /\ flock # Nil
  /\ Goto(Starter, "fatal")
  /\ UNCHANGED <<chain, Database, flock, cache, dying>>

\* The starter caches its object and takes it out again, listens, and unless
\* it is NODE_ZERO sends it its version.
StarterCaches ==
  /\ pc[Starter] = "cache"
  /\ cache' = chain[Starter]
  /\ Goto(Starter, IF IsNodeZero THEN "accepting" ELSE "version")
  /\ UNCHANGED <<chain, Database, flock, dying>>

SendVersionOpens ==
  /\ pc[Starter] = "version"
  /\ OpenDB(Starter, chain[Starter])
  /\ Goto(Starter, "using")
  /\ UNCHANGED <<chain, cache, dying>>

SendVersionReturns ==
  /\ pc[Starter] = "using"
  /\ CloseDB(chain[Starter])
  /\ Goto(Starter, "accepting")
  /\ UNCHANGED <<chain, Database, cache, dying>>

----------------------------------------------------------------------------
(* HTTP handlers: GetBlockchain, OpenDB, defer CloseDB, work.               *)

GetBlockchain(s) ==
  /\ pc[Runner] = "serving"
  /\ pc[s] = "idle"
  /\ chain' = [chain EXCEPT ![s] = cache]
  /\ Goto(s, "got")
  /\ UNCHANGED <<Database, flock, cache, dying>>

\* The cache is a plain map: a request that reads it while the starter writes
\* it can end the process ("concurrent map read and map write"), or not.
CacheRace(s) ==
  /\ pc[s] = "idle"
  /\ pc[Starter] = "cache"
  /\ ProcessEnds

RequestOpens(s) ==
  /\ pc[s] = "got"
  /\ OpenDB(s, chain[s])
  /\ Goto(s, "using")
  /\ UNCHANGED <<chain, cache, dying>>

\* Mutants: CloseDB is deferred before OpenDB; a request waits for the store.
RequestRefusedCloses(s) ==
  /\ pc[s] = "got"
  /\ flock # Nil
  /\ CloseDB(chain[s])
  /\ Goto(s, "idle")
  /\ UNCHANGED <<chain, Database, cache, dying>>

RequestWaits(s) ==
  /\ pc[s] = "got"
  /\ flock # Nil
  /\ UNCHANGED vars

\* OpenDB panics before the deferred CloseDB is registered; recovered.
RequestRefused(s) ==
  /\ pc[s] = "got"
  /\ flock # Nil
  /\ Goto(s, "idle")
  /\ UNCHANGED <<chain, Database, flock, cache, dying>>

\* Mutant: CloseDB is not deferred, a handler that panics skips it.
RequestEndsOpen(s) ==
  /\ pc[s] = "using"
  /\ CloseDB(chain[s]) \/ UNCHANGED flock
  /\ Goto(s, "idle")
  /\ UNCHANGED <<chain, Database, cache, dying>>

\* The handler returns or panics: the deferred CloseDB runs either way.
RequestEnds(s) ==
  /\ pc[s] = "using"
  /\ CloseDB(chain[s])
  /\ Goto(s, "idle")
  /\ UNCHANGED <<chain, Database, cache, dying>>

----------------------------------------------------------------------------
(* Handlers of the network server, all on the object StartServer was given. *)

ConnectionOpens(s) ==
  /\ pc[Starter] = "accepting"
  /\ pc[s] = "idle"
  /\ OpenDB(s, chain[Starter])
  /\ chain' = [chain EXCEPT ![s] = chain[Starter]]
  /\ Goto(s, "using")
  /\ UNCHANGED <<cache, dying>>

\* OpenDB panics: nothing is closed, the goroutine unwinds to its end.
ConnectionRefused(s) ==
  /\ pc[Starter] = "accepting"
  /\ pc[s] = "idle"
  /\ flock # Nil
  /\ Goto(s, "fatal")
  /\ UNCHANGED <<chain, Database, flock, cache, dying>>

ConnectionEnds(s) ==
  /\ pc[s] = "using"
  /\ CloseDB(chain[s])
  /\ Goto(s, "idle")
  /\ UNCHANGED <<chain, Database, cache, dying>>

\* A panic while the store is open: AddBlock or MineBlock without a tip, a
\* transaction not found, or a second OpenDB on the same object (SendVersion
\* called by HandleVersion, MineTx by MineTx).
ConnectionPanics(s) ==
  /\ pc[s] = "using"
  /\ Goto(s, "panicking")
  /\ UNCHANGED <<chain, Database, flock, cache, dying>>

\* The deferred CloseDB runs while the panic unwinds the goroutine.
Unwind(s) ==
  /\ pc[s] = "panicking"
  /\ CloseDB(chain[s])
  /\ Goto(s, "fatal")
  /\ UNCHANGED <<chain, Database, cache, dying>>

\* A panic nobody recovers ends the process.
Fatal(s) ==
  /\ pc[s] = "fatal"
  /\ ProcessEnds

----------------------------------------------------------------------------
(* The end.                                                                 *)

\* The handler of signals, started by StartServer, closes the handle in the
\* field, whoever works with it; os.Exit follows.
SignalCloses ==
  /\ pc[Starter] \in {"version", "using", "accepting"}
  /\ ~dying
  /\ CloseDB(chain[Starter])
  /\ dying' = TRUE
  /\ UNCHANGED <<pc, chain, Database, cache>>

Exit ==
  /\ dying
  /\ ProcessEnds

\* SIGKILL, or SIGINT before the handler is there, or a power cut.
Killed ==
  /\ Up
  /\ ProcessEnds

----------------------------------------------------------------------------
RunnerStep == Load(Runner) \/ Loaded(Runner) \/ RunServes

StarterStep ==
  \/ Load(Starter) \/ Loaded(Starter) \/ StarterCaches
  \/ SendVersionOpens \/ SendVersionReturns
  \/ StarterRefused \/ Fatal(Starter)

RequestStep(s) == RequestOpens(s) \/ RequestRefused(s) \/ RequestEnds(s)

ConnectionStep(s) ==
  ConnectionEnds(s) \/ ConnectionPanics(s) \/ Unwind(s) \/ Fatal(s)

Next ==
  \/ Start \/ RunnerStep \/ StarterStep
  \/ SignalCloses \/ Exit \/ Killed
  \/ \E s \in Requests : GetBlockchain(s) \/ CacheRace(s) \/ RequestStep(s)
  \/ \E s \in Connections :
       ConnectionOpens(s) \/ ConnectionRefused(s) \/ ConnectionStep(s)

\* The Go scheduler runs every goroutine that can run; requests, connections,
\* signals and restarts come or do not.
Fairness ==
  /\ WF_vars(RunnerStep)
  /\ WF_vars(StarterStep)
  /\ WF_vars(Exit)
  /\ \A s \in Requests : WF_vars(RequestStep(s))
  /\ \A s \in Connections : WF_vars(ConnectionStep(s))

Spec == Init /\ [][Next]_vars /\ Fairness

----------------------------------------------------------------------------
(* Properties.                                                              *)

Labels == {"idle", "load", "loading", "cache", "serving", "version", "using",
           "accepting", "got", "panicking", "fatal"}

TypeOK ==
  /\ pc \in [Sessions -> Labels]
  /\ chain \in [Sessions -> Chains \cup {Nil}]
  /\ Database \in [Chains -> Handles \cup {Nil}]
  /\ flock \in Handles \cup {Nil}
  /\ cache \in Chains \cup {Nil}
  /\ dying \in BOOLEAN

\* Until a signal comes, a session at work has the store open, through its own
\* handle, and that handle is in the field its CloseDB will read: no refused
\* OpenDB, no second object and no other session has closed or replaced it.
SessionOwnsItsHandle ==
  \A s \in Sessions :
    Using(s) /\ ~dying =>
      /\ chain[s] # Nil
      /\ flock = <<s, chain[s]>>
      /\ Database[chain[s]] = flock

\* Two sessions never work on the store at the same time until a signal comes.
OneSessionAtATime ==
  ~dying => \A s, t \in Sessions : Using(s) /\ Using(t) => s = t

\* The store is never left open by a session that is gone (it would refuse
\* every later one), not by a panic and not by a refusal.
NoHandleLeaks ==
  flock # Nil /\ ~dying => \E s \in Sessions : Using(s) /\ flock = <<s, chain[s]>>

\* Every request is answered or aborted: nobody waits for the store.
EveryRequestEnds == \A s \in Requests : pc[s] = "got" ~> pc[s] = "idle"

\* Start-up ends: the node accepts connections or the process is gone.
StartupEnds == pc[Runner] = "load" ~> pc[Starter] = "accepting" \/ ~Up

\* Until a signal comes the sessions implement StoreAccess: they take the store
\* in turns, and it is let go every time.
StoreUser == IF dying \/ flock = Nil THEN Nil ELSE flock[1]

Access == INSTANCE StoreAccess WITH
  Users <- Sessions, Nobody <- Nil, user <- StoreUser

SessionsImplementAccess == Access!Spec
=============================================================================
