--------------------------- MODULE SessionsProofs ---------------------------
(***************************************************************************)
(* Theorems about Sessions, for any number of requests and connections and *)
(* whether or not the node is NODE_ZERO.                                   *)
(***************************************************************************)
EXTENDS Sessions, TLAPS

\* What start-up settles before anything depends on it: no goroutine outlives
\* the process, the two loaders have their objects, a served request finds a
\* cached object, and whoever is about to open the store has one.
Settled ==
  /\ TypeOK
  /\ ~Up => pc = Down
  /\ Up => chain[Runner] = 1 /\ chain[Starter] = 2
  /\ pc[Runner] = "serving" => cache # Nil
  /\ pc[Starter] # "idle" => pc[Runner] = "serving"
  /\ \A s \in Sessions : pc[s] \in InUse \cup {"got"} => chain[s] # Nil

\* The inductive invariant: OpenDB needs the lock free, so that a session at
\* work excludes others; CloseDB by its owner frees exactly the owner's handle.
Owned == SessionOwnsItsHandle /\ NoHandleLeaks

----------------------------------------------------------------------------
(* Settled.                                                                 *)

LEMMA NilFacts ==
  /\ Nil \notin Sessions /\ Nil # 1 /\ Nil # 2
  /\ \A h \in Handles : h # Nil
  /\ Runner \in Sessions /\ Starter \in Sessions /\ Runner # Starter
  /\ \A s \in Requests \cup Connections :
       s \in Sessions /\ s # Runner /\ s # Starter
BY SessionAssumption DEF Sessions, Chains

LEMMA SettledInit == Init => Settled
BY NilFacts DEF Init, Settled, TypeOK, Down, Up, Labels, InUse

LEMMA SettledProcessEnds == ProcessEnds => Settled'
BY NilFacts DEF ProcessEnds, Settled, TypeOK, Down, Up, Labels, InUse

LEMMA HandleTyped ==
  ASSUME NEW s \in Sessions, NEW c \in Chains, TypeOK, OpenDB(s, c)
  PROVE  flock' \in Handles \cup {Nil} /\ Database' \in [Chains -> Handles \cup {Nil}]
<1>1. <<s, c>> \in Handles
  BY DEF Handles
<1> QED BY <1>1 DEF OpenDB, TypeOK

LEMMA CloseTyped ==
  ASSUME NEW c, TypeOK, CloseDB(c)
  PROVE  flock' \in Handles \cup {Nil}
BY DEF CloseDB, TypeOK

LEMMA SettledRunner == Settled /\ RunnerStep => Settled'
<1> SUFFICES ASSUME Settled, RunnerStep PROVE Settled'
  OBVIOUS
<1> USE NilFacts DEF Settled, Up, Labels, InUse, Goto
<1>1. CASE Load(Runner)
  <2>1. chain[Runner] \in Chains
    BY <1>1 DEF Load, TypeOK, Chains
  <2>2. flock' \in Handles \cup {Nil} /\ Database' \in [Chains -> Handles \cup {Nil}]
    BY <1>1, <2>1, HandleTyped DEF Load
  <2> QED BY <1>1, <2>2 DEF Load, TypeOK, Down
<1>2. CASE Loaded(Runner)
  <2>1. flock' \in Handles \cup {Nil}
    BY <1>2, CloseTyped DEF Loaded
  <2> QED BY <1>2, <2>1 DEF Loaded, TypeOK, Down
<1>3. CASE RunServes
  BY <1>3 DEF RunServes, TypeOK, Down, Chains
<1> QED BY <1>1, <1>2, <1>3 DEF RunnerStep

LEMMA SettledStarter == Settled /\ StarterStep => Settled'
<1> SUFFICES ASSUME Settled, StarterStep PROVE Settled'
  OBVIOUS
<1> USE NilFacts DEF Settled, Up, Labels, InUse, Goto
<1>0. pc[Starter] # "idle" => chain[Starter] = 2 /\ chain[Starter] \in Chains
  BY DEF Down, Chains
<1>1. CASE Load(Starter)
  <2>1. flock' \in Handles \cup {Nil} /\ Database' \in [Chains -> Handles \cup {Nil}]
    BY <1>0, <1>1, HandleTyped DEF Load
  <2> QED BY <1>0, <1>1, <2>1 DEF Load, TypeOK, Down
<1>2. CASE Loaded(Starter)
  <2>1. flock' \in Handles \cup {Nil}
    BY <1>2, CloseTyped DEF Loaded
  <2> QED BY <1>2, <2>1 DEF Loaded, TypeOK, Down
<1>3. CASE StarterCaches
  BY <1>0, <1>3 DEF StarterCaches, TypeOK, Down
<1>4. CASE SendVersionOpens
  <2>1. flock' \in Handles \cup {Nil} /\ Database' \in [Chains -> Handles \cup {Nil}]
    BY <1>0, <1>4, HandleTyped DEF SendVersionOpens
  <2> QED BY <1>0, <1>4, <2>1 DEF SendVersionOpens, TypeOK, Down
<1>5. CASE SendVersionReturns
  <2>1. flock' \in Handles \cup {Nil}
    BY <1>5, CloseTyped DEF SendVersionReturns
  <2> QED BY <1>5, <2>1 DEF SendVersionReturns, TypeOK, Down
<1>6. CASE StarterRefused
  BY <1>6 DEF StarterRefused, TypeOK, Down
<1>7. CASE Fatal(Starter)
  BY <1>7, SettledProcessEnds DEF Fatal
<1> QED BY <1>1, <1>2, <1>3, <1>4, <1>5, <1>6, <1>7 DEF StarterStep

LEMMA SettledRequest ==
  ASSUME NEW s \in Requests, Settled,
         GetBlockchain(s) \/ CacheRace(s) \/ RequestStep(s)
  PROVE  Settled'
<1> USE NilFacts DEF Settled, Up, Labels, InUse, Goto
<1>1. CASE GetBlockchain(s)
  BY <1>1 DEF GetBlockchain, TypeOK, Down
<1>2. CASE CacheRace(s)
  BY <1>2, SettledProcessEnds DEF CacheRace
<1>3. CASE RequestOpens(s)
  <2>1. chain[s] \in Chains
    BY <1>3 DEF RequestOpens, TypeOK
  <2>2. flock' \in Handles \cup {Nil} /\ Database' \in [Chains -> Handles \cup {Nil}]
    BY <1>3, <2>1, HandleTyped DEF RequestOpens
  <2> QED BY <1>3, <2>2 DEF RequestOpens, TypeOK, Down
<1>4. CASE RequestRefused(s)
  BY <1>4 DEF RequestRefused, TypeOK, Down
<1>5. CASE RequestEnds(s)
  <2>1. flock' \in Handles \cup {Nil}
    BY <1>5, CloseTyped DEF RequestEnds
  <2> QED BY <1>5, <2>1 DEF RequestEnds, TypeOK, Down
<1> QED BY <1>1, <1>2, <1>3, <1>4, <1>5 DEF RequestStep

LEMMA SettledConnection ==
  ASSUME NEW s \in Connections, Settled,
         ConnectionOpens(s) \/ ConnectionRefused(s) \/ ConnectionStep(s)
  PROVE  Settled'
<1> USE NilFacts DEF Settled, Up, Labels, InUse, Goto
<1>1. CASE ConnectionOpens(s)
  <2>1. chain[Starter] = 2 /\ chain[Starter] \in Chains
    BY <1>1 DEF ConnectionOpens, Down, Chains
  <2>2. flock' \in Handles \cup {Nil} /\ Database' \in [Chains -> Handles \cup {Nil}]
    BY <1>1, <2>1, HandleTyped DEF ConnectionOpens
  <2> QED BY <1>1, <2>1, <2>2 DEF ConnectionOpens, TypeOK, Down
<1>2. CASE ConnectionRefused(s)
  BY <1>2 DEF ConnectionRefused, TypeOK, Down
<1>3. CASE ConnectionEnds(s)
  <2>1. flock' \in Handles \cup {Nil}
    BY <1>3, CloseTyped DEF ConnectionEnds
  <2> QED BY <1>3, <2>1 DEF ConnectionEnds, TypeOK, Down
<1>4. CASE ConnectionPanics(s)
  BY <1>4 DEF ConnectionPanics, TypeOK, Down
<1>5. CASE Unwind(s)
  <2>1. flock' \in Handles \cup {Nil}
    BY <1>5, CloseTyped DEF Unwind
  <2> QED BY <1>5, <2>1 DEF Unwind, TypeOK, Down
<1>6. CASE Fatal(s)
  BY <1>6, SettledProcessEnds DEF Fatal
<1> QED BY <1>1, <1>2, <1>3, <1>4, <1>5, <1>6 DEF ConnectionStep

LEMMA SettledStep == Settled /\ [Next]_vars => Settled'
<1> SUFFICES ASSUME Settled, [Next]_vars PROVE Settled'
  OBVIOUS
<1>1. CASE Start
  BY <1>1, NilFacts DEF Start, Settled, TypeOK, Up, Down, Labels, InUse, Goto, Chains
<1>2. CASE SignalCloses
  <2>1. flock' \in Handles \cup {Nil}
    BY <1>2, CloseTyped DEF SignalCloses, Settled
  <2> QED BY <1>2, <2>1 DEF SignalCloses, Settled, TypeOK, Up
<1>3. CASE Exit \/ Killed
  BY <1>3, SettledProcessEnds DEF Exit, Killed
<1>4. CASE UNCHANGED vars
  BY <1>4 DEF vars, Settled, TypeOK, Up
<1> QED BY <1>1, <1>2, <1>3, <1>4, SettledRunner, SettledStarter, SettledRequest,
           SettledConnection DEF Next

\* Every variable keeps its type.
THEOREM SessionsTypeCorrect == Spec => []TypeOK
<1>1. Settled => TypeOK
  BY DEF Settled
<1> QED BY <1>1, SettledInit, SettledStep, PTL DEF Spec

----------------------------------------------------------------------------
(* Owned: one lemma for each way a step touches the store.                  *)

LEMMA OwnedOpens ==
  ASSUME Settled, Owned, NEW s \in Sessions, NEW c \in Chains, ~Using(s),
         OpenDB(s, c), NEW l \in InUse, pc' = [pc EXCEPT ![s] = l],
         chain' \in [Sessions -> Chains \cup {Nil}], chain'[s] = c,
         UNCHANGED dying
  PROVE  Owned'
<1>1. /\ flock' = <<s, c>> /\ Database'[c] = <<s, c>>
      /\ Using(s)' /\ c # Nil
  BY NilFacts DEF OpenDB, Settled, TypeOK, Using, Chains
<1>2. \A t \in Sessions \ {s} : ~dying => ~Using(t)'
  <2>1. \A t \in Sessions \ {s} : ~dying /\ Using(t) => flock = <<t, chain[t]>> /\ flock # Nil
    BY NilFacts DEF Owned, SessionOwnsItsHandle, Settled, TypeOK, Handles
  <2>2. flock = Nil
    BY DEF OpenDB
  <2> QED BY <2>1, <2>2 DEF Using, Settled, TypeOK
<1> QED BY <1>1, <1>2 DEF Owned, SessionOwnsItsHandle, NoHandleLeaks

LEMMA OwnedCloses ==
  ASSUME Settled, Owned, NEW s \in Sessions, Using(s), CloseDB(chain[s]),
         NEW l, l \notin InUse, pc' = [pc EXCEPT ![s] = l],
         UNCHANGED <<chain, Database, dying>>
  PROVE  Owned'
<1>1. ~dying => flock = <<s, chain[s]>> /\ flock' = Nil
  BY DEF Owned, SessionOwnsItsHandle, CloseDB
<1>2. \A t \in Sessions : Using(t)' => t # s /\ Using(t)
  BY DEF Using, Settled, TypeOK
<1>3. \A t \in Sessions : ~dying => ~Using(t)'
  BY <1>1, <1>2 DEF Owned, SessionOwnsItsHandle
<1> QED BY <1>1, <1>3 DEF Owned, SessionOwnsItsHandle, NoHandleLeaks

LEMMA OwnedQuiet ==
  ASSUME Owned, UNCHANGED <<Database, flock, dying>>,
         \A s \in Sessions : /\ Using(s)' <=> Using(s)
                             /\ Using(s) => chain'[s] = chain[s]
  PROVE  Owned'
BY DEF Owned, SessionOwnsItsHandle, NoHandleLeaks

LEMMA OwnedProcessEnds == ProcessEnds => Owned'
BY DEF ProcessEnds, Owned, SessionOwnsItsHandle, NoHandleLeaks, Using, Down, InUse

LEMMA OwnedRunner == Settled /\ Owned /\ RunnerStep => Owned'
<1> SUFFICES ASSUME Settled, Owned, RunnerStep PROVE Owned'
  OBVIOUS
<1> USE NilFacts
<1>1. CASE Load(Runner)
  <2>1. chain[Runner] \in Chains
    BY <1>1 DEF Load, Settled, Up, Chains
  <2> QED BY <1>1, <2>1, OwnedOpens DEF Load, Goto, InUse, Using, Settled, TypeOK
<1>2. CASE Loaded(Runner)
  BY <1>2, OwnedCloses DEF Loaded, Goto, InUse, Using
<1>3. CASE RunServes
  <2>1. pc[Starter] = "idle"
    BY <1>3 DEF RunServes, Settled
  <2> QED BY <1>3, <2>1, OwnedQuiet DEF RunServes, Using, InUse, Settled, TypeOK
<1> QED BY <1>1, <1>2, <1>3 DEF RunnerStep

LEMMA OwnedStarter == Settled /\ Owned /\ StarterStep => Owned'
<1> SUFFICES ASSUME Settled, Owned, StarterStep PROVE Owned'
  OBVIOUS
<1> USE NilFacts
<1>0. pc[Starter] # "idle" => chain[Starter] \in Chains
  BY DEF Settled, Up, Down, Chains
<1>1. CASE Load(Starter)
  BY <1>0, <1>1, OwnedOpens DEF Load, Goto, InUse, Using, Settled, TypeOK
<1>2. CASE Loaded(Starter)
  BY <1>2, OwnedCloses DEF Loaded, Goto, InUse, Using
<1>3. CASE StarterCaches
  BY <1>3, OwnedQuiet DEF StarterCaches, Goto, InUse, Using, Settled, TypeOK
<1>4. CASE SendVersionOpens
  BY <1>0, <1>4, OwnedOpens DEF SendVersionOpens, Goto, InUse, Using, Settled, TypeOK
<1>5. CASE SendVersionReturns
  BY <1>5, OwnedCloses DEF SendVersionReturns, Goto, InUse, Using
<1>6. CASE StarterRefused
  BY <1>6, OwnedQuiet DEF StarterRefused, Goto, InUse, Using, Settled, TypeOK
<1>7. CASE Fatal(Starter)
  BY <1>7, OwnedProcessEnds DEF Fatal
<1> QED BY <1>1, <1>2, <1>3, <1>4, <1>5, <1>6, <1>7 DEF StarterStep

LEMMA OwnedRequest ==
  ASSUME NEW s \in Requests, Settled, Owned,
         GetBlockchain(s) \/ CacheRace(s) \/ RequestStep(s)
  PROVE  Owned'
<1> USE NilFacts
<1>1. CASE GetBlockchain(s)
  BY <1>1, OwnedQuiet DEF GetBlockchain, Goto, InUse, Using, Settled, TypeOK
<1>2. CASE CacheRace(s)
  BY <1>2, OwnedProcessEnds DEF CacheRace
<1>3. CASE RequestOpens(s)
  <2>1. chain[s] \in Chains
    BY <1>3 DEF RequestOpens, Settled, TypeOK
  <2> QED BY <1>3, <2>1, OwnedOpens DEF RequestOpens, Goto, InUse, Using, Settled, TypeOK
<1>4. CASE RequestRefused(s)
  BY <1>4, OwnedQuiet DEF RequestRefused, Goto, InUse, Using, Settled, TypeOK
<1>5. CASE RequestEnds(s)
  BY <1>5, OwnedCloses DEF RequestEnds, Goto, InUse, Using
<1> QED BY <1>1, <1>2, <1>3, <1>4, <1>5 DEF RequestStep

LEMMA OwnedConnection ==
  ASSUME NEW s \in Connections, Settled, Owned,
         ConnectionOpens(s) \/ ConnectionRefused(s) \/ ConnectionStep(s)
  PROVE  Owned'
<1> USE NilFacts
<1>1. CASE ConnectionOpens(s)
  <2>1. chain[Starter] \in Chains
    BY <1>1 DEF ConnectionOpens, Settled, Up, Down, Chains
  <2> QED BY <1>1, <2>1, OwnedOpens DEF ConnectionOpens, Goto, InUse, Using, Settled, TypeOK
<1>2. CASE ConnectionRefused(s)
  BY <1>2, OwnedQuiet DEF ConnectionRefused, Goto, InUse, Using, Settled, TypeOK
<1>3. CASE ConnectionEnds(s)
  BY <1>3, OwnedCloses DEF ConnectionEnds, Goto, InUse, Using
<1>4. CASE ConnectionPanics(s)
  BY <1>4, OwnedQuiet DEF ConnectionPanics, Goto, InUse, Using, Settled, TypeOK
<1>5. CASE Unwind(s)
  BY <1>5, OwnedCloses DEF Unwind, Goto, InUse, Using
<1>6. CASE Fatal(s)
  BY <1>6, OwnedProcessEnds DEF Fatal
<1> QED BY <1>1, <1>2, <1>3, <1>4, <1>5, <1>6 DEF ConnectionStep

LEMMA OwnedStep == Settled /\ Owned /\ [Next]_vars => Owned'
<1> SUFFICES ASSUME Settled, Owned, [Next]_vars PROVE Owned'
  OBVIOUS
<1>1. CASE Start
  <2>1. pc = Down
    BY <1>1 DEF Start, Settled
  <2> QED BY <1>1, <2>1, OwnedQuiet, NilFacts DEF Start, Goto, InUse, Using, Down
<1>2. CASE SignalCloses
  BY <1>2 DEF SignalCloses, Owned, SessionOwnsItsHandle, NoHandleLeaks
<1>3. CASE Exit \/ Killed
  BY <1>3, OwnedProcessEnds DEF Exit, Killed
<1>4. CASE UNCHANGED vars
  BY <1>4, OwnedQuiet DEF vars, Using
<1> QED BY <1>1, <1>2, <1>3, <1>4, OwnedRunner, OwnedStarter, OwnedRequest,
           OwnedConnection DEF Next

LEMMA OwnedAlways == Spec => [](Settled /\ Owned)
<1>1. Init => Owned
  BY DEF Init, Owned, SessionOwnsItsHandle, NoHandleLeaks, Using, Down, InUse
<1> QED BY <1>1, SettledInit, SettledStep, OwnedStep, PTL DEF Spec

\* Until a signal comes, what a session has open and what its CloseDB will
\* close are the same handle, whatever is refused meanwhile.
THEOREM HandlesStayOwned == Spec => []SessionOwnsItsHandle
<1>1. Owned => SessionOwnsItsHandle
  BY DEF Owned
<1> QED BY <1>1, OwnedAlways, PTL

\* So two sessions never work on the store at once.
THEOREM SessionsExclude == Spec => []OneSessionAtATime
<1>1. Settled /\ Owned => OneSessionAtATime
  <2> SUFFICES ASSUME Settled, Owned, ~dying, NEW s \in Sessions, NEW t \in Sessions,
                      Using(s), Using(t)
               PROVE  s = t
    BY DEF OneSessionAtATime
  <2>1. flock = <<s, chain[s]>> /\ flock = <<t, chain[t]>>
    BY DEF Owned, SessionOwnsItsHandle
  <2> QED BY <2>1
<1> QED BY <1>1, OwnedAlways, PTL

\* And no panic and no refusal leaves the store locked.
THEOREM HandlesNeverLeak == Spec => []NoHandleLeaks
<1>1. Owned => NoHandleLeaks
  BY DEF Owned
<1> QED BY <1>1, OwnedAlways, PTL

----------------------------------------------------------------------------
(* Refinement (its fairness is left to TLC).                                *)

LEMMA UserTyped ==
  ASSUME TypeOK PROVE StoreUser \in Sessions \cup {Nil}
BY DEF TypeOK, StoreUser, Handles

\* Every step of the sessions is a step of StoreAccess or leaves its user be.
LEMMA StepsMap == Settled /\ Owned /\ [Next]_vars => [Access!Next]_StoreUser
<1> SUFFICES ASSUME Settled, Owned, [Next]_vars PROVE [Access!Next]_StoreUser
  OBVIOUS
<1> USE NilFacts
<1>0. StoreUser \in Sessions \cup {Nil}
  BY UserTyped DEF Settled
<1>1. ASSUME StoreUser' = Nil PROVE [Access!Next]_StoreUser
  BY <1>0, <1>1 DEF Access!Next, Access!Release
<1>2. ASSUME NEW s \in Sessions, NEW c \in Chains, OpenDB(s, c), UNCHANGED dying
      PROVE  [Access!Next]_StoreUser
  <2>1. <<s, c>> # Nil
    BY DEF Handles
  <2>2. CASE dying
    BY <1>1, <1>2, <2>2 DEF StoreUser
  <2>3. CASE ~dying
    BY <1>2, <2>1, <2>3 DEF StoreUser, OpenDB, Access!Next, Access!Acquire
  <2> QED BY <2>2, <2>3
<1>3. ASSUME NEW c, CloseDB(c), UNCHANGED dying \/ dying'
      PROVE  [Access!Next]_StoreUser
  BY <1>1, <1>3 DEF CloseDB, StoreUser
<1>4. ASSUME UNCHANGED <<flock, dying>> PROVE [Access!Next]_StoreUser
  BY <1>4 DEF StoreUser
<1>5. ASSUME ProcessEnds PROVE [Access!Next]_StoreUser
  BY <1>1, <1>5 DEF ProcessEnds, StoreUser
<1>6. CASE Start
  BY <1>4, <1>6 DEF Start
<1>7. CASE RunnerStep
  <2>1. CASE Load(Runner)
    BY <1>2, <2>1 DEF Load, Settled, Up, Chains
  <2> QED BY <1>3, <1>4, <1>7, <2>1 DEF RunnerStep, Loaded, RunServes
<1>8. CASE StarterStep
  <2>1. pc[Starter] # "idle" => chain[Starter] \in Chains
    BY DEF Settled, Up, Down, Chains
  <2>2. CASE Load(Starter) \/ SendVersionOpens
    BY <1>2, <2>1, <2>2 DEF Load, SendVersionOpens
  <2> QED BY <1>3, <1>4, <1>5, <1>8, <2>2
          DEF StarterStep, Loaded, StarterCaches, SendVersionReturns, StarterRefused, Fatal
<1>9. CASE SignalCloses
  BY <1>3, <1>9 DEF SignalCloses
<1>10. CASE Exit \/ Killed
  BY <1>5, <1>10 DEF Exit, Killed
<1>11. ASSUME NEW s \in Requests, GetBlockchain(s) \/ CacheRace(s) \/ RequestStep(s)
       PROVE  [Access!Next]_StoreUser
  <2>1. CASE RequestOpens(s)
    <3>1. chain[s] \in Chains
      BY <2>1 DEF RequestOpens, Settled, TypeOK
    <3> QED BY <1>2, <2>1, <3>1 DEF RequestOpens
  <2> QED BY <1>3, <1>4, <1>5, <1>11, <2>1
          DEF RequestStep, GetBlockchain, CacheRace, RequestRefused, RequestEnds
<1>12. ASSUME NEW s \in Connections,
              ConnectionOpens(s) \/ ConnectionRefused(s) \/ ConnectionStep(s)
       PROVE  [Access!Next]_StoreUser
  <2>1. CASE ConnectionOpens(s)
    <3>1. chain[Starter] \in Chains
      BY <2>1 DEF ConnectionOpens, Settled, Up, Down, Chains
    <3> QED BY <1>2, <2>1, <3>1 DEF ConnectionOpens
  <2> QED BY <1>3, <1>4, <1>5, <1>12, <2>1
          DEF ConnectionStep, ConnectionRefused, ConnectionEnds, ConnectionPanics,
              Unwind, Fatal
<1>13. CASE UNCHANGED vars
  BY <1>4, <1>13 DEF vars
<1> QED BY <1>6, <1>7, <1>8, <1>9, <1>10, <1>11, <1>12, <1>13 DEF Next

\* The sessions take the store in turns as StoreAccess says, signals and
\* crashes included (a store that is being abandoned counts as let go).
THEOREM SessionsRefineAccess == Spec => Access!Init /\ [][Access!Next]_StoreUser
<1>1. Init => Access!Init
  BY DEF Init, Access!Init, StoreUser
<1> QED BY <1>1, StepsMap, OwnedAlways, PTL DEF Spec
=============================================================================
