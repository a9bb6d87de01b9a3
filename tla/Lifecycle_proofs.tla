--------------------------- MODULE Lifecycle_proofs ---------------------------
(***************************************************************************)
(* Theorems about the life of the process, for any number of migrations    *)
(* and restarts, with or without update checks and a janitor: the store is *)
(* handed out complete, and it outlives the control loop and the server.   *)
(*                                                                         *)
(* The invariant says what a kill may leave behind in the database: a      *)
(* version that is not marked dirty tells the truth about the tables       *)
(* (CleanIsTrue); and it ties the store to main, and the goroutines that   *)
(* use it to the store (OnlyWhileOpen).                                    *)
(***************************************************************************)
EXTENDS Lifecycle, TLAPS

(* Only a migration that ran to its end has its mark removed.              *)
CleanIsTrue ==
    \/ ~schema.dirty
    \/ main = "marking"
    => schema.version = schema.tables

(* The store is open while main waits, and then only do the loop and the   *)
(* server run.                                                             *)
OnlyWhileOpen ==
    /\ store = "open" <=> main = "waiting"
    /\ main # "waiting" => /\ at["loop"] \in {"off", "done"}
                           /\ at["web"] \in {"off", "done"}

IInv == TypeOK /\ SchemaIsCurrent /\ CleanIsTrue /\ OnlyWhileOpen

Starting == {"opening", "migrating", "marking"}

-----------------------------------------------------------------------------
LEMMA IInvInit == Init => IInv
<1> SUFFICES ASSUME Init PROVE IInv
  OBVIOUS
<1>1. PICK v \in 0..Migrations : schema = [version |-> v, dirty |-> FALSE, tables |-> v]
  BY DEF Init
<1>2. schema \in [version : 0..Migrations, dirty : BOOLEAN, tables : 0..Migrations]
  BY <1>1
<1>3. CleanIsTrue
  BY <1>1 DEF CleanIsTrue
<1>4. /\ \A g \in Goroutines : at[g] = "off"
      /\ "loop" \in Goroutines /\ "web" \in Goroutines
      /\ at = [g \in Goroutines |-> "off"]
  BY DEF Init, NotStarted, Goroutines, Group
<1>5. TypeOK
  <2>1. at \in [Goroutines -> {"off"}] /\ ~ \E g \in Goroutines : at[g] # "off"
    BY <1>4
  <2>2. restarts \in 0..MaxRestarts
    BY LifecycleConstants DEF Init
  <2>3. at \in [Goroutines ->
          {"off", "starting", "running", "waiting", "loading", "deciding", "recording",
           "select", "pruning", "serving", "closed", "draining", "done"}]
    BY <2>1
  <2> QED
    BY <1>2, <2>1, <2>2, <2>3 DEF Init, TypeOK
<1>6. SchemaIsCurrent /\ OnlyWhileOpen
  BY <1>4 DEF Init, SchemaIsCurrent, OnlyWhileOpen
<1> QED
  BY <1>3, <1>5, <1>6 DEF IInv

(* The steps before the store is open change nothing but the schema, and   *)
(* only to mark it, complete it and unmark it, in this order.              *)
LEMMA MigrationStep ==
    ASSUME IInv, MarkDirty \/ RunScript \/ MarkClean
    PROVE  IInv'
<1> DEFINE Schemas == [version : 0..Migrations, dirty : BOOLEAN, tables : 0..Migrations]
<1>1. /\ main \in Starting /\ main' \in Starting \cup {"exited"}
      /\ UNCHANGED <<at, ctx, store, link, missed, restarts>> /\ failed' \in BOOLEAN
      /\ store = "closed" /\ schema \in Schemas
      /\ \A g \in Goroutines : at[g] = "off"
  BY DEF MarkDirty, RunScript, MarkClean, Starting, IInv, TypeOK, OnlyWhileOpen
<1>2. schema' \in Schemas /\ CleanIsTrue'
  <2>1. CASE MarkDirty
    <3>1. schema.version + 1 \in 0..Migrations
      BY <1>1, <2>1, LifecycleConstants DEF MarkDirty
    <3>2. schema' = [version |-> schema.version + 1, dirty |-> TRUE,
                     tables |-> schema.tables]
      BY <1>1, <2>1 DEF MarkDirty
    <3> QED
      BY <1>1, <2>1, <3>1, <3>2 DEF MarkDirty, CleanIsTrue
  <2>2. CASE RunScript /\ UNCHANGED schema
    BY <1>1, <2>2 DEF RunScript, CleanIsTrue, IInv
  <2>3. CASE RunScript /\ schema' = [schema EXCEPT !.tables = schema.version]
    <3>1. schema' = [version |-> schema.version, dirty |-> schema.dirty,
                     tables |-> schema.version]
      BY <1>1, <2>3
    <3> QED
      BY <1>1, <3>1 DEF CleanIsTrue
  <2>4. CASE MarkClean
    <3>1. schema' = [version |-> schema.version, dirty |-> FALSE,
                     tables |-> schema.tables]
      BY <1>1, <2>4 DEF MarkClean
    <3>2. schema.version = schema.tables
      BY <2>4 DEF MarkClean, IInv, CleanIsTrue
    <3> QED
      BY <1>1, <3>1, <3>2 DEF CleanIsTrue
  <2> QED
    BY <2>1, <2>2, <2>3, <2>4 DEF RunScript
<1>3. SchemaIsCurrent' /\ OnlyWhileOpen'
  BY <1>1 DEF SchemaIsCurrent, OnlyWhileOpen, Starting, Goroutines, Group
<1>4. TypeOK'
  BY <1>1, <1>2 DEF IInv, TypeOK, Starting
<1> QED
  BY <1>2, <1>3, <1>4 DEF IInv

(* The store is handed out at the last version, unmarked: every migration  *)
(* has been run.                                                           *)
LEMMA OpenStep ==
    ASSUME IInv, Open
    PROVE  IInv'
<1>1. CleanIsTrue'
  BY DEF IInv, CleanIsTrue, Open
<1>2. CASE /\ schema.version = Migrations /\ ~schema.dirty
           /\ main' = "waiting" /\ store' = "open" /\ at' = Started
           /\ failed' = failed
  <2>1. schema = Current
    <3>1. schema.dirty = FALSE /\ schema.tables = Migrations
      BY <1>2 DEF IInv, TypeOK, CleanIsTrue
    <3>2. schema = [version |-> schema.version, dirty |-> schema.dirty,
                    tables |-> schema.tables]
      BY DEF IInv, TypeOK
    <3> QED
      BY <1>2, <3>1, <3>2 DEF Current
  <2>2. SchemaIsCurrent' /\ OnlyWhileOpen'
    BY <1>2, <2>1 DEF Open, SchemaIsCurrent, OnlyWhileOpen, Current
  <2>3. TypeOK'
    BY <1>2 DEF Open, IInv, TypeOK, Started
  <2> QED
    BY <1>1, <2>2, <2>3 DEF IInv
<1>3. CASE main' = "exited" /\ failed' = TRUE /\ UNCHANGED <<store, at>>
  BY <1>1, <1>3 DEF Open, IInv, TypeOK, SchemaIsCurrent, OnlyWhileOpen, Current
<1> QED
  BY <1>2, <1>3 DEF Open

(* What the goroutines do while main waits, or closes: they move, and the  *)
(* loop and the server, once done, stay so.                                *)
LEMMA GoroutineStep ==
    ASSUME IInv, Signal \/ CheckReturns \/ Connect \/ LinkTurns \/ Disconnect
                 \/ Loop \/ LoopTicks \/ LoopStops \/ Janitor \/ Web
    PROVE  IInv'
<1> USE DEF Move
<1>1. UNCHANGED <<main, schema, store, restarts>>
  BY DEF Signal, CheckReturns, Connect, LinkTurns, Disconnect, Loop, LoopLoads,
     LoopPublishes, LoopRecords, LoopTicks, LoopStops, Janitor, Web, Listen,
     Shutdown, Drained, ServeReturns
<1>2. TypeOK'
  <2>1. CASE Signal \/ CheckReturns \/ Connect \/ LinkTurns \/ Disconnect
    BY <2>1 DEF IInv, TypeOK, Signal, CheckReturns, Connect, LinkTurns, Disconnect
  <2>2. CASE Loop \/ LoopTicks \/ LoopStops
    BY <2>2 DEF IInv, TypeOK, Loop, LoopLoads, LoopPublishes, LoopRecords,
       LoopTicks, LoopStops
  <2>3. CASE Janitor
    BY <2>3 DEF IInv, TypeOK, Janitor
  <2>4. CASE Web
    BY <2>4 DEF IInv, TypeOK, Web, Listen, Shutdown, Drained, ServeReturns
  <2> QED
    BY <2>1, <2>2, <2>3, <2>4
<1>3. ASSUME main # "waiting"
      PROVE  at'["loop"] \in {"off", "done"} /\ at'["web"] \in {"off", "done"}
  <2>1. /\ at["loop"] \in {"off", "done"} /\ at["web"] \in {"off", "done"}
        /\ "loop" \in Goroutines /\ "web" \in Goroutines
        /\ at \in [Goroutines ->
          {"off", "starting", "running", "waiting", "loading", "deciding", "recording",
           "select", "pruning", "serving", "closed", "draining", "done"}]
    BY <1>3 DEF IInv, OnlyWhileOpen, Goroutines, Group, TypeOK
  <2>2. CASE Signal \/ CheckReturns \/ Connect \/ LinkTurns \/ Disconnect \/ Janitor
    BY <2>1, <2>2 DEF Signal, CheckReturns, Connect, LinkTurns, Disconnect, Janitor
  <2>3. CASE Loop \/ LoopTicks \/ LoopStops
    BY <2>1, <2>3 DEF Loop, LoopLoads, LoopPublishes, LoopRecords, LoopTicks,
       LoopStops
  <2>4. CASE Web
    BY <2>1, <2>4 DEF Web, Listen, Shutdown, Drained, ServeReturns
  <2> QED
    BY <2>2, <2>3, <2>4
<1>4. CleanIsTrue' /\ SchemaIsCurrent' /\ OnlyWhileOpen'
  BY <1>1, <1>3 DEF IInv, CleanIsTrue, SchemaIsCurrent, OnlyWhileOpen, Current
<1> QED
  BY <1>2, <1>4 DEF IInv

(* The end of a run: the store is closed once the group has returned, the  *)
(* loop and the server with it.                                            *)
LEMMA EndStep ==
    ASSUME IInv, Close \/ Exit \/ Kill \/ Restart
    PROVE  IInv'
<1>1. /\ schema' = schema /\ main' # "waiting" /\ main' # "marking"
      /\ store' = "closed"
  BY DEF Close, Exit, Kill, Restart, IInv, TypeOK, OnlyWhileOpen
<1>2. CASE Close
  <2>1. at["loop"] = "done" /\ at["web"] = "done"
    BY <1>2 DEF Close, GroupReturned, Group
  <2> QED
    BY <1>1, <1>2, <2>1
       DEF Close, IInv, TypeOK, CleanIsTrue, SchemaIsCurrent, OnlyWhileOpen
<1>3. CASE Exit
  BY <1>1, <1>3
     DEF Exit, IInv, TypeOK, CleanIsTrue, SchemaIsCurrent, OnlyWhileOpen
<1>4. CASE Kill \/ Restart
  <2>1. /\ at' = [g \in Goroutines |-> "off"]
        /\ "loop" \in Goroutines /\ "web" \in Goroutines
    BY <1>4 DEF Kill, Restart, NotStarted, Goroutines, Group
  <2>2. restarts' \in 0..MaxRestarts
    BY <1>4, LifecycleConstants DEF Kill, Restart, IInv, TypeOK
  <2> QED
    BY <1>1, <1>4, <2>1, <2>2
       DEF Kill, Restart, IInv, TypeOK, CleanIsTrue, SchemaIsCurrent, OnlyWhileOpen
<1> QED
  BY <1>2, <1>3, <1>4

(* From every reachable state, killed wherever it was, the database tells  *)
(* what it lacks, and nothing uses a store that is not open.               *)
THEOREM LifecycleInvariant == Spec => []IInv
<1>1. IInv /\ [Next]_vars => IInv'
  <2> SUFFICES ASSUME IInv, [Next]_vars PROVE IInv'
    OBVIOUS
  <2>1. CASE UNCHANGED vars
    BY <2>1 DEF vars, IInv, TypeOK, SchemaIsCurrent, CleanIsTrue, OnlyWhileOpen,
       Current
  <2> QED
    BY <2>1, MigrationStep, OpenStep, GoroutineStep, EndStep DEF Next, Run
<1> QED
  BY IInvInit, <1>1, PTL DEF Spec

(* The store is handed out with every migration of the release run to its  *)
(* end, whichever version the database had, and wherever a migration was   *)
(* cut off before.                                                         *)
THEOREM StoreIsCurrent == Spec => []SchemaInv
<1>1. IInv => SchemaInv
  BY DEF IInv, SchemaInv
<1> QED
  BY <1>1, LifecycleInvariant, PTL

(* The loop never meets a store that is closed, nor does a request that a  *)
(* server still listening lets in, whatever stops the process.             *)
THEOREM LoopFindsStoreOpen == Spec => []StoreOutlivesLoop
<1>1. IInv => StoreOutlivesLoop
  BY DEF IInv, OnlyWhileOpen, StoreOutlivesLoop
<1> QED
  BY <1>1, LifecycleInvariant, PTL
=============================================================================
