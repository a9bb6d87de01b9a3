------------------------------ MODULE Lifecycle ------------------------------
(***************************************************************************)
(* The life of the process (internal/app/app.go): app.Run opens the store, *)
(* starts the components under one errgroup, and on a signal or a failing  *)
(* component stops them, waits for them, closes the store and returns.     *)
(* Opening the store applies the migrations the database has not had; the  *)
(* process may be killed at any point, and is started again on the same    *)
(* database.                                                               *)
(*                                                                         *)
(* Four goroutines belong to the group, and g.Wait waits for these only;   *)
(* three more are started beside it and die with the process: the one that *)
(* connects to the broker, the janitor of the control loop, and the one    *)
(* that shuts the web server down.  What the components do while they run  *)
(* is the other modules'; here a step is what the order of starting and    *)
(* stopping depends on.  Requests in flight are cut when the process ends, *)
(* which is the Restart of Settings and DecisionLoop.                      *)
(*                                                                         *)
(* The web framework is external: Listen binds the port and then registers *)
(* the listener; Shutdown closes the registered listeners, which makes     *)
(* Listen return; with none registered it returns at once and leaves no    *)
(* trace.  So is the migration library: it writes the version it goes to,  *)
(* marked dirty, runs the script in a transaction, and removes the mark;   *)
(* it refuses a database it finds marked.                                  *)
(***************************************************************************)
EXTENDS Naturals

CONSTANTS
    UpdateEnabled,   \* update.enabled: the registry is checked at the start
    Retention,       \* control.retentionWindow > 0: there is a janitor
    Migrations,      \* number of migrations this release carries
    MaxRestarts      \* bound on restarts

ASSUME LifecycleConstants ==
    /\ UpdateEnabled \in BOOLEAN /\ Retention \in BOOLEAN
    /\ Migrations \in Nat /\ MaxRestarts \in Nat

Group == {"check", "mqtt", "loop", "web"}
Detached == {"connect", "janitor", "stopper"}
Goroutines == Group \cup Detached

VARIABLES
    main,     \* app.Run: "opening", "migrating" and "marking" in store.Open,
              \* "waiting" in g.Wait, "closing", "exited"
    schema,   \* the database: the version it is marked with, whether it is marked
              \* dirty, and the migrations its tables have had
    at,       \* where each goroutine is: "off" before its start, "done" after
    ctx,      \* the group's context
    store,    \* the database handle
    link,     \* the MQTT client's connection
    failed,   \* Run returns an error, and the process exits with status 1
    missed,   \* history: Shutdown found no listener to close
    restarts

vars == <<main, schema, at, ctx, store, link, failed, missed, restarts>>

NotStarted == [g \in Goroutines |-> "off"]
Current == [version |-> Migrations, dirty |-> FALSE, tables |-> Migrations]

(* The database is new, or an older release has left it.                   *)
Init ==
    /\ main = "opening" /\ at = NotStarted
    /\ \E v \in 0..Migrations : schema = [version |-> v, dirty |-> FALSE, tables |-> v]
    /\ ctx = "live" /\ store = "closed" /\ link = "down"
    /\ failed = FALSE /\ missed = FALSE /\ restarts = 0

(* Goroutines run as long as the process does.                             *)
Move(g, from, to) ==
    /\ main \in {"waiting", "closing"}
    /\ at[g] = from /\ at' = [at EXCEPT ![g] = to]

-----------------------------------------------------------------------------
(* What is running once the store is open; a component that is not         *)
(* configured is as good as done.                                          *)
Started ==
    [at EXCEPT !.check = IF UpdateEnabled THEN "running" ELSE "done",
               !.mqtt = "waiting", !.loop = "loading", !.web = "starting",
               !.connect = "starting", !.stopper = "waiting"]

(* Up, one migration: the mark, the script, the removal of the mark.       *)
MarkDirty ==
    /\ main = "opening" /\ ~schema.dirty /\ schema.version < Migrations
    /\ main' = "migrating"
    /\ schema' = [schema EXCEPT !.version = @ + 1, !.dirty = TRUE]
    /\ UNCHANGED <<at, ctx, store, link, failed, missed, restarts>>

RunScript ==
    /\ main = "migrating"
    /\ \/ /\ main' = "marking" /\ failed' = failed
          /\ schema' = [schema EXCEPT !.tables = schema.version]
       \/ main' = "exited" /\ failed' = TRUE /\ UNCHANGED schema
    /\ UNCHANGED <<at, ctx, store, link, missed, restarts>>

MarkClean ==
    /\ main = "marking" /\ main' = "opening"
    /\ schema' = [schema EXCEPT !.dirty = FALSE]
    /\ UNCHANGED <<at, ctx, store, link, failed, missed, restarts>>

(* ...Wrong... definitions are faulty variants of the one that follows:    *)
(* the version is looked at, the mark is not.                              *)
OpenWrongDirty ==
    /\ main = "opening" /\ schema.version = Migrations
    /\ main' = "waiting" /\ store' = "open" /\ at' = Started
    /\ UNCHANGED <<schema, ctx, link, failed, missed, restarts>>

(* store.Open: a failure, as a database that is marked dirty is, ends Run  *)
(* before anything is started.                                             *)
Open ==
    /\ main = "opening"
    /\ \/ /\ schema.version = Migrations /\ ~schema.dirty
          /\ main' = "waiting" /\ store' = "open" /\ at' = Started
          /\ failed' = failed
       \/ main' = "exited" /\ failed' = TRUE /\ UNCHANGED <<store, at>>
    /\ UNCHANGED <<schema, ctx, link, missed, restarts>>

(* signal.NotifyContext catches SIGINT and SIGTERM until Run returns.      *)
Signal ==
    /\ main \in {"opening", "waiting"} /\ ctx = "live" /\ ctx' = "cancelled"
    /\ UNCHANGED <<main, at, store, link, failed, missed, schema, restarts>>

(* upd.Check returns: an answer, an error, or the cancelled context.       *)
CheckReturns ==
    /\ Move("check", "running", "done")
    /\ UNCHANGED <<main, ctx, store, link, failed, missed, schema, restarts>>

(* client.Connect, retried by the client for as long as it takes.          *)
Connect ==
    /\ Move("connect", "starting", "done") /\ link' = "connecting"
    /\ UNCHANGED <<main, ctx, store, failed, missed, schema, restarts>>

LinkTurns ==
    /\ main \in {"waiting", "closing"}
    /\ \/ link = "connecting" /\ link' = "up"
       \/ link = "up" /\ link' = "connecting"
    /\ UNCHANGED <<main, at, ctx, store, failed, missed, schema, restarts>>

(* Connect is waited for before the goroutine looks at the context.        *)
DisconnectWrongWaits ==
    /\ ctx = "cancelled" /\ link = "up"
    /\ Move("mqtt", "waiting", "done") /\ link' = "down"
    /\ UNCHANGED <<main, ctx, store, failed, missed, schema, restarts>>

Disconnect ==
    /\ ctx = "cancelled"
    /\ Move("mqtt", "waiting", "done") /\ link' = "down"
    /\ UNCHANGED <<main, ctx, store, failed, missed, schema, restarts>>

-----------------------------------------------------------------------------
(* ctrl.Run: recovery and the settings are read from the store; the        *)
(* janitor starts; the first tick follows at once, cancelled or not.       *)
LoopLoads ==
    /\ main \in {"waiting", "closing"} /\ at.loop = "loading"
    /\ at' = [at EXCEPT !.loop = "deciding",
                        !.janitor = IF Retention THEN "waiting" ELSE "off"]
    /\ UNCHANGED <<main, ctx, store, link, failed, missed, schema, restarts>>

(* A tick: decide and publish, then write session, events and sample.      *)
LoopPublishes ==
    /\ Move("loop", "deciding", "recording")
    /\ UNCHANGED <<main, ctx, store, link, failed, missed, schema, restarts>>

LoopRecords ==
    /\ Move("loop", "recording", "select")
    /\ UNCHANGED <<main, ctx, store, link, failed, missed, schema, restarts>>

(* select: a tick that is due may win over the cancelled context.          *)
LoopTicks ==
    /\ Move("loop", "select", "deciding")
    /\ UNCHANGED <<main, ctx, store, link, failed, missed, schema, restarts>>

LoopStops ==
    /\ ctx = "cancelled" /\ Move("loop", "select", "done")
    /\ UNCHANGED <<main, ctx, store, link, failed, missed, schema, restarts>>

Janitor ==
    /\ \/ Move("janitor", "waiting", "pruning")
       \/ Move("janitor", "pruning", "waiting")
       \/ ctx = "cancelled" /\ Move("janitor", "waiting", "done")
    /\ UNCHANGED <<main, ctx, store, link, failed, missed, schema, restarts>>

-----------------------------------------------------------------------------
(* The error is logged, and the group is not told.                         *)
ListenWrongSwallows ==
    /\ \/ Move("web", "starting", "serving") /\ UNCHANGED <<ctx, failed>>
       \/ Move("web", "starting", "done") /\ failed' = TRUE /\ ctx' = ctx
    /\ UNCHANGED <<main, store, link, missed, schema, restarts>>

(* srv.Start: the listener is registered, or the port cannot be bound and  *)
(* the group cancels the context with the error.                           *)
Listen ==
    /\ \/ Move("web", "starting", "serving") /\ UNCHANGED <<ctx, failed>>
       \/ /\ Move("web", "starting", "done")
          /\ ctx' = "cancelled" /\ failed' = TRUE
    /\ UNCHANGED <<main, store, link, missed, schema, restarts>>

(* srv.Shutdown closes the listener and waits for open requests, five      *)
(* seconds at most; without a listener it does nothing.                    *)
Shutdown ==
    /\ ctx = "cancelled" /\ at.stopper = "waiting"
    /\ \/ /\ at.web = "serving" /\ missed' = missed
          /\ at' = [at EXCEPT !.stopper = "draining", !.web = "closed"]
       \/ /\ at.web # "serving" /\ missed' = (at.web = "starting")
          /\ at' = [at EXCEPT !.stopper = "done"]
    /\ main \in {"waiting", "closing"}
    /\ UNCHANGED <<main, ctx, store, link, failed, schema, restarts>>

Drained ==
    /\ Move("stopper", "draining", "done")
    /\ UNCHANGED <<main, ctx, store, link, failed, missed, schema, restarts>>

(* Listen returns as soon as its listener is closed.                       *)
ServeReturns ==
    /\ Move("web", "closed", "done")
    /\ UNCHANGED <<main, ctx, store, link, failed, missed, schema, restarts>>

-----------------------------------------------------------------------------
(* The loop runs beside the group, like the janitor.                       *)
GroupReturnedWrongNoLoop == \A g \in Group \ {"loop"} : at[g] = "done"

GroupReturned == \A g \in Group : at[g] = "done"

(* g.Wait, then the deferred st.Close.                                     *)
Close ==
    /\ main = "waiting" /\ GroupReturned
    /\ main' = "closing" /\ store' = "closed"
    /\ UNCHANGED <<at, ctx, link, failed, missed, schema, restarts>>

Exit ==
    /\ main = "closing" /\ main' = "exited"
    /\ UNCHANGED <<at, ctx, store, link, failed, missed, schema, restarts>>

(* A power cut, or the kernel, or Docker that waited ten seconds in vain;  *)
(* restart: unless-stopped.                                                *)
Kill ==
    /\ main # "exited" /\ main' = "exited"
    /\ at' = NotStarted /\ ctx' = "live" /\ store' = "closed" /\ link' = "down"
    /\ failed' = FALSE /\ missed' = FALSE
    /\ UNCHANGED <<schema, restarts>>

Restart ==
    /\ main = "exited" /\ restarts < MaxRestarts /\ restarts' = restarts + 1
    /\ main' = "opening" /\ at' = NotStarted /\ ctx' = "live" /\ link' = "down"
    /\ failed' = FALSE /\ missed' = FALSE
    /\ UNCHANGED <<schema, store>>

Loop == LoopLoads \/ LoopPublishes \/ LoopRecords
Web == Listen \/ Shutdown \/ Drained \/ ServeReturns
Run == MarkDirty \/ RunScript \/ MarkClean \/ Open \/ Close \/ Exit

Next == \/ Run \/ Signal \/ CheckReturns \/ Connect \/ LinkTurns \/ Disconnect
        \/ Loop \/ LoopTicks \/ LoopStops \/ Janitor \/ Web \/ Kill \/ Restart

(* Every goroutine goes on: a publish gives up after three seconds, a      *)
(* request of the check after ten, and store calls are local.  select      *)
(* chooses at random among what is ready, so that ticks do not win over    *)
(* the context for ever.  Signals come or not.                             *)
Fairness ==
    /\ WF_vars(Run) /\ WF_vars(CheckReturns) /\ WF_vars(Disconnect)
    /\ WF_vars(Loop) /\ SF_vars(LoopStops) /\ WF_vars(Web)

Spec == Init /\ [][Next]_vars /\ Fairness

-----------------------------------------------------------------------------
(* Types; and nothing is started before the store is open, nor at all when *)
(* it cannot be opened.                                                    *)
TypeOK ==
    /\ main \in {"opening", "migrating", "marking", "waiting", "closing", "exited"}
    /\ schema \in [version : 0..Migrations, dirty : BOOLEAN, tables : 0..Migrations]
    /\ restarts \in 0..MaxRestarts
    /\ at \in [Goroutines ->
          {"off", "starting", "running", "waiting", "loading", "deciding", "recording",
           "select", "pruning", "serving", "closed", "draining", "done"}]
    /\ ctx \in {"live", "cancelled"} /\ store \in {"open", "closed"}
    /\ link \in {"down", "connecting", "up"}
    /\ failed \in BOOLEAN /\ missed \in BOOLEAN
    /\ main = "waiting" => store = "open"
    /\ (\E g \in Goroutines : at[g] # "off")
          => main \in {"waiting", "closing", "exited"}

(* No statement meets a database that lacks a table: the store is handed   *)
(* out with every migration run to its end, whichever version the database *)
(* had and wherever a migration was cut off before.                        *)
SchemaIsCurrent == store = "open" => schema = Current

(* Types, and a store that is handed out is complete, in every state.      *)
SchemaInv == TypeOK /\ SchemaIsCurrent

(* The store outlives the control loop, whatever stops the process and     *)
(* however a last tick races the shutdown: no store call of the loop, and  *)
(* none of a request accepted by a server still listening, finds it        *)
(* closed.                                                                 *)
StoreOutlivesLoop ==
    \/ at.loop \in {"loading", "deciding", "recording", "select"}
    \/ at.web = "serving"
    => store = "open"

(* One component that fails takes the others down, in whatever state they  *)
(* are, and the process reports the failure ("blocks until the process is  *)
(* signaled or a component fails").                                        *)
FailureStopsAll == failed ~> (main = "exited")

(* A process that is asked to stop does stop, with the broker unreachable, *)
(* a tick under way or the check hanging, unless the request came before   *)
(* the web server had a listener to close.                                 *)
StopsOnceListening == (ctx = "cancelled") ~> (main = "exited" \/ missed)

=============================================================================
