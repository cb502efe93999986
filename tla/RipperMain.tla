----------------------------- MODULE RipperMain -----------------------------
(***************************************************************************)
(* The event loop of ripper.js: block handlers, the deBounce timer and the *)
(* reconnecting web socket that start them, the signal handler that stops  *)
(* the program, and the two flags they all synchronize on, working and     *)
(* pause, which are rows of a database: every access is a query, and other *)
(* handlers run while one waits for its answer.  Every accessor swallows   *)
(* its errors: a setter may leave its row as it was, a getter may answer   *)
(* undefined.  What a cycle does between its flag accesses is module       *)
(* Synchronize.                                                            *)
(***************************************************************************)
EXTENDS Integers, FiniteSets

CONSTANTS
  Handlers,     \* handler invocations that may be under way together
  MaxTimers,    \* bound on pending deBounce timers
  MaxSockets,   \* bound on web sockets opened one after the other
  Faults        \* sets of places of the code, one of which may fail in a behaviour

\* Where something may fail: at a place that accesses a flag, its query (at "start",
\* each of the two that clear the flags); at "extracting", the conversion of the batch,
\* whose wait for the workers may never end.
Places == {"look", "enter", "claim", "askPause", "compare", "index", "indexing",
           "extracting", "release", "lastPause", "close", "marking", "reading",
           "unpausing", "start"}

ASSUME ConstantsAssumption ==
  /\ IsFiniteSet(Handlers) /\ Handlers # {}
  /\ MaxTimers \in Nat \ {0} /\ MaxSockets \in Nat \ {0}
  /\ Faults \subseteq SUBSET Places

VARIABLES
  prompt,       \* chosen once: no handler starts, and no index build ends, while
                \* another handler is between its first look at working and its claim
  faulty,       \* chosen once: the places where something may fail, any number of times
  up,           \* the process runs
  working, pause,
  indexed,      \* init_sync_1 .. init_sync_5 are all true
  socket,       \* which web socket is open
  deBounce, timers,   \* of that socket's closure
  pc,           \* of each handler
  from,         \* the socket whose block event started the handler
  response,     \* what its synchronize returns
  cleanup       \* of the signal handler

world    == <<prompt, faulty>>
sockets  == <<socket, deBounce, timers>>
handlers == <<pc, from, response>>
vars == <<world, up, working, pause, indexed, sockets, handlers, cleanup>>

Init ==
  /\ prompt \in BOOLEAN
  /\ faulty \in Faults
  /\ up = TRUE /\ working = FALSE /\ pause = FALSE /\ indexed = FALSE
  /\ socket = 1 /\ deBounce = FALSE /\ timers = 0
  /\ pc = [h \in Handlers |-> "free"]
  /\ from = [h \in Handlers |-> 1]
  /\ response = [h \in Handlers |-> "ok"]
  /\ cleanup = "off"

Goto(h, l) == pc' = [pc EXCEPT ![h] = l]

Step(h, at, to) == up /\ pc[h] = at /\ Goto(h, to)

\* The stretch in which a handler decides that the floor is its own.
Deciding(h) == \/ pc[h] \in {"look", "enter", "claim"}
               \/ pc[h] = "release" /\ response[h] = "indexed"

Undisturbed(h) == prompt => \A g \in Handlers \ {h} : ~Deciding(g)

-----------------------------------------------------------------------------
(* setUpWsProviderAndGo *)

\* A block event of the open socket.
Block(h) ==
  /\ Step(h, "free", "look") /\ Undisturbed(h)
  /\ ~deBounce /\ deBounce' = TRUE
  /\ from' = [from EXCEPT ![h] = socket]
  /\ UNCHANGED <<world, up, working, pause, indexed, socket, timers, response, cleanup>>

\* One that comes while deBounce is set: it does nothing, but it also starts a
\* timer, which will lift deBounce whether or not the handler has finished.
Bounced ==
  /\ up /\ deBounce /\ timers < MaxTimers
  /\ timers' = timers + 1
  /\ UNCHANGED <<world, up, working, pause, indexed, socket, deBounce, handlers, cleanup>>

TimerFires ==
  /\ up /\ timers > 0
  /\ timers' = timers - 1 /\ deBounce' = FALSE
  /\ UNCHANGED <<world, up, working, pause, indexed, socket, handlers, cleanup>>

\* The socket closes and, WS_RECONNECT_TIMEOUT later, another one is opened, with
\* a deBounce of its own.  The handlers of the old one go on.
Reconnect ==
  /\ up /\ socket < MaxSockets
  /\ socket' = socket + 1 /\ deBounce' = FALSE /\ timers' = 0
  /\ UNCHANGED <<world, up, working, pause, indexed, handlers, cleanup>>

\* The handler is done and starts its timer.
Return(h) ==
  /\ Step(h, "return", "free")
  /\ timers' = IF from[h] = socket /\ timers < MaxTimers THEN timers + 1 ELSE timers
  /\ from' = [from EXCEPT ![h] = 1] /\ response' = [response EXCEPT ![h] = "ok"]
  /\ UNCHANGED <<world, up, working, pause, indexed, socket, deBounce, cleanup>>

-----------------------------------------------------------------------------
(* The accessors of db/application_data.js, which catch their own errors. *)

\* What a getter answers at a place: undefined, after an error, is taken by the code
\* there for one of the Booleans.
Answers(place, flag, undefined) == {flag} \cup IF place \in faulty THEN {undefined} ELSE {}

SetWorking(place, v) == working' = v \/ (place \in faulty /\ UNCHANGED working)

SetPause(place, v) == pause' = v \/ (place \in faulty /\ UNCHANGED pause)

-----------------------------------------------------------------------------
(* doSynchronize and synchronize, one action per flag access.  A definition *)
(* whose comment begins with "Faulty" belongs to no behaviour: it is the    *)
(* one below it with a plausible bug, which a property must notice.         *)

Respond(h, r) == response' = [response EXCEPT ![h] = r]

\* Only if working is FALSE.
Look(h) ==
  /\ \E w \in Answers("look", working, TRUE) : Step(h, "look", IF w THEN "return" ELSE "enter")
  /\ UNCHANGED <<world, up, working, pause, indexed, sockets, from, response, cleanup>>

\* Faulty: the guard at the head of synchronize is missing, and so is the claim.
EnterUnclaimed(h) ==
  /\ Step(h, "enter", "askPause")
  /\ UNCHANGED <<world, up, working, pause, indexed, sockets, from, response, cleanup>>

\* Unless working is TRUE.
Enter(h) ==
  /\ \E w \in Answers("enter", working, FALSE) : Step(h, "enter", IF w THEN "return" ELSE "claim")
  /\ UNCHANGED <<world, up, working, pause, indexed, sockets, from, response, cleanup>>

Claim(h) ==
  /\ Step(h, "claim", "askPause") /\ SetWorking("claim", TRUE)
  /\ UNCHANGED <<world, up, pause, indexed, sockets, from, response, cleanup>>

\* Faulty: the pause is only looked at after an import.
AskPauseNever(h) ==
  /\ Step(h, "askPause", "compare") /\ Respond(h, "ok")
  /\ UNCHANGED <<world, up, working, pause, indexed, sockets, from, cleanup>>

AskPause(h) ==
  /\ \E p \in Answers("askPause", pause, FALSE) :
       /\ Step(h, "askPause", IF p THEN "release" ELSE "compare")
       /\ Respond(h, IF p THEN "exit" ELSE "ok")
  /\ UNCHANGED <<world, up, working, pause, indexed, sockets, from, cleanup>>

\* The database is in sync, perhaps for the first time, or it is behind.
Compare(h) ==
  /\ \/ \E i \in Answers("compare", indexed, FALSE) :
          Step(h, "compare", IF i THEN "release" ELSE "index")
     \/ Step(h, "compare", "extracting")
  /\ UNCHANGED <<world, up, working, pause, indexed, sockets, from, response, cleanup>>

\* Faulty: initialSyncInit clears the flag before the build instead of after it.
IndexBeginCleared(h) ==
  /\ Step(h, "index", "indexing")
  /\ working' = FALSE
  /\ UNCHANGED <<world, up, pause, indexed, sockets, from, response, cleanup>>

\* initialSyncInit sets working once more, and then clears it itself.
IndexBegin(h) ==
  /\ Step(h, "index", "indexing") /\ SetWorking("index", TRUE)
  /\ UNCHANGED <<world, up, pause, indexed, sockets, from, response, cleanup>>

IndexEnd(h) ==
  /\ Step(h, "indexing", "release") /\ Undisturbed(h) /\ Respond(h, "indexed")
  /\ SetWorking("indexing", FALSE)
  /\ indexed' = TRUE \/ ("indexing" \in faulty /\ UNCHANGED indexed)
  /\ UNCHANGED <<world, up, pause, sockets, from, cleanup>>

\* extractBatch and convertBatchAccounts, whose wait for the workers may never end.
Extract(h) ==
  /\ \/ Step(h, "extracting", "importing")
     \/ Step(h, "extracting", "hung") /\ "extracting" \in faulty
  /\ UNCHANGED <<world, up, working, pause, indexed, sockets, from, response, cleanup>>

\* Faulty: what importTransactionsToPg returned is passed on as it is.
ImportPassedOn(h) ==
  /\ Step(h, "importing", "release")
  /\ \E r \in {"true", "false"} : Respond(h, r)
  /\ UNCHANGED <<world, up, working, pause, indexed, sockets, from, cleanup>>

Import(h) ==
  /\ Step(h, "importing", "release")
  /\ \E r \in {"done", "error"} : Respond(h, r)
  /\ UNCHANGED <<world, up, working, pause, indexed, sockets, from, cleanup>>

\* cleanupSync.  Only a completed cycle looks at the pause flag again.
Release(h) ==
  /\ Step(h, "release", CASE response[h] = "exit" -> "close"
                          [] response[h] = "done" -> "lastPause"
                          [] OTHER -> "return")
  /\ SetWorking("release", FALSE)
  /\ UNCHANGED <<world, up, pause, indexed, sockets, from, response, cleanup>>

LastPause(h) ==
  /\ \E p \in Answers("lastPause", pause, FALSE) :
       Step(h, "lastPause", IF p THEN "close" ELSE "return")
  /\ UNCHANGED <<world, up, working, pause, indexed, sockets, from, response, cleanup>>

\* The listener of 'close': lift the pause, then exit.
Close(h) ==
  /\ Step(h, "close", "exit") /\ SetPause("close", FALSE)
  /\ UNCHANGED <<world, up, working, indexed, sockets, from, response, cleanup>>

Exit(h) ==
  /\ up /\ pc[h] = "exit" /\ up' = FALSE
  /\ UNCHANGED <<world, working, pause, indexed, sockets, handlers, cleanup>>

-----------------------------------------------------------------------------
(* cleanup, the signal handler: it runs once. *)

Signal ==
  /\ up /\ cleanup = "off" /\ cleanup' = "marking"
  /\ UNCHANGED <<world, up, working, pause, indexed, sockets, handlers>>

MarkPaused ==
  /\ up /\ cleanup = "marking" /\ cleanup' = "reading" /\ SetPause("marking", TRUE)
  /\ UNCHANGED <<world, up, working, indexed, sockets, handlers>>

\* Faulty: the flag is lifted on either branch.
ReadWorkingUnpaused ==
  /\ up /\ cleanup = "reading"
  /\ cleanup' = IF working THEN "waiting" ELSE "unpausing"
  /\ pause' = FALSE
  /\ UNCHANGED <<world, up, working, indexed, sockets, handlers>>

\* With a cycle under way it waits for an event 'exit' that nothing emits: it is
\* the cycle that has to see the pause.
ReadWorking ==
  /\ up /\ cleanup = "reading"
  /\ \E w \in Answers("reading", working, FALSE) :
       cleanup' = IF w THEN "waiting" ELSE "unpausing"
  /\ UNCHANGED <<world, up, working, pause, indexed, sockets, handlers>>

MarkUnPaused ==
  /\ up /\ cleanup = "unpausing" /\ cleanup' = "exiting" /\ SetPause("unpausing", FALSE)
  /\ UNCHANGED <<world, up, working, indexed, sockets, handlers>>

ExitLocal ==
  /\ up /\ cleanup = "exiting" /\ up' = FALSE
  /\ UNCHANGED <<world, working, pause, indexed, sockets, handlers, cleanup>>

\* The operator starts the program again: init clears both flags (without
\* DEV_STOP_FLAGS_ENABLE).
Start ==
  /\ ~up /\ up' = TRUE
  /\ SetWorking("start", FALSE) /\ SetPause("start", FALSE)
  /\ socket' = 1 /\ deBounce' = FALSE /\ timers' = 0
  /\ pc' = [h \in Handlers |-> "free"] /\ from' = [h \in Handlers |-> 1]
  /\ response' = [h \in Handlers |-> "ok"] /\ cleanup' = "off"
  /\ UNCHANGED <<world, indexed>>

-----------------------------------------------------------------------------
Handle(h) == \/ Look(h) \/ Enter(h) \/ Claim(h) \/ AskPause(h) \/ Compare(h)
             \/ IndexBegin(h) \/ IndexEnd(h) \/ Extract(h) \/ Import(h)
             \/ Release(h) \/ LastPause(h) \/ Close(h) \/ Exit(h) \/ Return(h)

Cleanup == MarkPaused \/ ReadWorking \/ MarkUnPaused \/ ExitLocal

Next == \/ \E h \in Handlers : Block(h) \/ Handle(h)
        \/ Bounced \/ TimerFires \/ Reconnect
        \/ Signal \/ Cleanup \/ Start

Spec == Init /\ [][Next]_vars

\* The event loop runs every handler and timer, and blocks keep coming.  A handler's
\* fairness is that each of its awaits ends: the conversion's, unless it is hung.  Strong
\* fairness undoes what Undisturbed does to an index build that has ended.
FairSpec ==
  /\ Spec
  /\ \A h \in Handlers : WF_vars(Handle(h)) /\ SF_vars(IndexEnd(h))
  /\ WF_vars(\E h \in Handlers : Block(h))
  /\ WF_vars(TimerFires) /\ WF_vars(Cleanup) /\ WF_vars(Start)

-----------------------------------------------------------------------------
(* Properties *)

Locations == {"free", "look", "enter", "claim", "askPause", "compare", "index",
              "indexing", "extracting", "hung", "importing", "release", "lastPause",
              "close", "exit", "return"}

TypeOK ==
  /\ {prompt, up, working, pause, indexed} \subseteq BOOLEAN /\ faulty \subseteq Places
  /\ socket \in 1..MaxSockets /\ deBounce \in BOOLEAN /\ timers \in 0..MaxTimers
  /\ pc \in [Handlers -> Locations] /\ from \in [Handlers -> 1..MaxSockets]
  /\ response \in [Handlers -> {"ok", "exit", "done", "error", "indexed"}]
  /\ cleanup \in {"off", "marking", "reading", "waiting", "unpausing", "exiting"}

InCycle(h) == pc[h] \in {"index", "indexing", "extracting", "hung", "importing"}

\* The flags "stop the script from executing on top of an already executing
\* instance": one handler at a time indexes, extracts or imports.  They share
\* the global txQueue of extractBatch, the directory tmp and the id counter.
FlagsExclude == \A g, h \in Handlers : InCycle(g) /\ InCycle(h) => g = h

\* They do under two conditions: no handler comes between another's look at the working
\* flag and its claim, which only the speed of the database sees to; and the claim of
\* sync.js:51 is stored, for setBool swallows its error and the cycle goes on without it.
\* Every other query may fail, and a conversion may hang.
OneCycle == prompt /\ "claim" \notin faulty => FlagsExclude

\* Then, too, a handler in its cycle has the working flag set, so that a signal finds it
\* and leaves the exit to it: the second claim of an index build (sync.js:28) may be lost,
\* and so may any release.
CycleIsAnnounced ==
  prompt /\ "claim" \notin faulty => \A h \in Handlers : InCycle(h) => working

\* Whoever waits for the cycle to end has not lost the request: if markPaused stored it,
\* the pause flag is set until somebody is about to exit because of it, whatever else
\* fails and however the handlers overlap.
PauseHeld ==
  up /\ cleanup = "waiting" /\ "marking" \notin faulty =>
    pause \/ \E h \in Handlers : pc[h] = "exit"

\* What a signal needs: that the request is stored and the handlers can see it, that the
\* flag they synchronize on is read and lifted, and that a cycle ends.
Needed == {"look", "askPause", "extracting", "release", "marking", "start"}

\* Then a signal ends the process, whatever the handlers were doing and whatever else
\* fails: a claim or the answer to one, the last look at the pause, or the exit's own.
ExitHappens == (faulty \cap Needed = {} /\ up /\ cleanup = "marking") ~> ~up

\* "Will Exit at end of this cycle": no exit interrupts a cycle.
ExitsBetweenCycles == [][up /\ ~up' => \A h \in Handlers : ~InCycle(h)]_vars
=============================================================================
