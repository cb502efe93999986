-------------------------- MODULE RipperMainProofs --------------------------
(***************************************************************************)
(* Theorems about RipperMain, for any number of handlers, timers, sockets  *)
(* and places where something may fail: the flags exclude when claims are  *)
(* stored and no handler starts inside another's look-to-claim stretch,    *)
(* and a stored pause is not lost while the signal handler waits for the   *)
(* cycle.                                                                  *)
(***************************************************************************)
EXTENDS RipperMain, TLAPS

\* From its claim to its release, a handler owns the working flag.
Holds(h) == \/ pc[h] \in {"askPause", "compare", "index", "indexing",
                          "extracting", "hung", "importing"}
            \/ pc[h] = "release" /\ response[h] # "indexed"

\* A handler that has seen the flag clear, or has cleared it by the way.
Free(h) == \/ pc[h] \in {"enter", "claim"}
           \/ pc[h] = "release" /\ response[h] = "indexed"

HandlersOK == /\ pc \in [Handlers -> Locations]
              /\ response \in [Handlers -> {"ok", "exit", "done", "error", "indexed"}]
              /\ \A h \in Handlers : pc[h] = "compare" => response[h] = "ok"

\* What the floor asks of the world: that nobody comes between a look and its claim,
\* and that the claim is stored.
Sound == prompt /\ "claim" \notin faulty

OneDecides == prompt => \A g, h \in Handlers : Deciding(g) /\ Deciding(h) => g = h
OneHolds   == Sound => \A g, h \in Handlers : Holds(g) /\ Holds(h) => g = h
NoneHolds  == Sound => \A g, h \in Handlers : Free(g) => ~Holds(h)
HoldsFlag  == Sound => \A h \in Handlers : Holds(h) => working

\* The inductive invariant behind OneCycle and CycleIsAnnounced.
FloorInv == HandlersOK /\ OneDecides /\ OneHolds /\ NoneHolds /\ HoldsFlag

\* The inductive invariant behind PauseHeld: once stored, the request survives.
PauseInv ==
  /\ pc \in [Handlers -> Locations]
  /\ up /\ cleanup \in {"reading", "waiting"} /\ "marking" \notin faulty =>
       pause \/ \E h \in Handlers : pc[h] = "exit"
-----------------------------------------------------------------------------
LEMMA FloorInit == Init => FloorInv
PROOF BY DEF Init, FloorInv, HandlersOK, OneDecides, OneHolds, NoneHolds, HoldsFlag,
             Deciding, Holds, Free, Locations

\* What a step of one handler leaves alone.
LEMMA StepMoves ==
  ASSUME HandlersOK, NEW h \in Handlers, NEW at, NEW to, Step(h, at, to)
  PROVE  /\ pc[h] = at /\ pc'[h] = to
         /\ \A g \in Handlers : g # h => pc'[g] = pc[g]
         /\ to \in Locations => pc' \in [Handlers -> Locations]
PROOF BY DEF HandlersOK, Step, Goto

LEMMA RespondSets ==
  ASSUME HandlersOK, NEW h \in Handlers, NEW r, Respond(h, r)
  PROVE  /\ response'[h] = r
         /\ \A g \in Handlers : g # h => response'[g] = response[g]
         /\ r \in {"ok", "exit", "done", "error", "indexed"} =>
              response' \in [Handlers -> {"ok", "exit", "done", "error", "indexed"}]
PROOF BY DEF HandlersOK, Respond

\* A handler's step changes nobody else's place.
LEMMA OthersKeep ==
  ASSUME NEW h \in Handlers,
         \A g \in Handlers : g # h => pc'[g] = pc[g] /\ response'[g] = response[g]
  PROVE  \A g \in Handlers : g # h => /\ Deciding(g)' <=> Deciding(g)
                                      /\ Holds(g)' <=> Holds(g)
                                      /\ Free(g)' <=> Free(g)
PROOF BY DEF Deciding, Holds, Free

\* What the step of a handler must respect for the floor to stay single: it only
\* starts to decide alone, only takes the floor having decided, and only clears
\* the flag when it is the holder or nobody is.
LEMMA FloorKept ==
  ASSUME FloorInv, HandlersOK', NEW h \in Handlers, UNCHANGED world,
         \A g \in Handlers : g # h => pc'[g] = pc[g] /\ response'[g] = response[g],
         Deciding(h)' => Deciding(h) \/ Undisturbed(h),
         Holds(h)' => (Holds(h) \/ Free(h)) /\ (Sound => working'),
         Free(h)' => Holds(h) \/ Free(h) \/ ~working,
         working' \/ Holds(h) \/ Free(h) \/ ~working
  PROVE  FloorInv'
<1> DEFINE D(g) == Deciding(g)
           H(g) == Holds(g)
           F(g) == Free(g)
<1>1. \A g \in Handlers : g # h => (D(g)' <=> D(g)) /\ (H(g)' <=> H(g)) /\ (F(g)' <=> F(g))
  BY OthersKeep
<1>2. /\ \A g \in Handlers : F(g) => D(g)
      /\ ~(F(h)' /\ H(h)')
  BY DEF Deciding, Holds, Free
<1>0. prompt' = prompt /\ (Sound' <=> Sound) /\ (Sound => prompt)
  BY DEF world, Sound
<1>3. OneDecides'
  BY <1>0, <1>1, Zenon DEF FloorInv, OneDecides, Undisturbed
<1>4. OneHolds'
  BY <1>0, <1>1, <1>2, Zenon DEF FloorInv, OneHolds, NoneHolds
<1>5. NoneHolds'
  BY <1>0, <1>1, <1>2, Zenon DEF FloorInv, OneHolds, OneDecides, NoneHolds, HoldsFlag
<1>6. HoldsFlag'
  BY <1>0, <1>1, <1>2, Zenon DEF FloorInv, OneHolds, NoneHolds, HoldsFlag
<1> QED
  BY <1>3, <1>4, <1>5, <1>6 DEF FloorInv

\* The places that neither decide nor hold.
Away == {"free", "return", "lastPause", "close", "exit"}

\* A handler that goes to one of them without a write disturbs nobody.
LEMMA AwayStep ==
  ASSUME FloorInv, NEW h \in Handlers, NEW at, NEW to \in Away, Step(h, at, to),
         UNCHANGED <<world, working, response>>
  PROVE  FloorInv'
<1> HandlersOK
  BY DEF FloorInv
<1>1. /\ pc'[h] = to /\ HandlersOK'
      /\ \A g \in Handlers : g # h => pc'[g] = pc[g] /\ response'[g] = response[g]
  BY StepMoves DEF HandlersOK, Locations, Away
<1>2. ~Deciding(h)' /\ ~Holds(h)' /\ ~Free(h)'
  BY <1>1 DEF Deciding, Holds, Free, Away
<1> QED
  BY <1>1, <1>2, FloorKept

\* Nor does the holder that goes on without a write to the flag: it keeps the floor
\* or leaves it for good.
LEMMA HolderStep ==
  ASSUME FloorInv, HandlersOK', NEW h \in Handlers, Holds(h), UNCHANGED <<world, working>>,
         \A g \in Handlers : g # h => pc'[g] = pc[g] /\ response'[g] = response[g],
         ~Deciding(h)'
  PROVE  FloorInv'
<1>1. ~Free(h)'
  BY DEF Deciding, Free
<1>2. Sound => working'
  BY Zenon DEF FloorInv, HoldsFlag
<1> QED
  BY <1>1, <1>2, FloorKept

LEMMA FloorStep == FloorInv /\ [Next]_vars => FloorInv'
<1> SUFFICES ASSUME FloorInv, [Next]_vars PROVE FloorInv'
  OBVIOUS
<1> HandlersOK
  BY DEF FloorInv
<1> DEFINE Others(h) == \A g \in Handlers : g # h => pc'[g] = pc[g] /\ response'[g] = response[g]
<1>0. ASSUME UNCHANGED <<world, working, handlers>> PROVE FloorInv'
  BY <1>0 DEF Sound, world, FloorInv, HandlersOK, OneDecides, OneHolds, NoneHolds, HoldsFlag, Deciding,
              Holds, Free, handlers
<1>1. ASSUME NEW h \in Handlers, Block(h) PROVE FloorInv'
  <2>1. pc[h] = "free" /\ pc'[h] = "look" /\ Others(h) /\ HandlersOK'
    BY <1>1, StepMoves DEF Block, HandlersOK, Locations
  <2>2. Undisturbed(h) /\ ~Holds(h)' /\ ~Free(h)' /\ UNCHANGED <<world, working>>
    BY <1>1, <2>1 DEF Block, Holds, Free
  <2> QED
    BY <2>1, <2>2, FloorKept
<1>2. ASSUME NEW h \in Handlers, Look(h) PROVE FloorInv'
  <2>0. PICK w \in Answers("look", working, TRUE) : Step(h, "look", IF w THEN "return" ELSE "enter")
    BY <1>2 DEF Look
  <2>1. CASE w
    <3>1. Step(h, "look", "return") /\ "return" \in Away
      BY <2>0, <2>1 DEF Away
    <3> QED
      BY <1>2, <3>1, AwayStep DEF Look
  <2>2. CASE ~w
    <3>1. pc[h] = "look" /\ pc'[h] = "enter" /\ Others(h) /\ HandlersOK'
      BY <1>2, <2>0, <2>2, StepMoves DEF Look, HandlersOK, Locations
    <3>2. Deciding(h) /\ ~Holds(h)' /\ UNCHANGED <<world, working>>
      BY <1>2, <3>1 DEF Look, Deciding, Holds
    \* Undefined is taken for TRUE, so what is FALSE is the flag.
    <3>3. ~working
      BY <2>2, Zenon DEF Answers
    <3> QED
      BY <3>1, <3>2, <3>3, FloorKept
  <2> QED
    BY <2>1, <2>2
<1>3. ASSUME NEW h \in Handlers, Enter(h) PROVE FloorInv'
  <2>0. PICK w \in Answers("enter", working, FALSE) : Step(h, "enter", IF w THEN "return" ELSE "claim")
    BY <1>3 DEF Enter
  <2>1. CASE w
    <3>1. Step(h, "enter", "return") /\ "return" \in Away
      BY <2>0, <2>1 DEF Away
    <3> QED
      BY <1>3, <3>1, AwayStep DEF Enter
  <2>2. CASE ~w
    <3>1. pc[h] = "enter" /\ pc'[h] = "claim" /\ Others(h) /\ HandlersOK'
      BY <1>3, <2>0, <2>2, StepMoves DEF Enter, HandlersOK, Locations
    \* Whatever the second look answered, the handler was free to claim already.
    <3>2. Deciding(h) /\ Free(h) /\ ~Holds(h)' /\ UNCHANGED <<world, working>>
      BY <1>3, <3>1 DEF Enter, Deciding, Holds, Free
    <3> QED
      BY <3>1, <3>2, FloorKept
  <2> QED
    BY <2>1, <2>2
<1>4. ASSUME NEW h \in Handlers, Claim(h) PROVE FloorInv'
  <2>1. pc[h] = "claim" /\ pc'[h] = "askPause" /\ Others(h) /\ HandlersOK'
    BY <1>4, StepMoves DEF Claim, HandlersOK, Locations
  <2>2. Free(h) /\ ~Deciding(h)' /\ ~Free(h)'
    BY <2>1 DEF Deciding, Free
  <2>3. UNCHANGED world /\ (Sound => working')
    BY <1>4, Zenon DEF Claim, SetWorking, Sound
  <2>4. working' \/ Holds(h) \/ Free(h) \/ ~working
    BY <2>2
  <2> QED
    BY <2>1, <2>2, <2>3, <2>4, FloorKept
<1>5. ASSUME NEW h \in Handlers, AskPause(h) PROVE FloorInv'
  <2>0. PICK p \in Answers("askPause", pause, FALSE) :
          /\ Step(h, "askPause", IF p THEN "release" ELSE "compare")
          /\ Respond(h, IF p THEN "exit" ELSE "ok")
    BY <1>5 DEF AskPause
  <2>1. pc[h] = "askPause" /\ pc'[h] = (IF p THEN "release" ELSE "compare")
    BY <2>0, StepMoves
  <2>2. response'[h] = (IF p THEN "exit" ELSE "ok") /\ Others(h) /\ HandlersOK'
    BY <2>0, StepMoves, RespondSets DEF HandlersOK, Locations
  <2>3. Holds(h) /\ ~Deciding(h)' /\ UNCHANGED <<world, working>>
    BY <1>5, <2>1, <2>2 DEF AskPause, Deciding, Holds
  <2> QED
    BY <2>2, <2>3, HolderStep
<1>6. ASSUME NEW h \in Handlers, Compare(h) PROVE FloorInv'
  <2>1. PICK to \in {"release", "index", "extracting"} : Step(h, "compare", to)
    BY <1>6 DEF Compare
  <2>2. pc[h] = "compare" /\ pc'[h] = to /\ Others(h) /\ HandlersOK'
    BY <1>6, <2>1, StepMoves DEF Compare, HandlersOK, Locations
  <2>3. response'[h] = "ok" /\ UNCHANGED <<world, working>>
    BY <1>6, <2>2 DEF Compare, HandlersOK
  <2>4. Holds(h) /\ ~Deciding(h)'
    BY <2>2, <2>3 DEF Deciding, Holds
  <2> QED
    BY <2>2, <2>3, <2>4, HolderStep
<1>7. ASSUME NEW h \in Handlers, IndexBegin(h) PROVE FloorInv'
  <2>1. pc[h] = "index" /\ pc'[h] = "indexing" /\ Others(h) /\ HandlersOK'
    BY <1>7, StepMoves DEF IndexBegin, HandlersOK, Locations
  <2>2. Holds(h) /\ ~Deciding(h)' /\ ~Free(h)' /\ UNCHANGED world
    BY <1>7, <2>1 DEF IndexBegin, Deciding, Holds, Free
  \* A second claim that is lost leaves the first.
  <2>3. Sound => working'
    <3>1. Sound => working
      BY <2>2, Zenon DEF FloorInv, HoldsFlag
    <3>2. working' = TRUE \/ working' = working
      BY <1>7, Zenon DEF IndexBegin, SetWorking
    <3> QED
      BY <3>1, <3>2, Zenon
  <2> QED
    BY <2>1, <2>2, <2>3, FloorKept
<1>8. ASSUME NEW h \in Handlers, IndexEnd(h) PROVE FloorInv'
  <2>1. pc[h] = "indexing" /\ pc'[h] = "release" /\ response'[h] = "indexed"
    BY <1>8, StepMoves, RespondSets DEF IndexEnd
  <2>2. Others(h) /\ HandlersOK'
    BY <1>8, StepMoves, RespondSets DEF IndexEnd, HandlersOK, Locations
  <2>3. Holds(h) /\ ~Holds(h)' /\ Undisturbed(h) /\ UNCHANGED world
    BY <1>8, <2>1 DEF IndexEnd, Holds
  <2> QED
    BY <2>2, <2>3, FloorKept
<1>9. ASSUME NEW h \in Handlers, Extract(h) PROVE FloorInv'
  <2>1. /\ pc[h] = "extracting" /\ pc'[h] \in {"importing", "hung"}
        /\ Others(h) /\ HandlersOK'
    BY <1>9, StepMoves DEF Extract, HandlersOK, Locations
  <2>2. Holds(h) /\ ~Deciding(h)' /\ UNCHANGED <<world, working>>
    BY <1>9, <2>1 DEF Extract, Deciding, Holds
  <2> QED
    BY <2>1, <2>2, HolderStep
<1>10. ASSUME NEW h \in Handlers, Import(h) PROVE FloorInv'
  <2>1. pc[h] = "importing" /\ pc'[h] = "release" /\ response'[h] \in {"done", "error"}
    BY <1>10, StepMoves, RespondSets DEF Import
  <2>2. Others(h) /\ HandlersOK'
    BY <1>10, StepMoves, RespondSets DEF Import, HandlersOK, Locations
  <2>3. Holds(h) /\ ~Deciding(h)' /\ UNCHANGED <<world, working>>
    BY <1>10, <2>1 DEF Import, Deciding, Holds
  <2> QED
    BY <2>2, <2>3, HolderStep
<1>11. ASSUME NEW h \in Handlers, Release(h) PROVE FloorInv'
  <2>1. PICK to \in Away : Step(h, "release", to)
    BY <1>11 DEF Release, Away
  <2>2. pc[h] = "release" /\ pc'[h] = to /\ Others(h) /\ HandlersOK'
    BY <1>11, <2>1, StepMoves DEF Release, HandlersOK, Locations, Away
  <2>3. Holds(h) \/ Free(h)
    BY <2>2 DEF Holds, Free
  <2>4. ~Deciding(h)' /\ ~Holds(h)' /\ ~Free(h)' /\ UNCHANGED world
    BY <1>11, <2>2 DEF Release, Deciding, Holds, Free, Away
  <2> QED
    BY <2>2, <2>3, <2>4, FloorKept
<1>12. ASSUME NEW h \in Handlers, LastPause(h) \/ Close(h) PROVE FloorInv'
  <2>1. PICK at, to \in Away : Step(h, at, to)
    BY <1>12 DEF LastPause, Close, Away
  <2> QED
    BY <1>12, <2>1, AwayStep DEF LastPause, Close
<1>15. ASSUME NEW h \in Handlers, Return(h) PROVE FloorInv'
  <2>1. pc[h] = "return" /\ pc'[h] = "free" /\ Others(h) /\ HandlersOK'
    BY <1>15, StepMoves DEF Return, HandlersOK, Locations
  <2>2. ~Deciding(h)' /\ ~Holds(h)' /\ ~Free(h)' /\ UNCHANGED <<world, working>>
    BY <1>15, <2>1 DEF Return, Deciding, Holds, Free
  <2> QED
    BY <2>1, <2>2, FloorKept
<1>13. CASE Start
  BY <1>13 DEF Start, FloorInv, Sound, world, HandlersOK, OneDecides, OneHolds, NoneHolds, HoldsFlag,
               Deciding, Holds, Free, Locations
<1>14. CASE \/ Bounced \/ TimerFires \/ Reconnect \/ Signal \/ Cleanup \/ UNCHANGED vars
            \/ \E h \in Handlers : Exit(h)
  BY <1>0, <1>14 DEF Bounced, TimerFires, Reconnect, Signal, Cleanup, MarkPaused, ReadWorking,
                     MarkUnPaused, ExitLocal, Exit, handlers, vars
<1> QED
  BY <1>1, <1>2, <1>3, <1>4, <1>5, <1>6, <1>7, <1>8, <1>9, <1>10, <1>11, <1>12, <1>13, <1>14, <1>15
     DEF Next, Handle

\* OneCycle and CycleIsAnnounced follow, because a handler in its cycle is a holder.
LEMMA FloorMeans == FloorInv => OneCycle /\ CycleIsAnnounced
<1> SUFFICES ASSUME FloorInv PROVE OneCycle /\ CycleIsAnnounced
  OBVIOUS
<1>1. \A h \in Handlers : InCycle(h) => Holds(h)
  BY DEF InCycle, Holds
<1>2. OneCycle
  BY <1>1, Zenon DEF FloorInv, Sound, OneHolds, OneCycle, FlagsExclude
<1>3. CycleIsAnnounced
  BY <1>1, Zenon DEF FloorInv, Sound, HoldsFlag, CycleIsAnnounced
<1> QED
  BY <1>2, <1>3

\* At most one handler indexes, extracts or imports, however many block events,
\* lifted deBounces and reconnections start handlers, and whichever other queries
\* fail, as long as none of them falls between another handler's look at the
\* working flag and its claim (doSynchronize in ripper.js, the head of synchronize
\* in sync.js) and the claim itself, whose error setBool swallows, is stored.
THEOREM FlagsExcludeWhenPrompt == Spec => []OneCycle
<1>1. FloorInv => OneCycle
  BY FloorMeans
<1> QED
  BY <1>1, FloorInit, FloorStep, PTL DEF Spec

\* Under the same two provisos the working flag is set throughout a cycle, a hung one
\* and the in-sync path of initialSyncInit included, so that the signal handler leaves
\* the exit to the cycle: no other failing query lifts it.
THEOREM CycleAnnounced == Spec => []CycleIsAnnounced
<1>1. FloorInv => CycleIsAnnounced
  BY FloorMeans
<1> QED
  BY <1>1, FloorInit, FloorStep, PTL DEF Spec

-----------------------------------------------------------------------------
LEMMA PauseInit == Init => PauseInv
PROOF BY DEF Init, PauseInv, Locations

LEMMA PcType == pc \in [Handlers -> Locations] /\ [Next]_vars => pc' \in [Handlers -> Locations]
PROOF BY DEF Next, Handle, Cleanup, Block, Look, Enter, Claim, AskPause, Compare, IndexBegin, IndexEnd,
  Extract, Import, Release, LastPause, Close, Exit, Return, Bounced, TimerFires,
  Reconnect, Signal, MarkPaused, ReadWorking, MarkUnPaused, ExitLocal, Start, Step, Goto,
  Locations, vars, handlers

\* A handler about to exit stays so until the process is gone.
LEMMA ExitStays ==
  ASSUME pc \in [Handlers -> Locations], [Next]_vars, up', NEW g \in Handlers, pc[g] = "exit", up
  PROVE  pc'[g] = "exit"
PROOF BY DEF Next, Handle, Cleanup, Block, Look, Enter, Claim, AskPause, Compare, IndexBegin, IndexEnd,
  Extract, Import, Release, LastPause, Close, Exit, Return, Bounced, TimerFires,
  Reconnect, Signal, MarkPaused, ReadWorking, MarkUnPaused, ExitLocal, Start, Step, Goto,
  Locations, vars, handlers

\* What is chosen once.
LEMMA WorldStays == [Next]_vars => faulty' = faulty
PROOF BY DEF Next, Handle, Cleanup, Block, Look, Enter, Claim, AskPause, Compare, IndexBegin, IndexEnd,
  Extract, Import, Release, LastPause, Close, Exit, Return, Bounced, TimerFires,
  Reconnect, Signal, MarkPaused, ReadWorking, MarkUnPaused, ExitLocal, Start, vars, world

LEMMA PauseStep == PauseInv /\ [Next]_vars => PauseInv'
<1> SUFFICES ASSUME PauseInv, [Next]_vars, up', cleanup' \in {"reading", "waiting"},
                    "marking" \notin faulty
             PROVE  (pause \/ \E h \in Handlers : pc[h] = "exit")'
  BY PcType, WorldStays DEF PauseInv
<1>1. ASSUME NEW h \in Handlers, Close(h) PROVE pc'[h] = "exit"
  BY <1>1 DEF Close, Step, Goto, PauseInv
<1>2. ASSUME MarkPaused PROVE pause'
  BY <1>2, Zenon DEF MarkPaused, SetPause
\* Every other step finds the request where it leaves it.
<1>3. ASSUME ~MarkPaused, \A h \in Handlers : ~Close(h)
      PROVE  up /\ cleanup \in {"reading", "waiting"} /\ (pause => pause')
  <2>1. CASE UNCHANGED <<up, pause, cleanup>>
    BY <2>1, Zenon
  <2>2. CASE ReadWorking
    <3>1. up /\ cleanup = "reading"
      BY <2>2 DEF ReadWorking
    <3>2. pause => pause'
      BY <2>2, Zenon DEF ReadWorking
    <3> QED
      BY <3>1, <3>2
  <2>3. CASE Signal \/ MarkUnPaused \/ ExitLocal \/ Start \/ \E h \in Handlers : Exit(h)
    BY <2>3 DEF Signal, MarkUnPaused, ExitLocal, Start, Exit
  <2> QED
    BY <1>3, <2>1, <2>2, <2>3 DEF Next, Handle, Cleanup, Block, Look, Enter, Claim, AskPause, Compare,
       IndexBegin, IndexEnd, Extract, Import, Release, LastPause, Return, Bounced, TimerFires,
       Reconnect, vars
<1>4. CASE (\E h \in Handlers : Close(h)) \/ MarkPaused
  BY <1>1, <1>2, <1>4
<1>5. CASE ~MarkPaused /\ \A h \in Handlers : ~Close(h)
  <2>1. up /\ (pause \/ \E h \in Handlers : pc[h] = "exit") /\ (pause => pause')
    BY <1>3, <1>5 DEF PauseInv
  <2>2. CASE pause
    BY <2>1, <2>2
  <2>3. ASSUME NEW h \in Handlers, pc[h] = "exit" PROVE pc'[h] = "exit"
    BY <2>1, <2>3, ExitStays DEF PauseInv
  <2> QED
    BY <2>1, <2>2, <2>3
<1> QED
  BY <1>4, <1>5

\* While the signal handler waits for the end of the cycle, the request that markPaused
\* stored stands, with any overlap of cycles and any other failure: whoever lifts the
\* pause flag (the listener of 'close') goes on to exit.
THEOREM RequestStands == Spec => []PauseHeld
<1>1. PauseInv => PauseHeld
  BY DEF PauseInv, PauseHeld
<1> QED
  BY <1>1, PauseInit, PauseStep, PTL DEF Spec

-----------------------------------------------------------------------------
\* The rows of the database and the other flags hold Booleans throughout.
FlagsOK == {prompt, up, working, pause, indexed, deBounce} \subseteq BOOLEAN

LEMMA TypeInit == Init => TypeOK
<1> SUFFICES ASSUME Init PROVE TypeOK
  OBVIOUS
<1>1. FlagsOK
  BY Zenon DEF Init, FlagsOK
<1>2. /\ socket \in 1..MaxSockets /\ timers \in 0..MaxTimers
      /\ pc \in [Handlers -> Locations] /\ from \in [Handlers -> 1..MaxSockets]
      /\ response \in [Handlers -> {"ok", "exit", "done", "error", "indexed"}]
      /\ cleanup = "off" /\ faulty \subseteq Places
  BY ConstantsAssumption DEF Init, Locations
<1> QED
  BY <1>1, <1>2 DEF TypeOK, FlagsOK

LEMMA FlagsStep == FlagsOK /\ [Next]_vars => FlagsOK'
<1> SUFFICES ASSUME FlagsOK, [Next]_vars PROVE FlagsOK'
  OBVIOUS
<1> QED
  BY ZenonT(60) DEF FlagsOK, Next, Handle, Cleanup, Block, Look, Enter, Claim, AskPause,
     Compare, IndexBegin, IndexEnd, Extract, Import, Release, LastPause, Close, Exit, Return,
     Bounced, TimerFires, Reconnect, Signal, MarkPaused, ReadWorking, MarkUnPaused, ExitLocal,
     Start, SetWorking, SetPause, vars, world, sockets

LEMMA TypeStep == TypeOK /\ [Next]_vars => TypeOK'
<1> SUFFICES ASSUME TypeOK, [Next]_vars PROVE TypeOK'
  OBVIOUS
<1>1. FlagsOK'
  BY FlagsStep DEF TypeOK, FlagsOK
<1>2. pc' \in [Handlers -> Locations]
  BY PcType DEF TypeOK
<1>3. response' \in [Handlers -> {"ok", "exit", "done", "error", "indexed"}]
  BY DEF TypeOK, Next, Handle, Cleanup, Block, Look, Enter, Claim, AskPause, Compare, IndexBegin,
     IndexEnd, Extract, Import, Release, LastPause, Close, Exit, Return, Bounced, TimerFires,
     Reconnect, Signal, MarkPaused, ReadWorking, MarkUnPaused, ExitLocal, Start, Respond, vars,
     handlers
<1>4. /\ socket' \in 1..MaxSockets /\ timers' \in 0..MaxTimers
      /\ from' \in [Handlers -> 1..MaxSockets]
  <2> MaxTimers \in Nat /\ MaxSockets \in Nat /\ 1 \in 1..MaxSockets
    BY ConstantsAssumption
  <2>1. CASE \E h \in Handlers : Return(h)
    <3> PICK h \in Handlers : Return(h)
      BY <2>1
    <3>1. socket' = socket /\ from' = [from EXCEPT ![h] = 1]
      BY DEF Return
    <3>2. timers' \in 0..MaxTimers
      BY DEF Return, TypeOK
    <3> QED
      BY <3>1, <3>2 DEF TypeOK
  <2>2. CASE \E h \in Handlers : Block(h)
    <3> PICK h \in Handlers : Block(h)
      BY <2>2
    <3>1. UNCHANGED <<socket, timers>> /\ from' = [from EXCEPT ![h] = socket]
      BY DEF Block
    <3> QED
      BY <3>1 DEF TypeOK
  <2>3. CASE Bounced \/ TimerFires \/ Reconnect
    BY <2>3 DEF TypeOK, Bounced, TimerFires, Reconnect, handlers
  <2>5. CASE Start
    BY <2>5 DEF TypeOK, Start
  <2>4. CASE UNCHANGED <<socket, timers, from>>
    BY <2>4 DEF TypeOK
  <2> QED
    BY <2>1, <2>2, <2>3, <2>4, <2>5 DEF Next, Handle, Cleanup, Look, Enter, Claim, AskPause, Compare,
     IndexBegin, IndexEnd, Extract, Import, Release, LastPause, Close, Exit, Signal, MarkPaused,
     ReadWorking, MarkUnPaused, ExitLocal, vars, sockets, handlers
<1>5. cleanup' \in {"off", "marking", "reading", "waiting", "unpausing", "exiting"}
  BY DEF TypeOK, Next, Handle, Cleanup, Block, Look, Enter, Claim, AskPause, Compare, IndexBegin,
     IndexEnd, Extract, Import, Release, LastPause, Close, Exit, Return, Bounced, TimerFires,
     Reconnect, Signal, MarkPaused, ReadWorking, MarkUnPaused, ExitLocal, Start, vars
<1>6. faulty' \subseteq Places
  BY WorldStays DEF TypeOK
<1> QED
  BY <1>1, <1>2, <1>3, <1>4, <1>5, <1>6 DEF TypeOK, FlagsOK

\* Every variable of the event loop keeps its type, with any number of handlers,
\* timers and sockets, and any places that may fail.
THEOREM MainTypeCorrect == Spec => []TypeOK
BY TypeInit, TypeStep, PTL DEF Spec
=============================================================================
