---------------------------- MODULE GaltonPlayback ----------------------------
(****************************************************************************)
(* The Galton laboratory's playback (galton-playback.ts), driven by the     *)
(* animation frames of GaltonCanvas.tsx under the controls of               *)
(* GaltonLabPage.tsx.                                                       *)
(*                                                                          *)
(* Each frame releases the trials that are due as one cohort, which lands   *)
(* when its duration has passed; the speed, and with it the duration, may   *)
(* change at any time.  Amounts below one ball are carried over in units    *)
(* of 1/Unit, exactly, where the code has floating-point numbers; a cohort  *)
(* has the time left to its landing and a trace its age, where the code has *)
(* points on the clock of the run.                                          *)
(****************************************************************************)
EXTENDS Integers, FiniteSets

CONSTANTS
    Simulations,   \* outcomes of the simulations: trial -> bin
    Bins,
    Speeds,        \* "normal" is one of them
    Rate,          \* of each speed, in 1/Unit balls per millisecond
    Duration,      \* of a fall, for each speed, in milliseconds
    Unit,
    Deltas,        \* milliseconds between two frames
    MaxDelta,      \* Math.min(deltaMs, 50)
    SampleRate,    \* traces sampled, in 1/Unit per millisecond
    MaxTraces      \* 800

ASSUME GaltonAssumption ==
    /\ \A s \in Simulations :
          /\ Cardinality(DOMAIN s) \in Nat
          /\ s \in [0 .. Cardinality(DOMAIN s) - 1 -> Bins]
    /\ "normal" \in Speeds
    /\ Rate \in [Speeds -> Nat \ {0}] /\ Duration \in [Speeds -> Nat \ {0}]
    /\ Unit \in Nat \ {0} /\ MaxDelta \in Nat \ {0} /\ Deltas \subseteq Nat \ {0}
    /\ SampleRate \in Nat /\ MaxTraces \in Nat

VARIABLES
    simulation,     \* the outcomes of the run
    run,            \* its GaltonPlayback
    finished,       \* completionNotified: no further frame is requested
    reducedMotion,  \* the canvas's media query
    running, speed, progress   \* state of the page

vars == <<simulation, run, finished, reducedMotion, running, speed, progress>>

BallCount == Cardinality(DOMAIN simulation)

Fresh == [released |-> 0, processed |-> 0, bins |-> [b \in Bins |-> 0],
          carry |-> 0, sampleCarry |-> 0, cohorts |-> {}, particles |-> {}]

Snapshot(r) == [released |-> r.released, processed |-> r.processed, bins |-> r.bins]

Complete(r) == r.processed = BallCount

Trials(c) == c.start .. c.end - 1

\* The numbers of the playback are whole; a cohort is of trials that were released.
TypeOK ==
    /\ simulation \in Simulations
    /\ DOMAIN run = DOMAIN Fresh
    /\ run.released \in 0 .. BallCount
    /\ run.processed \in Nat /\ run.carry \in Nat
    /\ run.bins \in [Bins -> Nat]
    /\ run.cohorts \subseteq [start : Nat, end : Nat, left : Nat]
    /\ \A c \in run.cohorts : c.start < c.end /\ c.end <= run.released
    /\ {finished, reducedMotion, running} \subseteq BOOLEAN
    /\ speed \in Speeds
    /\ progress \in [released : Nat, processed : Nat, bins : [Bins -> Nat]]

Init ==
    /\ simulation \in Simulations
    /\ run = Fresh
    /\ finished = FALSE
    /\ reducedMotion \in BOOLEAN
    /\ running = TRUE
    /\ speed = "normal"
    /\ progress = Snapshot(Fresh)

-----------------------------------------------------------------------------
(* GaltonPlayback.advance.                                                  *)

Least(S) == CHOOSE x \in S : \A y \in S : x <= y

\* Seeded fault: what is less than a ball is forgotten.
NoCarry(amount) == 0

\* What remains of an amount after its whole balls.
Carry(amount) == amount % Unit

Falls(p) == p.age < p.duration

TraceCount(sampled, size, shown) == Least({sampled, size, MaxTraces - shown})

\* The traces sampled evenly from a new cohort.
Traces(cohort, count) ==
    {[index |-> cohort.start + (k * (cohort.end - cohort.start)) \div count,
      age |-> 0, duration |-> Duration[speed]] : k \in 0 .. count - 1}

Release(r, amount, delta) ==
    LET end == Least({BallCount, r.released + amount \div Unit})
        cohort == [start |-> r.released, end |-> end, left |-> Duration[speed]]
        sampled == r.sampleCarry + delta * SampleRate
        count == IF reducedMotion THEN 0
                 ELSE TraceCount(sampled \div Unit, end - r.released,
                                 Cardinality(r.particles))
    IN  IF end = r.released THEN r
        ELSE [r EXCEPT !.released = end,
                       !.cohorts = @ \cup {cohort},
                       !.sampleCarry = sampled % Unit,
                       !.particles = @ \cup Traces(cohort, count)]

\* Seeded fault: cohorts are taken to land in the order of their release.
InReleaseOrder(c, r) == r.processed .. r.processed + (c.end - c.start) - 1

LandedTrials(c, r) == Trials(c)

\* Every trial is counted as often as a landed cohort has it.
Land(r) ==
    LET landed == {c \in r.cohorts : c.left = 0}
        processed == UNION {{c} \X Trials(c) : c \in landed}
        sorted == UNION {{c} \X LandedTrials(c, r) : c \in landed}
    IN  [r EXCEPT !.cohorts = @ \ landed,
                  !.processed = @ + Cardinality(processed),
                  !.bins = [b \in Bins |->
                      r.bins[b] + Cardinality({p \in sorted : simulation[p[2]] = b})]]

\* The time that has passed for what is falling.
Later(r, delta) ==
    LET shown == {[p EXCEPT !.age = @ + delta] : p \in r.particles}
    IN  [r EXCEPT
           !.cohorts = {[c EXCEPT !.left = IF @ > delta THEN @ - delta ELSE 0] : c \in @},
           !.particles = IF reducedMotion THEN {} ELSE {p \in shown : Falls(p)}]

Advance(deltaMs) ==
    LET delta == Least({deltaMs, MaxDelta})
        amount == run.carry + Rate[speed] * delta
        later == [Later(run, delta) EXCEPT !.carry = Carry(amount)]
    IN  IF Complete(run) THEN run ELSE Land(Release(later, amount, delta))

-----------------------------------------------------------------------------
(* The canvas and the page.                                                 *)

\* Seeded fault: only the timer decides when the page is told.
WhenDue(r) == FALSE

\* The page is told at least when the run is complete.
MustReport(r) == Complete(r)

\* animate(): a visible frame of a run that is not paused.  Otherwise the page is
\* told every 100 ms; here, whenever it is.
Frame(deltaMs) ==
    /\ ~finished /\ running
    /\ run' = Advance(deltaMs)
    /\ \/ progress' = Snapshot(run')
       \/ ~MustReport(run') /\ UNCHANGED progress
    /\ finished' = Complete(run')
    /\ running' = ~finished'
    /\ UNCHANGED <<simulation, reducedMotion, speed>>

\* A paused frame only reports.
PausedFrame ==
    /\ ~finished /\ ~running
    /\ progress' = Snapshot(run)
    /\ UNCHANGED <<simulation, run, finished, reducedMotion, running, speed>>

\* replay(), reseed() and the apply button: the canvas effect runs afresh, under
\* the same or under another simulation.
StartRun ==
    /\ simulation' \in Simulations
    /\ run' = Fresh
    /\ progress' = Snapshot(Fresh)
    /\ finished' = FALSE
    /\ running' = TRUE
    /\ UNCHANGED <<reducedMotion, speed>>

\* toggleRunning while the page does not show a complete run.
Toggle ==
    /\ progress.processed < BallCount
    /\ running' = ~running
    /\ UNCHANGED <<simulation, run, finished, reducedMotion, speed, progress>>

SetSpeed ==
    /\ speed' \in Speeds
    /\ UNCHANGED <<simulation, run, finished, reducedMotion, running, progress>>

MotionPreference ==
    /\ reducedMotion' = ~reducedMotion
    /\ run' = [run EXCEPT !.particles = IF reducedMotion' THEN {} ELSE @]
    /\ UNCHANGED <<simulation, finished, running, speed, progress>>

Next ==
    \/ \E d \in Deltas : Frame(d)
    \/ PausedFrame \/ StartRun \/ Toggle \/ SetSpeed \/ MotionPreference

Spec == Init /\ [][Next]_vars

\* The page is visible again and again, and the browser draws visible pages.
FairSpec == Spec /\ WF_vars(\E d \in Deltas : Frame(d))

-----------------------------------------------------------------------------
(* Properties.                                                              *)

InFlight == UNION {Trials(c) : c \in run.cohorts}
Settled == (0 .. run.released - 1) \ InFlight

\* However the speed changes and in whatever order cohorts land, each released
\* trial is in flight or counted, once, in the bin of its own outcome.
TrialsCountedOnce ==
    /\ run.processed = Cardinality(Settled)
    /\ \A b \in Bins :
          run.bins[b] = Cardinality({i \in Settled : simulation[i] = b})
    /\ \A c, d \in run.cohorts : c # d => Trials(c) \cap Trials(d) = {}

\* When the frames of a run have stopped the page shows it complete: the button
\* then starts another run and cannot resume this one, which no frame would move.
FinishedIsShown ==
    finished => progress.processed = BallCount /\ progress.bins = run.bins /\ ~running

\* A run that is neither paused nor replaced comes to its end, at any speeds.
RunCompletes == []<>(~running \/ finished) \/ []<><<StartRun>>_vars

\* What every step keeps.
GaltonInv == TypeOK /\ TrialsCountedOnce /\ FinishedIsShown
=============================================================================
