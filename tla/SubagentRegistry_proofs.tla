----------------------- MODULE SubagentRegistry_proofs -----------------------
(***************************************************************************)
(* Proofs about SubagentRegistry, for any runs, sessions, requesters,      *)
(* retry limits and numbers of incidents.                                  *)
(*                                                                         *)
(* The invariant speaks of one run at a time (Good, on memory and disk).   *)
(* A step works on one run and may, through retryDeferredCompletedAnnounces*)
(* or a restart, resume any others; what a resume may do to a run is the   *)
(* relation Moved, which keeps Good.                                       *)
(***************************************************************************)
EXTENDS SubagentRegistry, FiniteSetTheorems, TLAPS

\* Types without the bound on announceRetryCount, which is part of Good.
Rec ==
  [fate : Fates, cleanup : {"keep", "delete"},
   ended : {"no", "complete", "error", "killed"}, handled : BOOLEAN, done : BOOLEAN,
   quiet : {"no", "steer", "killed"}, tries : Nat, hooked : BOOLEAN, wake : BOOLEAN,
   cooling : BOOLEAN, expired : BOOLEAN]

Mem ==
  [runs : [Runs -> Rec], marks : SUBSET Runs, timers : SUBSET (Runs \X Timers),
   calls : SUBSET Call]

-----------------------------------------------------------------------------
(* The invariant of a run *)

\* The runs the invariant is about: all but the continuations by a wake in
\* sessions that are also steered, messaged or recovered.
Tame ==
  {r \in Runs : r \in WakeRuns =>
     \A q \in Runs : SessionOf[q] = SessionOf[r] => q \in FirstRuns \cup WakeRuns}

Announces(c, r) == c.run = r /\ c.at \in {"announce", "woken", "deliver"}

Announcing(m, r) == \E c \in m.calls : Announces(c, r)

\* A call that holds the record of r.
Held(m, r) == \E c \in m.calls : c.run = r /\ c.at # "wait"

\* The announcement is guarded: cleanupHandled is set from its beginning on, until
\* it is to be repeated, and for good once the requester has heard of the run.
\* Attempts are used up only by runs that have ended.
Guarded(m, tl, r) ==
  /\ Present(m, r) /\ m.runs[r].quiet = "killed" => m.runs[r].handled /\ m.runs[r].done
  /\ \A c \in m.calls : Announces(c, r) => tl[r] = 0
  /\ \A c, d \in m.calls : Announces(c, r) /\ Announces(d, r) => c = d
  /\ tl[r] \in {0, 1}
  /\ Present(m, r) /\ (Announcing(m, r) \/ tl[r] = 1) =>
       m.runs[r].handled /\ Ended(m, r) /\ m.runs[r].quiet # "killed"
  /\ \A c \in m.calls : Present(m, r) /\ c.run = r /\ c.at \in {"freeze", "hook"} => Ended(m, r)
  /\ m.runs[r].tries <= MaxTries
  /\ m.runs[r].tries = MaxTries =>
       ~Announcing(m, r) /\ (Present(m, r) => m.runs[r].handled)
  /\ Present(m, r) /\ m.runs[r].tries > 0 => Ended(m, r) /\ m.runs[r].quiet # "killed"
  /\ Unused(m, r) => tl[r] = 0 /\ ~Held(m, r)

\* The hook has begun at most once, and whoever still holds the record can see it.
Hooked(m, em, r) ==
  /\ em[r] \in {0, 1}
  /\ HookInFlight(m, r) => em[r] = 1 /\ ~m.runs[r].hooked
  /\ \A c, d \in m.calls : c.run = r /\ d.run = r /\ c.at = "hook" /\ d.at = "hook" => c = d
  /\ em[r] = 1 /\ (Present(m, r) \/ Held(m, r)) => m.runs[r].hooked \/ HookInFlight(m, r)
  /\ m.runs[r].hooked => em[r] = 1
  /\ Unused(m, r) => em[r] = 0

\* An ended completion-mode run is in somebody's hands: its clean-up in those of an
\* announcement or of the hook that follows it, before that in those of a freeze, a
\* timer or a steer. A retry timer is worth nothing while the run is marked.
Handling(m, r) ==
  m.runs[r].handled /\ ~m.runs[r].done =>
    \/ Announcing(m, r)
    \/ \E c \in m.calls : c.run = r /\ c.at = "hook" /\ c.by \in {"success", "giveup"}

Waiting(m, r) ==
  Ended(m, r) /\ ~m.runs[r].done /\ ~m.runs[r].handled =>
    \/ \E c \in m.calls : c.run = r /\ c.at = "freeze"
    \/ <<r, "backoff">> \in m.timers
    \/ <<r, "retry">> \in m.timers /\ r \notin m.marks
    \/ m.runs[r].quiet = "steer"

Steered(m, r) == m.runs[r].quiet = "steer" => \E c \in m.calls : c.run = r /\ c.at = "steer"

Moving(m, r) == Present(m, r) => Handling(m, r) /\ Waiting(m, r) /\ Steered(m, r)

\* It is not settled before its hook has begun.
Told(m, em, r) ==
  (m.runs[r].fate = "settled" \/ (Present(m, r) /\ (m.runs[r].done \/ m.runs[r].tries = MaxTries)))
    => em[r] = 1

Good(m, tl, em, ct, r) ==
  /\ Guarded(m, tl, r)
  /\ Hooked(m, em, r)
  /\ Expects(r) /\ r \notin ct => Moving(m, r) /\ Told(m, em, r)

\* What the saved record d of r knows of the record in memory: enough that a
\* restored run is neither hooked nor announced again.
Stored(d, m, tl, em, ct, r) ==
  /\ d.tries <= MaxTries
  /\ Present(m, r) =>
       /\ d.hooked = m.runs[r].hooked
       /\ (Announcing(m, r) \/ tl[r] = 1) => d.handled /\ d.ended # "no" /\ d.quiet # "killed"
       /\ d.quiet = "killed" => d.handled /\ d.done
       /\ d.tries = MaxTries => d.handled
       /\ d.tries > 0 => d.ended # "no" /\ d.quiet # "killed"
       /\ Expects(r) /\ r \notin ct /\ (d.done \/ d.tries = MaxTries) => em[r] = 1

-----------------------------------------------------------------------------
(* What happens to a run that is resumed, or not touched *)

\* Nothing of the run r differs, but for its wait.
Same(m, n, r) ==
  /\ n.runs[r] = m.runs[r]
  /\ \A c \in Call : c.run = r /\ c.at # "wait" => (c \in n.calls <=> c \in m.calls)
  /\ r \in n.marks <=> r \in m.marks
  /\ \A k \in {"retry", "backoff"} : <<r, k>> \in n.timers <=> <<r, k>> \in m.timers

\* The run is pruned, given up, replaced or archived, or its announcement begins; or
\* it is left alone.
Moved(m, n, r) ==
  /\ \A c \in m.calls : c.run = r /\ c.at # "wait" => c \in n.calls
  /\ n.runs[r].hooked = m.runs[r].hooked /\ n.runs[r].quiet = m.runs[r].quiet
  /\ n.runs[r].tries = m.runs[r].tries
  /\ \/ n.runs[r].fate = m.runs[r].fate
     \/ Present(m, r) /\ n.runs[r].fate \in {"pruned", "replaced", "archived"}
  /\ Present(n, r) =>
       /\ n.runs[r].ended = m.runs[r].ended
       /\ m.runs[r].handled => n.runs[r].handled
       /\ m.runs[r].done => n.runs[r].done
       /\ n.runs[r].done /\ ~m.runs[r].done => ~Expects(r) \/ m.runs[r].tries >= MaxTries
       /\ n.runs[r].handled /\ ~m.runs[r].handled => Announcing(n, r)
       /\ r \in n.marks /\ Ended(n, r) /\ ~n.runs[r].done /\ ~n.runs[r].handled =>
            r \in m.marks \/ <<r, "backoff">> \in n.timers \/ n.runs[r].quiet = "steer"
  /\ \A c \in n.calls : c.run = r /\ c.at # "wait" /\ c \notin m.calls =>
       /\ c = [run |-> r, at |-> "announce", by |-> "cleanup"]
       /\ Present(m, r) /\ Ended(m, r) /\ ~m.runs[r].handled
       /\ Present(n, r) => n.runs[r].handled
  /\ \A k \in {"retry", "backoff"} : <<r, k>> \in m.timers => <<r, k>> \in n.timers

\* What the proofs need of the constants.
LEMMA ConstantTypes ==
  /\ \A r \in Runs : SessionOf[r] \in Sessions
  /\ MaxTries \in Nat /\ MaxTries >= 1
BY RegistryAssumption

\* The parts of a memory have their types.
LEMMA MemFacts ==
  ASSUME NEW m \in Mem
  PROVE  /\ \A r \in Runs : m.runs[r] \in Rec
         /\ m.runs \in [Runs -> Rec]
         /\ m.marks \subseteq Runs /\ m.timers \subseteq Runs \X Timers /\ m.calls \subseteq Call
BY DEF Mem

\* A run that is left alone has moved, in the sense of Moved.
LEMMA SameMoved ==
  ASSUME NEW m \in Mem, NEW n \in Mem, NEW r \in Runs, Same(m, n, r)
  PROVE  Moved(m, n, r)
BY MemFacts DEF Same, Moved, Present, Ended

\* Two resumes in a row do to a run what one may do.
LEMMA MovedMoved ==
  ASSUME NEW m \in Mem, NEW n \in Mem, NEW o \in Mem, NEW r \in Runs,
         Moved(m, n, r), Moved(n, o, r)
  PROVE  Moved(m, o, r)
<1>1. (Present(o, r) => Present(n, r)) /\ (Present(n, r) => Present(m, r))
  BY DEF Moved, Present
<1>2. /\ \A c \in m.calls : c.run = r /\ c.at # "wait" => c \in o.calls
      /\ o.runs[r].hooked = m.runs[r].hooked /\ o.runs[r].quiet = m.runs[r].quiet
      /\ o.runs[r].tries = m.runs[r].tries
      /\ \/ o.runs[r].fate = m.runs[r].fate
         \/ Present(m, r) /\ o.runs[r].fate \in {"pruned", "replaced", "archived"}
      /\ \A k \in {"retry", "backoff"} : <<r, k>> \in m.timers => <<r, k>> \in o.timers
  BY DEF Moved, Present
<1>3. Announcing(n, r) => Announcing(o, r)
  BY DEF Moved, Announcing, Announces
<1>4. ASSUME Present(o, r)
      PROVE  /\ o.runs[r].ended = m.runs[r].ended
             /\ m.runs[r].handled => o.runs[r].handled
             /\ m.runs[r].done => o.runs[r].done
             /\ o.runs[r].done /\ ~m.runs[r].done => ~Expects(r) \/ m.runs[r].tries >= MaxTries
             /\ o.runs[r].handled /\ ~m.runs[r].handled => Announcing(o, r)
  BY <1>1, <1>3, <1>4 DEF Moved
<1>5. ASSUME Present(o, r), r \in o.marks, Ended(o, r), ~o.runs[r].done, ~o.runs[r].handled
      PROVE  r \in m.marks \/ <<r, "backoff">> \in o.timers \/ o.runs[r].quiet = "steer"
  BY <1>1, <1>5 DEF Moved, Ended
<1>6. ASSUME NEW c \in o.calls, c.run = r, c.at # "wait", c \notin m.calls
      PROVE  /\ c = [run |-> r, at |-> "announce", by |-> "cleanup"]
             /\ Present(m, r) /\ Ended(m, r) /\ ~m.runs[r].handled
             /\ Present(o, r) => o.runs[r].handled
  <2>1. CASE c \in n.calls
    BY <1>6, <2>1, <1>1 DEF Moved, Present, Ended
  <2>2. CASE c \notin n.calls
    <3>1. Present(n, r) /\ Ended(n, r) /\ ~n.runs[r].handled
      BY <1>6, <2>2 DEF Moved
    <3> QED BY <1>6, <2>2, <3>1, <1>1 DEF Moved, Ended
  <2> QED BY <2>1, <2>2
<1> QED BY <1>2, <1>4, <1>5, <1>6 DEF Moved

\* A call that a resume has begun is the announcement of a run that was ended, not
\* handled, and not announced before.
LEMMA MovedCalls ==
  ASSUME NEW m \in Mem, NEW n \in Mem, NEW r \in Runs, Moved(m, n, r),
         NEW tl, Guarded(m, tl, r), NEW c \in n.calls, c.run = r, c.at # "wait", c \notin m.calls
  PROVE  /\ c = [run |-> r, at |-> "announce", by |-> "cleanup"]
         /\ Present(m, r) /\ ~m.runs[r].handled
         /\ Present(n, r) => Ended(n, r) /\ n.runs[r].handled
         /\ tl[r] = 0 /\ ~Announcing(m, r)
         /\ m.runs[r].tries # MaxTries /\ m.runs[r].quiet # "killed"
<1>1. /\ c = [run |-> r, at |-> "announce", by |-> "cleanup"]
      /\ Present(m, r) /\ Ended(m, r) /\ ~m.runs[r].handled
      /\ Present(n, r) => n.runs[r].handled
  BY DEF Moved
<1>2. Present(n, r) => Ended(n, r)
  BY <1>1 DEF Moved, Present, Ended
<1> QED BY <1>1, <1>2 DEF Guarded

\* A resume keeps the guard of the announcement.
LEMMA MovedGuarded ==
  ASSUME NEW m \in Mem, NEW n \in Mem, NEW r \in Runs, Moved(m, n, r), NEW tl, Guarded(m, tl, r)
  PROVE  Guarded(n, tl, r)
<1>1. Present(n, r) => Present(m, r) /\ (Ended(n, r) <=> Ended(m, r))
  BY DEF Moved, Present, Ended
<1>2. /\ n.runs[r].quiet = m.runs[r].quiet /\ n.runs[r].tries = m.runs[r].tries
      /\ Present(n, r) /\ m.runs[r].handled => n.runs[r].handled
      /\ Present(n, r) /\ m.runs[r].done => n.runs[r].done
      /\ Unused(n, r) => Unused(m, r)
  BY DEF Moved, Unused
<1> HIDE DEF Moved
<1>3. Present(n, r) /\ n.runs[r].quiet = "killed" => n.runs[r].handled /\ n.runs[r].done
  BY <1>1, <1>2 DEF Guarded
<1>4. ASSUME NEW c \in n.calls, Announces(c, r)
      PROVE  tl[r] = 0
  BY <1>4, MovedCalls DEF Guarded, Announces
<1>5. ASSUME NEW c \in n.calls, NEW d \in n.calls, Announces(c, r), Announces(d, r)
      PROVE  c = d
  <2>1. CASE c \in m.calls /\ d \in m.calls
    BY <1>5, <2>1 DEF Guarded
  <2>2. CASE c \notin m.calls
    BY <1>5, <2>2, MovedCalls DEF Announces, Announcing
  <2>3. CASE d \notin m.calls
    BY <1>5, <2>3, MovedCalls DEF Announces, Announcing
  <2> QED BY <2>1, <2>2, <2>3
<1>6. ASSUME Present(n, r), Announcing(n, r) \/ tl[r] = 1
      PROVE  n.runs[r].handled /\ Ended(n, r) /\ n.runs[r].quiet # "killed"
  <2>1. CASE Announcing(m, r) \/ tl[r] = 1
    BY <1>1, <1>2, <1>6, <2>1 DEF Guarded
  <2>2. CASE ~(Announcing(m, r) \/ tl[r] = 1)
    <3>1. PICK c \in n.calls : Announces(c, r) /\ c \notin m.calls
      BY <1>6, <2>2 DEF Announcing
    <3> QED BY <1>6, <3>1, <1>2, MovedCalls DEF Announces
  <2> QED BY <2>1, <2>2
<1>7. ASSUME NEW c \in n.calls, Present(n, r), c.run = r, c.at \in {"freeze", "hook"}
      PROVE  Ended(n, r)
  <2>1. c \in m.calls
    BY <1>7, MovedCalls
  <2> QED BY <1>1, <1>7, <2>1 DEF Guarded
<1>8. ASSUME n.runs[r].tries = MaxTries
      PROVE  ~Announcing(n, r) /\ (Present(n, r) => n.runs[r].handled)
  <2>1. ~Announcing(m, r) /\ (Present(m, r) => m.runs[r].handled)
    BY <1>2, <1>8 DEF Guarded
  <2>2. ASSUME NEW c \in n.calls, Announces(c, r)
        PROVE  FALSE
    BY <2>1, <2>2, <1>2, <1>8, MovedCalls DEF Announces, Announcing
  <2> QED BY <2>1, <2>2, <1>1, <1>2 DEF Announcing
<1>9. Unused(n, r) => tl[r] = 0 /\ ~Held(n, r)
  BY <1>2, MovedCalls DEF Guarded, Held, Unused, Present
<1>10. /\ tl[r] \in {0, 1} /\ n.runs[r].tries <= MaxTries
       /\ Present(n, r) /\ n.runs[r].tries > 0 => Ended(n, r) /\ n.runs[r].quiet # "killed"
  BY <1>1, <1>2 DEF Guarded
<1> QED BY <1>3, <1>4, <1>5, <1>6, <1>7, <1>8, <1>9, <1>10 DEF Guarded

\* A resume begins no hook and keeps the count of hooks right.
LEMMA MovedHooked ==
  ASSUME NEW m \in Mem, NEW n \in Mem, NEW r \in Runs, Moved(m, n, r), NEW em, Hooked(m, em, r)
  PROVE  /\ Hooked(n, em, r)
         /\ \A c \in n.calls : c.run = r /\ c.at = "hook" => c \in m.calls
<1>1. /\ n.runs[r].hooked = m.runs[r].hooked
      /\ Unused(n, r) => Unused(m, r)
      /\ \A c \in Call : c.run = r /\ c.at = "hook" => (c \in n.calls <=> c \in m.calls)
      /\ Present(n, r) \/ Held(n, r) => Present(m, r) \/ Held(m, r)
  BY MemFacts DEF Moved, Present, Unused, Held
<1> QED BY <1>1, MemFacts DEF Hooked, HookInFlight

\* A resume leaves nothing lying that was in somebody's hands.
LEMMA MovedMoving ==
  ASSUME NEW m \in Mem, NEW n \in Mem, NEW r \in Runs, Moved(m, n, r), Moving(m, r)
  PROVE  Moving(n, r)
<1> SUFFICES ASSUME Present(n, r)
             PROVE  Handling(n, r) /\ Waiting(n, r) /\ Steered(n, r)
  BY DEF Moving
<1>1. Present(m, r) /\ (Ended(n, r) <=> Ended(m, r)) /\ n.runs[r].quiet = m.runs[r].quiet
  BY DEF Moved, Present, Ended
<1>2. Handling(n, r)
  BY <1>1 DEF Moving, Handling, Moved, Announcing, Announces
<1>3. Waiting(n, r)
  BY <1>1 DEF Moving, Waiting, Moved
<1>4. Steered(n, r)
  BY <1>1 DEF Moving, Steered, Moved
<1> QED BY <1>2, <1>3, <1>4

\* A completion-mode run that a resume gives up has been hooked.
LEMMA MovedTold ==
  ASSUME NEW m \in Mem, NEW n \in Mem, NEW r \in Runs, Moved(m, n, r), Expects(r),
         m.runs[r].tries <= MaxTries, NEW em, Told(m, em, r)
  PROVE  Told(n, em, r)
<1>1. m.runs[r].tries \in Nat /\ MaxTries \in Nat
  BY MemFacts, ConstantTypes DEF Rec
<1> QED BY <1>1 DEF Moved, Told, Present

\* A resume keeps the whole invariant of a run.
LEMMA MovedGood ==
  ASSUME NEW m \in Mem, NEW n \in Mem, NEW r \in Runs, Moved(m, n, r),
         NEW tl, NEW em, NEW ct, Good(m, tl, em, ct, r)
  PROVE  Good(n, tl, em, ct, r)
BY MovedGuarded, MovedHooked, MovedMoving, MovedTold DEF Good, Guarded

\* Parts of Moving, for runs that are not otherwise in anybody's hands.
LEMMA MovedParts ==
  ASSUME NEW m \in Mem, NEW n \in Mem, NEW r \in Runs, Moved(m, n, r), Present(n, r)
  PROVE  /\ Present(m, r) /\ (Ended(n, r) <=> Ended(m, r))
         /\ Handling(m, r) => Handling(n, r)
         /\ Steered(m, r) => Steered(n, r)
<1>1. Present(m, r) /\ (Ended(n, r) <=> Ended(m, r)) /\ n.runs[r].quiet = m.runs[r].quiet
  BY DEF Moved, Present, Ended
<1>2. Handling(m, r) => Handling(n, r)
  BY <1>1 DEF Handling, Moved, Announcing, Announces
<1>3. Steered(m, r) => Steered(n, r)
  BY <1>1 DEF Steered, Moved
<1> QED BY <1>1, <1>2, <1>3

-----------------------------------------------------------------------------
(* The functions of the registry: their types, and what they do to a run *)

\* A record of a memory is exchanged for e.
LEMMA PutRecord ==
  ASSUME NEW m \in Mem, NEW r \in Runs, NEW e \in Rec
  PROVE  [m.runs EXCEPT ![r] = e] \in [Runs -> Rec]
BY MemFacts

\* A memory is made of its four parts.
LEMMA MakeMem ==
  ASSUME NEW f \in [Runs -> Rec], NEW k \in SUBSET Runs, NEW t \in SUBSET (Runs \X Timers),
         NEW d \in SUBSET Call
  PROVE  [runs |-> f, marks |-> k, timers |-> t, calls |-> d] \in Mem
BY DEF Mem

\* WithCall adds one call to a memory and changes nothing else.
LEMMA WithCallFacts ==
  ASSUME NEW m \in Mem, NEW r \in Runs, NEW at \in Stages, NEW by \in Causes
  PROVE  LET n == WithCall(m, r, at, by)
             x == [run |-> r, at |-> at, by |-> by]
         IN /\ n \in Mem /\ x \in Call
            /\ n.runs = m.runs /\ n.marks = m.marks /\ n.timers = m.timers
            /\ n.calls = m.calls \cup {x}
<1>1. [run |-> r, at |-> at, by |-> by] \in Call
  BY DEF Call
<1> QED BY <1>1 DEF WithCall, Mem

\* A call is taken out.
LEMMA WithoutFacts ==
  ASSUME NEW m \in Mem, NEW c
  PROVE  LET n == [m EXCEPT !.calls = @ \ {c}]
         IN /\ n \in Mem
            /\ n.runs = m.runs /\ n.marks = m.marks /\ n.timers = m.timers
            /\ n.calls = m.calls \ {c}
BY DEF Mem

\* What the cases of resumeSubagentRun tell of the run.
LEMMA ResumeCases ==
  ASSUME NEW m \in Mem, NEW r \in Runs
  PROVE  LET k == ResumeCase(m, r)
             e == m.runs[r]
         IN /\ k \in {"nothing", "prune", "giveup", "backoff", "wait", "mark", "announce"}
            /\ k # "nothing" => Present(m, r) /\ r \notin m.marks
            /\ k \notin {"nothing", "prune"} => ~e.done
            /\ k = "giveup" => e.tries >= MaxTries \/ ~Expects(r)
            /\ k = "mark" => e.quiet = "steer"
            /\ k = "announce" => Ended(m, r) /\ ~e.handled
            /\ k = "nothing" => r \in m.marks \/ ~Present(m, r) \/ e.done \/ e.handled
            /\ k = "wait" => ~Ended(m, r)
BY DEF ResumeCase

\* resumeSubagentRun for several runs makes a memory of a memory.
LEMMA ResumeTypes ==
  ASSUME NEW m \in Mem, NEW Q \in SUBSET Runs
  PROVE  Resume(m, Q) \in Mem
<1> DEFINE In(k) == {r \in Q : ResumeCase(m, r) = k}
           f == [r \in Runs |->
                   IF r \in In("prune")
                   THEN [m.runs[r] EXCEPT !.fate = "pruned", !.ended = "error",
                                          !.handled = TRUE, !.done = TRUE]
                   ELSE IF r \in In("giveup") THEN [m.runs[r] EXCEPT !.done = TRUE]
                   ELSE IF r \in In("announce") THEN [m.runs[r] EXCEPT !.handled = TRUE]
                   ELSE m.runs[r]]
           M == (m.marks \ In("prune")) \cup UNION {In(k) : k \in {"backoff", "wait", "mark", "announce"}}
           T == m.timers \cup (In("backoff") \X {"backoff"})
           C == m.calls \cup [run : In("wait"), at : {"wait"}, by : {"wait"}]
                        \cup [run : In("announce"), at : {"announce"}, by : {"cleanup"}]
<1>1. f \in [Runs -> Rec]
  <2>1. ASSUME NEW e \in Rec
        PROVE  /\ [e EXCEPT !.fate = "pruned", !.ended = "error", !.handled = TRUE, !.done = TRUE] \in Rec
               /\ [e EXCEPT !.done = TRUE] \in Rec /\ [e EXCEPT !.handled = TRUE] \in Rec
    BY DEF Rec, Fates
  <2> QED BY <2>1, MemFacts
<1>2. \A k : In(k) \subseteq Runs
  OBVIOUS
<1>3. M \in SUBSET Runs /\ T \in SUBSET (Runs \X Timers)
  BY <1>2, MemFacts DEF Timers
<1>4. C \in SUBSET Call
  BY <1>2, MemFacts DEF Call, Stages, Causes
<1> QED BY <1>1, <1>3, <1>4, MakeMem DEF Resume

\* What resuming the runs of Q makes of the run r.
LEMMA ResumeFacts ==
  ASSUME NEW m \in Mem, NEW Q \in SUBSET Runs, NEW r \in Runs
  PROVE  LET n == Resume(m, Q)
             k == IF r \in Q THEN ResumeCase(m, r) ELSE "nothing"
         IN /\ n.runs[r] =
                 CASE k = "prune"    -> [m.runs[r] EXCEPT !.fate = "pruned", !.ended = "error",
                                                          !.handled = TRUE, !.done = TRUE]
                   [] k = "giveup"   -> [m.runs[r] EXCEPT !.done = TRUE]
                   [] k = "announce" -> [m.runs[r] EXCEPT !.handled = TRUE]
                   [] OTHER          -> m.runs[r]
            /\ r \in n.marks <=> \/ r \in m.marks /\ k # "prune"
                                 \/ k \in {"backoff", "wait", "mark", "announce"}
            /\ \A t : <<r, t>> \in n.timers <=> <<r, t>> \in m.timers \/ (k = "backoff" /\ t = "backoff")
            /\ \A c \in Call : c.run = r /\ c.at # "wait" =>
                 (c \in n.calls <=> \/ c \in m.calls
                                    \/ k = "announce" /\ c = [run |-> r, at |-> "announce", by |-> "cleanup"])
            /\ m.calls \subseteq n.calls
<1> DEFINE In(k) == {q \in Q : ResumeCase(m, q) = k}
           n == Resume(m, Q)
           k == IF r \in Q THEN ResumeCase(m, r) ELSE "nothing"
<1>1. \A j : j # "nothing" => (r \in In(j) <=> k = j)
  OBVIOUS
<1>2. n.runs[r] =
        CASE k = "prune"    -> [m.runs[r] EXCEPT !.fate = "pruned", !.ended = "error",
                                                 !.handled = TRUE, !.done = TRUE]
          [] k = "giveup"   -> [m.runs[r] EXCEPT !.done = TRUE]
          [] k = "announce" -> [m.runs[r] EXCEPT !.handled = TRUE]
          [] OTHER          -> m.runs[r]
  <2>1. n.runs[r] =
          IF r \in In("prune")
          THEN [m.runs[r] EXCEPT !.fate = "pruned", !.ended = "error", !.handled = TRUE, !.done = TRUE]
          ELSE IF r \in In("giveup") THEN [m.runs[r] EXCEPT !.done = TRUE]
          ELSE IF r \in In("announce") THEN [m.runs[r] EXCEPT !.handled = TRUE]
          ELSE m.runs[r]
    BY DEF Resume
  <2> HIDE DEF n, k, In
  <2> QED BY <1>1, <2>1
<1>3. r \in n.marks <=> (r \in m.marks /\ k # "prune") \/ k \in {"backoff", "wait", "mark", "announce"}
  <2>1. n.marks = (m.marks \ In("prune")) \cup UNION {In(j) : j \in {"backoff", "wait", "mark", "announce"}}
    BY DEF Resume
  <2> HIDE DEF n, k, In
  <2> QED BY <1>1, <2>1
<1>4. \A t : <<r, t>> \in n.timers <=> <<r, t>> \in m.timers \/ (k = "backoff" /\ t = "backoff")
  <2>1. n.timers = m.timers \cup (In("backoff") \X {"backoff"})
    BY DEF Resume
  <2> HIDE DEF n, k, In
  <2> QED BY <1>1, <2>1
<1>5. /\ m.calls \subseteq n.calls
      /\ \A c \in Call : c.run = r /\ c.at # "wait" =>
           (c \in n.calls <=> \/ c \in m.calls
                              \/ k = "announce" /\ c = [run |-> r, at |-> "announce", by |-> "cleanup"])
  <2>1. n.calls = m.calls \cup [run : In("wait"), at : {"wait"}, by : {"wait"}]
                          \cup [run : In("announce"), at : {"announce"}, by : {"cleanup"}]
    BY DEF Resume
  <2> HIDE DEF n, k, In
  <2>2. ASSUME NEW c \in Call, c.run = r, c.at # "wait", c \in n.calls, c \notin m.calls
        PROVE  k = "announce" /\ c = [run |-> r, at |-> "announce", by |-> "cleanup"]
    <3>1. c \in [run : In("announce"), at : {"announce"}, by : {"cleanup"}]
      BY <2>1, <2>2
    <3> QED BY <3>1, <2>2, <1>1
  <2>3. ASSUME k = "announce"
        PROVE  [run |-> r, at |-> "announce", by |-> "cleanup"] \in n.calls
    BY <2>1, <2>3, <1>1
  <2> QED BY <2>1, <2>2, <2>3
<1> QED BY <1>2, <1>3, <1>4, <1>5

\* A completion-mode run that is resumed unmarked is settled, or announced, or waits
\* for its back-off.
TakenUp(m, n, r) ==
  Present(n, r) /\ Ended(n, r) /\ Expects(r) /\ ~n.runs[r].done /\ ~n.runs[r].handled
    /\ r \notin m.marks /\ n.runs[r].quiet # "steer" => <<r, "backoff">> \in n.timers

\* resumeSubagentRun moves the runs it is called for, and no other.
LEMMA Resumed ==
  ASSUME NEW m \in Mem, NEW Q \in SUBSET Runs, NEW r \in Runs
  PROVE  LET n == Resume(m, Q)
         IN /\ n \in Mem /\ Moved(m, n, r)
            /\ r \notin Q => Same(m, n, r)
            /\ r \in Q => TakenUp(m, n, r)
            /\ m.calls \subseteq n.calls
<1> DEFINE n == Resume(m, Q)
           k == IF r \in Q THEN ResumeCase(m, r) ELSE "nothing"
           e == m.runs[r]
           x == [run |-> r, at |-> "announce", by |-> "cleanup"]
<1>1. n \in Mem
  BY ResumeTypes
<1>2. /\ n.runs[r] =
           CASE k = "prune"    -> [e EXCEPT !.fate = "pruned", !.ended = "error",
                                            !.handled = TRUE, !.done = TRUE]
             [] k = "giveup"   -> [e EXCEPT !.done = TRUE]
             [] k = "announce" -> [e EXCEPT !.handled = TRUE]
             [] OTHER          -> e
      /\ r \in n.marks <=> \/ r \in m.marks /\ k # "prune"
                           \/ k \in {"backoff", "wait", "mark", "announce"}
      /\ \A t : <<r, t>> \in n.timers <=> <<r, t>> \in m.timers \/ (k = "backoff" /\ t = "backoff")
      /\ \A c \in Call : c.run = r /\ c.at # "wait" =>
           (c \in n.calls <=> c \in m.calls \/ (k = "announce" /\ c = x))
      /\ m.calls \subseteq n.calls
  BY ResumeFacts
<1>3. /\ k \in {"nothing", "prune", "giveup", "backoff", "wait", "mark", "announce"}
      /\ k # "nothing" => Present(m, r) /\ r \notin m.marks
      /\ k \notin {"nothing", "prune"} => ~e.done
      /\ k = "giveup" => e.tries >= MaxTries \/ ~Expects(r)
      /\ k = "mark" => e.quiet = "steer"
      /\ k = "announce" => Ended(m, r) /\ ~e.handled
      /\ r \in Q /\ k = "nothing" => r \in m.marks \/ ~Present(m, r) \/ e.done \/ e.handled
      /\ k = "wait" => ~Ended(m, r)
  BY ResumeCases
<1>4. e \in Rec
  BY MemFacts
<1>5. r \notin Q => k = "nothing"
  OBVIOUS
<1>6. x \in Call /\ x.run = r /\ x.at = "announce" /\ n.calls \subseteq Call /\ m.calls \subseteq Call
  BY <1>1, MemFacts DEF Call, Stages, Causes
<1> HIDE DEF n, k, x
<1>7. /\ n.runs[r].hooked = e.hooked /\ n.runs[r].quiet = e.quiet /\ n.runs[r].tries = e.tries
      /\ k = "prune" => n.runs[r].fate = "pruned"
      /\ k # "prune" => n.runs[r].fate = e.fate /\ n.runs[r].ended = e.ended
      /\ k = "giveup" => n.runs[r].done /\ n.runs[r].handled = e.handled
      /\ k = "announce" => n.runs[r].handled /\ n.runs[r].done = e.done
      /\ k \notin {"prune", "giveup", "announce"} => n.runs[r] = e
  BY <1>2, <1>4 DEF Rec
<1> HIDE DEF e
<1>8. Moved(m, n, r)
  <2>1. \A c \in m.calls : c.run = r /\ c.at # "wait" => c \in n.calls
    BY <1>2
  <2>2. \/ n.runs[r].fate = m.runs[r].fate
        \/ Present(m, r) /\ n.runs[r].fate \in {"pruned", "replaced", "archived"}
    BY <1>3, <1>7 DEF e
  <2>3. ASSUME Present(n, r)
        PROVE  k # "prune"
    BY <2>3, <1>7 DEF Present
  <2>4. ASSUME Present(n, r)
        PROVE  /\ n.runs[r].ended = m.runs[r].ended
               /\ m.runs[r].handled => n.runs[r].handled
               /\ m.runs[r].done => n.runs[r].done
               /\ n.runs[r].done /\ ~m.runs[r].done => ~Expects(r) \/ m.runs[r].tries >= MaxTries
    BY <2>3, <2>4, <1>3, <1>7 DEF e
  <2>5. ASSUME Present(n, r), n.runs[r].handled, ~m.runs[r].handled
        PROVE  Announcing(n, r)
    <3>1. k = "announce"
      BY <2>3, <2>5, <1>7 DEF e
    <3>2. x \in n.calls
      BY <3>1, <1>2, <1>6
    <3> QED BY <3>2, <1>6 DEF Announcing, Announces
  <2>6. ASSUME Present(n, r), r \in n.marks, Ended(n, r), ~n.runs[r].done, ~n.runs[r].handled
        PROVE  r \in m.marks \/ <<r, "backoff">> \in n.timers \/ n.runs[r].quiet = "steer"
    <3>1. k # "announce" /\ k # "prune" /\ k # "wait"
      BY <2>6, <1>7, <1>3 DEF Present, Ended, e
    <3> QED BY <2>6, <3>1, <1>2, <1>3, <1>7 DEF e
  <2>7. ASSUME NEW c \in n.calls, c.run = r, c.at # "wait", c \notin m.calls
        PROVE  /\ c = [run |-> r, at |-> "announce", by |-> "cleanup"]
               /\ Present(m, r) /\ Ended(m, r) /\ ~m.runs[r].handled
               /\ Present(n, r) => n.runs[r].handled
    <3>1. k = "announce" /\ c = x
      BY <2>7, <1>2, <1>6
    <3> QED BY <3>1, <1>3, <1>7 DEF e, x
  <2>8. \A t \in {"retry", "backoff"} : <<r, t>> \in m.timers => <<r, t>> \in n.timers
    BY <1>2
  <2> QED BY <2>1, <2>2, <2>4, <2>5, <2>6, <2>7, <2>8, <1>7 DEF Moved, e
<1>9. r \notin Q => Same(m, n, r)
  BY <1>2, <1>5, <1>7 DEF Same, e
<1>10. r \in Q => TakenUp(m, n, r)
  <2> SUFFICES ASSUME r \in Q, Present(n, r), Ended(n, r), ~n.runs[r].done, ~n.runs[r].handled,
                      r \notin m.marks, n.runs[r].quiet # "steer"
               PROVE  <<r, "backoff">> \in n.timers
    BY DEF TakenUp
  <2>1. k \notin {"prune", "giveup", "announce"}
    BY <1>7 DEF Present
  <2>2. k \notin {"mark", "wait", "nothing"}
    BY <2>1, <1>3, <1>7 DEF Present, Ended, e
  <2> QED BY <2>1, <2>2, <1>2, <1>3
<1> QED BY <1>1, <1>2, <1>8, <1>9, <1>10 DEF n

\* The awaited calls of the run r are the same.
SameCalls(m, n, r) == \A c \in Call : c.run = r /\ c.at # "wait" => (c \in n.calls <=> c \in m.calls)

\* retryDeferredCompletedAnnounces moves runs, but not the one whose clean-up has ended.
LEMMA Deferring ==
  ASSUME NEW m \in Mem, NEW x \in Runs
  PROVE  LET n == RetryDeferred(m, x)
         IN n \in Mem /\ Same(m, n, x) /\ \A r \in Runs : Moved(m, n, r)
<1> DEFINE Q == {r \in Runs \ {x} : /\ Present(m, r) /\ Ended(m, r)
                                    /\ ~m.runs[r].done /\ ~m.runs[r].handled
                                    /\ m.runs[r].quiet # "steer"}
           X == {r \in Q : ~Expects(r) /\ m.runs[r].expired}
           f == [r \in Runs |-> [m.runs[r] EXCEPT !.done = @ \/ r \in X]]
           o == [m EXCEPT !.runs = f, !.marks = @ \ (Q \ X)]
           n == Resume(o, Q \ X)
<1>1. n = RetryDeferred(m, x)
  BY DEF RetryDeferred
<1>2. f \in [Runs -> Rec]
  <2>1. ASSUME NEW r \in Runs
        PROVE  [m.runs[r] EXCEPT !.done = @ \/ r \in X] \in Rec
    <3> DEFINE d == m.runs[r].done \/ r \in X
    <3>1. m.runs[r] \in Rec
      BY MemFacts
    <3>2. d \in BOOLEAN
      OBVIOUS
    <3> HIDE DEF d, X
    <3>3. [m.runs[r] EXCEPT !.done = d] \in Rec
      BY <3>1, <3>2 DEF Rec
    <3>4. d = (m.runs[r].done \/ r \in X)
      BY DEF d
    <3> QED BY <3>3, <3>4
  <2> QED BY <2>1
<1>3. /\ o \in Mem /\ o.runs = f /\ o.marks = m.marks \ (Q \ X)
      /\ o.timers = m.timers /\ o.calls = m.calls
  BY <1>2 DEF Mem
<1>4. Q \subseteq Runs \ {x} /\ X \subseteq Q /\ \A r \in X : ~Expects(r)
  OBVIOUS
<1>5. ASSUME NEW r \in Runs
      PROVE  /\ f[r].fate = m.runs[r].fate /\ f[r].ended = m.runs[r].ended
             /\ f[r].handled = m.runs[r].handled /\ f[r].hooked = m.runs[r].hooked
             /\ f[r].quiet = m.runs[r].quiet /\ f[r].tries = m.runs[r].tries
             /\ f[r].done <=> m.runs[r].done \/ r \in X
             /\ r \notin X => f[r] = m.runs[r]
  <2>1. m.runs[r] \in Rec
    BY MemFacts
  <2> DEFINE d == m.runs[r].done \/ r \in X
             g == [m.runs[r] EXCEPT !.done = d]
  <2>2. f[r] = g
    OBVIOUS
  <2>3. d \in BOOLEAN /\ (d <=> m.runs[r].done \/ r \in X) /\ (r \notin X => d = m.runs[r].done)
    <3>1. m.runs[r].done \in BOOLEAN
      BY <2>1 DEF Rec
    <3> HIDE DEF X
    <3> QED BY <3>1, Zenon
  <2> HIDE DEF X, f, d
  <2>4. /\ g.fate = m.runs[r].fate /\ g.ended = m.runs[r].ended
        /\ g.handled = m.runs[r].handled /\ g.hooked = m.runs[r].hooked
        /\ g.quiet = m.runs[r].quiet /\ g.tries = m.runs[r].tries
        /\ g.done = d
        /\ d = m.runs[r].done => g = m.runs[r]
    BY <2>1 DEF Rec
  <2> HIDE DEF g
  <2> QED BY <2>2, <2>3, <2>4
<1> HIDE DEF f, Q, X
<1>6. ASSUME NEW r \in Runs
      PROVE  Moved(m, o, r) /\ (r = x => Same(m, o, r))
  <2>1. r = x => r \notin X /\ r \notin Q \ X
    BY <1>4
  <2>2. Moved(m, o, r)
    BY <1>3, <1>4, <1>5 DEF Moved, Present, Ended
  <2> QED BY <1>3, <1>5, <2>1, <2>2 DEF Same
<1> HIDE DEF o
<1>7. n \in Mem /\ \A r \in Runs : Moved(o, n, r) /\ (r \notin Q \ X => Same(o, n, r))
  BY <1>3, <1>4, Resumed
<1> HIDE DEF n
<1>8. \A r \in Runs : Moved(m, n, r)
  BY <1>3, <1>6, <1>7, MovedMoved
<1>9. Same(m, n, x)
  <2>1. Same(m, o, x) /\ Same(o, n, x)
    BY <1>4, <1>6, <1>7
  <2> QED BY <2>1 DEF Same
<1> QED BY <1>1, <1>7, <1>8, <1>9

\* The clean-up of r is booked: the record is deleted, or kept as complete.
Booked(m, n, r) ==
  /\ SameCalls(m, n, r)
  /\ \/ Present(m, r) /\ n.runs[r] = [m.runs[r] EXCEPT !.fate = "settled"]
     \/ n.runs[r] = [m.runs[r] EXCEPT !.done = TRUE]

\* completeCleanupBookkeeping books the run, and moves the others.
LEMMA Bookkeeping ==
  ASSUME NEW m \in Mem, NEW x \in Runs, NEW delete \in BOOLEAN
  PROVE  LET n == Bookkeep(m, x, delete)
         IN n \in Mem /\ Booked(m, n, x) /\ \A r \in Runs \ {x} : Moved(m, n, r)
<1> DEFINE a == [m EXCEPT !.runs[x].fate = "settled", !.timers = @ \ {<<x, "grace">>}]
           b == [m EXCEPT !.runs[x].done = TRUE]
           o == IF delete /\ Present(m, x) THEN a ELSE b
           n == RetryDeferred(o, x)
<1>1. n = Bookkeep(m, x, delete)
  BY DEF Bookkeep
<1>2. m.runs[x] \in Rec
  BY MemFacts
<1>3. [m.runs[x] EXCEPT !.fate = "settled"] \in Rec /\ [m.runs[x] EXCEPT !.done = TRUE] \in Rec
  BY <1>2 DEF Rec, Fates
<1>4. /\ a \in Mem /\ a.runs = [m.runs EXCEPT ![x] = [m.runs[x] EXCEPT !.fate = "settled"]]
      /\ a.marks = m.marks /\ a.timers = m.timers \ {<<x, "grace">>} /\ a.calls = m.calls
  BY <1>3 DEF Mem
<1>5. /\ b \in Mem /\ b.runs = [m.runs EXCEPT ![x] = [m.runs[x] EXCEPT !.done = TRUE]]
      /\ b.marks = m.marks /\ b.timers = m.timers /\ b.calls = m.calls
  BY <1>3 DEF Mem
<1>6. /\ o \in Mem /\ o.calls = m.calls /\ o.marks = m.marks
      /\ \A r \in Runs \ {x} : o.runs[r] = m.runs[r]
      /\ \A r \in Runs : \A k \in {"retry", "backoff"} : <<r, k>> \in o.timers <=> <<r, k>> \in m.timers
      /\ \/ Present(m, x) /\ o.runs[x] = [m.runs[x] EXCEPT !.fate = "settled"]
         \/ o.runs[x] = [m.runs[x] EXCEPT !.done = TRUE]
  <2>1. CASE delete /\ Present(m, x)
    <3>1. o = a
      BY <2>1
    <3> HIDE DEF a, b, o
    <3> QED BY <2>1, <3>1, <1>4, MemFacts
  <2>2. CASE ~(delete /\ Present(m, x))
    <3>1. o = b
      BY <2>2
    <3> HIDE DEF a, b, o
    <3> QED BY <3>1, <1>5, MemFacts
  <2> QED BY <2>1, <2>2
<1> HIDE DEF o, a, b
<1>7. n \in Mem /\ Same(o, n, x) /\ \A r \in Runs : Moved(o, n, r)
  BY <1>6, Deferring
<1> HIDE DEF n
<1>8. Booked(m, n, x)
  BY <1>6, <1>7 DEF Booked, SameCalls, Same
<1>9. ASSUME NEW r \in Runs \ {x}
      PROVE  Moved(m, n, r)
  <2>1. Same(m, o, r)
    BY <1>6 DEF Same
  <2> QED BY <1>6, <1>7, <2>1, SameMoved, MovedMoved
<1> QED BY <1>1, <1>7, <1>8, <1>9

\* The clean-up of r begins with its announcement, unless it has begun or is over.
LEMMA CleanupStarts ==
  ASSUME NEW m \in Mem, NEW x \in Runs
  PROVE  LET n == StartCleanup(m, x)
             a == [run |-> x, at |-> "announce", by |-> "cleanup"]
         IN /\ n \in Mem /\ a \in Call
            /\ \A r \in Runs \ {x} : Same(m, n, r)
            /\ \/ n = m /\ (~Present(m, x) \/ m.runs[x].done \/ m.runs[x].handled)
               \/ /\ Present(m, x) /\ ~m.runs[x].done /\ ~m.runs[x].handled
                  /\ n.runs = [m.runs EXCEPT ![x] = [m.runs[x] EXCEPT !.handled = TRUE]]
                  /\ n.calls = m.calls \cup {a}
<1> DEFINE o == [m EXCEPT !.runs[x].handled = TRUE]
           n == WithCall(o, x, "announce", "cleanup")
           a == [run |-> x, at |-> "announce", by |-> "cleanup"]
<1>1. [m.runs[x] EXCEPT !.handled = TRUE] \in Rec
  <2>1. m.runs[x] \in Rec
    BY MemFacts
  <2> QED BY <2>1 DEF Rec
<1>2. /\ o \in Mem /\ o.runs = [m.runs EXCEPT ![x] = [m.runs[x] EXCEPT !.handled = TRUE]]
      /\ o.marks = m.marks /\ o.timers = m.timers /\ o.calls = m.calls
  BY <1>1 DEF Mem
<1> HIDE DEF o
<1>3. /\ n \in Mem /\ a \in Call /\ n.runs = o.runs /\ n.marks = m.marks /\ n.timers = m.timers
      /\ n.calls = m.calls \cup {a}
  <2>1. "announce" \in Stages /\ "cleanup" \in Causes
    BY DEF Stages, Causes
  <2> HIDE DEF n
  <2>2. n = WithCall(o, x, "announce", "cleanup")
    BY DEF n
  <2> QED BY <1>2, <2>1, <2>2, WithCallFacts
<1> HIDE DEF n
<1>4. \A r \in Runs \ {x} : Same(m, n, r) /\ Same(m, m, r)
  BY <1>2, <1>3, MemFacts DEF Same
<1>5. CASE Present(m, x) /\ ~m.runs[x].done /\ ~m.runs[x].handled
  <2>1. StartCleanup(m, x) = n
    BY <1>5 DEF StartCleanup, n, o
  <2>2. n.runs = [m.runs EXCEPT ![x] = [m.runs[x] EXCEPT !.handled = TRUE]]
    BY <1>2, <1>3
  <2> HIDE DEF a
  <2> QED BY <1>3, <1>4, <1>5, <2>1, <2>2 DEF a
<1>6. CASE ~(Present(m, x) /\ ~m.runs[x].done /\ ~m.runs[x].handled)
  <2>1. StartCleanup(m, x) = m
    BY <1>6 DEF StartCleanup
  <2> QED BY <1>3, <1>4, <1>6, <2>1
<1> QED BY <1>5, <1>6

-----------------------------------------------------------------------------
(* A step: what becomes of the memory, of the hooks counted and of the disk *)

\* Tidy makes a memory of a memory, and begins no call.
LEMMA TidyTypes ==
  ASSUME NEW m \in Mem
  PROVE  Tidy(m) \in Mem /\ Tidy(m).calls \subseteq m.calls
<1> DEFINE gone == {q \in Runs : ~Present(m, q)}
           held == {c.run : c \in {c \in m.calls : c.at # "wait"}}
           K(e) == [NoRecord EXCEPT !.fate = e.fate, !.tries = e.tries, !.quiet = e.quiet,
                                    !.hooked = e.hooked, !.cleanup = e.cleanup]
           L(e) == [NoRecord EXCEPT !.fate = e.fate, !.tries = e.tries]
           Rest(e, q) == IF q \in held THEN K(e) ELSE L(e)
           f == [q \in Runs |-> IF q \in gone THEN Rest(m.runs[q], q) ELSE m.runs[q]]
           n == [m EXCEPT !.runs = f, !.marks = @ \ gone,
                          !.timers = @ \ (gone \X Timers),
                          !.calls = @ \ [run : gone, at : {"wait"}, by : {"wait"}]]
<1>1. n = Tidy(m)
  BY DEF Tidy
<1>2. ASSUME NEW e \in Rec
      PROVE  K(e) \in Rec /\ L(e) \in Rec
  <2>1. NoRecord \in Rec
    BY DEF Rec, NoRecord, Fates
  <2> QED BY <2>1 DEF Rec
<1>3. f \in [Runs -> Rec]
  <2> HIDE DEF K, L, gone, held
  <2>1. \A q \in Runs : (IF q \in gone THEN Rest(m.runs[q], q) ELSE m.runs[q]) \in Rec
    BY <1>2, MemFacts
  <2> QED BY <2>1
<1> HIDE DEF f, K, L, held
<1>4. n \in Mem /\ n.calls \subseteq m.calls
  BY <1>3 DEF Mem
<1> QED BY <1>1, <1>4

\* What Tidy keeps of a run: everything that is still read.
LEMMA Tidied ==
  ASSUME NEW m \in Mem, NEW r \in Runs
  PROVE  LET n == Tidy(m)
         IN /\ n \in Mem
            /\ Present(m, r) => n.runs[r] = m.runs[r]
            /\ n.runs[r].fate = m.runs[r].fate /\ n.runs[r].tries = m.runs[r].tries
            /\ Held(m, r) => n.runs[r].quiet = m.runs[r].quiet /\ n.runs[r].hooked = m.runs[r].hooked
            /\ n.runs[r].hooked => m.runs[r].hooked
            /\ \A c \in Call : c.run = r /\ c.at # "wait" => (c \in n.calls <=> c \in m.calls)
            /\ n.calls \subseteq m.calls
            /\ Present(m, r) => /\ r \in n.marks <=> r \in m.marks
                                /\ \A k : <<r, k>> \in n.timers <=> <<r, k>> \in m.timers
<1> DEFINE gone == {q \in Runs : ~Present(m, q)}
           held == {c.run : c \in {c \in m.calls : c.at # "wait"}}
           K(e) == [NoRecord EXCEPT !.fate = e.fate, !.tries = e.tries, !.quiet = e.quiet,
                                    !.hooked = e.hooked, !.cleanup = e.cleanup]
           L(e) == [NoRecord EXCEPT !.fate = e.fate, !.tries = e.tries]
           Rest(e, q) == IF q \in held THEN K(e) ELSE L(e)
           f == [q \in Runs |-> IF q \in gone THEN Rest(m.runs[q], q) ELSE m.runs[q]]
           n == [m EXCEPT !.runs = f, !.marks = @ \ gone,
                          !.timers = @ \ (gone \X Timers),
                          !.calls = @ \ [run : gone, at : {"wait"}, by : {"wait"}]]
<1>1. n = Tidy(m)
  BY DEF Tidy
<1>2. ASSUME NEW e \in Rec
      PROVE  /\ K(e) \in Rec /\ L(e) \in Rec
             /\ K(e).fate = e.fate /\ K(e).tries = e.tries /\ K(e).quiet = e.quiet /\ K(e).hooked = e.hooked
             /\ L(e).fate = e.fate /\ L(e).tries = e.tries /\ L(e).hooked = FALSE
  <2>1. NoRecord \in Rec /\ NoRecord.hooked = FALSE
    BY DEF Rec, NoRecord, Fates
  <2>2. /\ K(e) \in Rec /\ K(e).fate = e.fate /\ K(e).tries = e.tries
        /\ K(e).quiet = e.quiet /\ K(e).hooked = e.hooked
    BY <2>1 DEF Rec
  <2>3. L(e) \in Rec /\ L(e).fate = e.fate /\ L(e).tries = e.tries /\ L(e).hooked = FALSE
    BY <2>1 DEF Rec
  <2> HIDE DEF K, L
  <2> QED BY <2>2, <2>3
<1>3. f \in [Runs -> Rec]
  <2> HIDE DEF K, L, gone, held
  <2>1. \A q \in Runs : (IF q \in gone THEN Rest(m.runs[q], q) ELSE m.runs[q]) \in Rec
    BY <1>2, MemFacts
  <2> QED BY <2>1
<1>4. f[r] = IF Present(m, r) THEN m.runs[r] ELSE IF Held(m, r) THEN K(m.runs[r]) ELSE L(m.runs[r])
  <2>1. r \in held <=> Held(m, r)
    BY DEF Held
  <2> HIDE DEF K, L, held
  <2> QED BY <2>1
<1> HIDE DEF f, K, L, held
<1>5. /\ n \in Mem /\ n.runs = f /\ n.marks = m.marks \ gone
      /\ n.timers = m.timers \ (gone \X Timers)
      /\ n.calls = m.calls \ [run : gone, at : {"wait"}, by : {"wait"}]
  BY <1>3 DEF Mem
<1> HIDE DEF n
<1>6. m.runs[r] \in Rec
  BY MemFacts
<1>7. /\ Present(m, r) => n.runs[r] = m.runs[r]
      /\ n.runs[r].fate = m.runs[r].fate /\ n.runs[r].tries = m.runs[r].tries
      /\ Held(m, r) => n.runs[r].quiet = m.runs[r].quiet /\ n.runs[r].hooked = m.runs[r].hooked
      /\ n.runs[r].hooked => m.runs[r].hooked
  <2>1. CASE Present(m, r)
    <3>1. n.runs[r] = m.runs[r]
      BY <2>1, <1>4, <1>5
    <3> QED BY <3>1, Zenon
  <2>2. CASE ~Present(m, r) /\ Held(m, r)
    <3>1. n.runs[r] = K(m.runs[r])
      BY <2>2, <1>4, <1>5
    <3>2. K(m.runs[r]).hooked = m.runs[r].hooked
      BY <1>2, <1>6
    <3>3. n.runs[r].hooked = m.runs[r].hooked
      BY <3>1, <3>2, Zenon
    <3> QED BY <2>2, <3>1, <3>3, <1>2, <1>6
  <2>3. CASE ~Present(m, r) /\ ~Held(m, r)
    <3>1. n.runs[r] = L(m.runs[r])
      BY <2>3, <1>4, <1>5
    <3> QED BY <2>3, <3>1, <1>2, <1>6
  <2> QED BY <2>1, <2>2, <2>3
<1>8. /\ \A c \in Call : c.run = r /\ c.at # "wait" => (c \in n.calls <=> c \in m.calls)
      /\ n.calls \subseteq m.calls
  <2>1. \A c \in [run : gone, at : {"wait"}, by : {"wait"}] : c.at = "wait"
    OBVIOUS
  <2> QED BY <1>5, <2>1
<1>9. Present(m, r) => /\ r \in n.marks <=> r \in m.marks
                       /\ \A k : <<r, k>> \in n.timers <=> <<r, k>> \in m.timers
  BY <1>5
<1> QED BY <1>1, <1>5, <1>7, <1>8, <1>9

\* Tidy keeps the invariant of a run in memory.
LEMMA TidyGood ==
  ASSUME NEW m \in Mem, NEW r \in Runs, NEW tl, NEW em, NEW ct, Good(m, tl, em, ct, r)
  PROVE  Good(Tidy(m), tl, em, ct, r)
<1> DEFINE n == Tidy(m)
<1>1. /\ n \in Mem
      /\ Present(m, r) => n.runs[r] = m.runs[r]
      /\ n.runs[r].fate = m.runs[r].fate /\ n.runs[r].tries = m.runs[r].tries
      /\ Held(m, r) => n.runs[r].quiet = m.runs[r].quiet /\ n.runs[r].hooked = m.runs[r].hooked
      /\ n.runs[r].hooked => m.runs[r].hooked
      /\ \A c \in Call : c.run = r /\ c.at # "wait" => (c \in n.calls <=> c \in m.calls)
      /\ n.calls \subseteq m.calls
      /\ Present(m, r) => /\ r \in n.marks <=> r \in m.marks
                          /\ \A k : <<r, k>> \in n.timers <=> <<r, k>> \in m.timers
  BY Tidied
<1> HIDE DEF n
<1>2. /\ n.calls \subseteq Call /\ m.calls \subseteq Call
      /\ Present(n, r) <=> Present(m, r)
      /\ Unused(n, r) <=> Unused(m, r)
  BY <1>1, MemFacts DEF Present, Unused
<1>3. /\ Announcing(n, r) <=> Announcing(m, r)
      /\ Held(n, r) <=> Held(m, r)
      /\ HookInFlight(n, r) <=> HookInFlight(m, r)
      /\ \A c \in n.calls : Announces(c, r) => c \in m.calls
  BY <1>1, <1>2 DEF Announcing, Announces, Held, HookInFlight
<1>4. Guarded(m, tl, r) /\ Hooked(m, em, r)
  BY DEF Good
<1>5. Guarded(n, tl, r)
  BY <1>1, <1>2, <1>3, <1>4 DEF Guarded, Ended, Announces
<1>6. Hooked(n, em, r)
  <2>1. HookInFlight(m, r) => Held(m, r)
    BY DEF HookInFlight, Held
  <2> QED BY <1>1, <1>2, <1>3, <1>4, <2>1 DEF Hooked
<1>7. Moving(m, r) => Moving(n, r)
  BY <1>1, <1>2, <1>3 DEF Moving, Handling, Waiting, Steered, Ended
<1>8. Told(m, em, r) => Told(n, em, r)
  BY <1>1, <1>2 DEF Told
<1> QED BY <1>5, <1>6, <1>7, <1>8 DEF Good, n

\* Tidy keeps the invariant of a run on disk.
LEMMA TidyStored ==
  ASSUME NEW m \in Mem, NEW r \in Runs, NEW d, NEW tl, NEW em, NEW ct, Stored(d, m, tl, em, ct, r)
  PROVE  Stored(d, Tidy(m), tl, em, ct, r)
<1> DEFINE n == Tidy(m)
<1>1. /\ n \in Mem
      /\ Present(m, r) => n.runs[r] = m.runs[r]
      /\ n.runs[r].fate = m.runs[r].fate
      /\ n.calls \subseteq m.calls
  BY Tidied
<1> HIDE DEF n
<1>2. (Present(n, r) <=> Present(m, r)) /\ (Announcing(n, r) => Announcing(m, r))
  BY <1>1 DEF Present, Announcing
<1>3. Stored(d, n, tl, em, ct, r)
  BY <1>1, <1>2 DEF Stored
<1> QED BY <1>3 DEF n

\* A record that is saved tells all that is needed of it.
LEMMA SavedStored ==
  ASSUME NEW m \in Mem, NEW r \in Runs, NEW tl, NEW em, NEW ct, Good(m, tl, em, ct, r)
  PROVE  Stored(Saved(m)[r], m, tl, em, ct, r)
<1> DEFINE d == Saved(m)[r]
<1>1. d = IF Present(m, r) THEN m.runs[r] ELSE NoRecord
  BY DEF Saved
<1> HIDE DEF d
<1>2. NoRecord.tries = 0 /\ MaxTries \in Nat
  BY ConstantTypes DEF NoRecord
<1> HIDE DEF NoRecord
<1>3. Stored(d, m, tl, em, ct, r)
  BY <1>1, <1>2 DEF Stored, Good, Guarded, Told, Ended
<1> QED BY <1>3 DEF d

\* What is saved are records, of the runs that are present.
LEMMA SavedTypes ==
  ASSUME NEW m \in Mem
  PROVE  /\ Saved(m) \in [Runs -> Rec]
         /\ \A r \in Runs : Saved(m)[r].fate = "here" <=> Present(m, r)
<1>1. NoRecord \in Rec /\ NoRecord.fate = "none"
  BY ConstantTypes DEF NoRecord, Rec, Fates
<1> HIDE DEF NoRecord
<1> QED BY <1>1, MemFacts DEF Saved, Present

\* What was known of a run that is resumed stays known if its record is the same.
LEMMA StoredMoved ==
  ASSUME NEW m \in Mem, NEW n \in Mem, NEW r \in Runs, Moved(m, n, r), n.runs[r] = m.runs[r],
         NEW d, NEW tl, NEW em, NEW ct, Stored(d, m, tl, em, ct, r)
  PROVE  Stored(d, n, tl, em, ct, r)
<1>1. Present(n, r) <=> Present(m, r)
  BY DEF Present
<1>2. Present(n, r) /\ Announcing(n, r) => Announcing(m, r)
  <2>1. ASSUME Present(n, r), NEW c \in n.calls, Announces(c, r)
        PROVE  c \in m.calls
    BY <2>1 DEF Moved, Announces
  <2> QED BY <2>1 DEF Announcing
<1> HIDE DEF Moved
<1> QED BY <1>1, <1>2 DEF Stored

\* The hooks of r that begin with the memory m.
NewHooks(m, r) == {c \in m.calls \ reg.calls : c.run = r /\ c.at = "hook"}

\* Hooks that begin with a step are finitely many, so that counting them is sound.
LEMMA FewNewHooks ==
  ASSUME NEW m \in Mem, NEW r \in Runs
  PROVE  IsFiniteSet(NewHooks(m, r))
<1> DEFINE h(b) == [run |-> r, at |-> "hook", by |-> b]
           F == {h("wait"), h("listener"), h("kill"), h("cleanup"), h("success"), h("giveup"), h("control")}
<1>1. IsFiniteSet(F)
  <2> HIDE DEF h
  <2>1. \A a, b : IsFiniteSet({a, b})
    <3> SUFFICES ASSUME NEW a, NEW b PROVE IsFiniteSet({a, b})
      OBVIOUS
    <3>1. IsFiniteSet({a} \cup {b})
      BY FS_Singleton, FS_AddElement
    <3>2. {a, b} = {a} \cup {b}
      OBVIOUS
    <3> QED BY <3>1, <3>2
  <2>2. \A a, b, c, d : IsFiniteSet({a, b} \cup {c, d})
    BY <2>1, FS_Union
  <2>3. IsFiniteSet({h("wait"), h("listener")} \cup {h("kill"), h("cleanup")})
    BY <2>2
  <2>4. IsFiniteSet({h("success"), h("giveup")} \cup {h("control"), h("control")})
    BY <2>2
  <2>5. F = ({h("wait"), h("listener")} \cup {h("kill"), h("cleanup")})
            \cup ({h("success"), h("giveup")} \cup {h("control"), h("control")})
    OBVIOUS
  <2> HIDE DEF F
  <2> QED BY <2>3, <2>4, <2>5, FS_Union
<1>2. NewHooks(m, r) \subseteq F
  <2>1. ASSUME NEW c \in NewHooks(m, r)
        PROVE  c \in F
    <3>1. c \in Call /\ c.run = r /\ c.at = "hook"
      BY MemFacts DEF NewHooks
    <3>2. c.by \in Causes /\ c = h(c.by)
      BY <3>1 DEF Call
    <3> HIDE DEF h
    <3> QED BY <3>2 DEF Causes
  <2> QED BY <2>1
<1> HIDE DEF F
<1> QED BY <1>1, <1>2, FS_Subset

\* Become counts the hooks that begin.
LEMMA HooksCount ==
  ASSUME reg \in Mem, emitted \in [Runs -> Nat], NEW m \in Mem, Become(m), NEW r \in Runs
  PROVE  /\ emitted'[r] \in Nat /\ emitted'[r] >= emitted[r]
         /\ NewHooks(m, r) = {} <=> emitted'[r] = emitted[r]
         /\ \A c : NewHooks(m, r) = {c} => emitted'[r] = emitted[r] + 1
<1>1. emitted'[r] = emitted[r] + Cardinality(NewHooks(m, r)) /\ emitted[r] \in Nat
  BY DEF Become, NewHooks
<1>2. Cardinality(NewHooks(m, r)) \in Nat /\ (Cardinality(NewHooks(m, r)) = 0 <=> NewHooks(m, r) = {})
  BY FewNewHooks, FS_CardinalityType, FS_EmptySet
<1>3. \A c : NewHooks(m, r) = {c} => Cardinality(NewHooks(m, r)) = 1
  BY FS_Singleton
<1> DEFINE N == NewHooks(m, r)
           k == Cardinality(N)
<1>4. emitted'[r] = emitted[r] + k /\ emitted[r] \in Nat /\ k \in Nat
  BY <1>1, <1>2
<1>5. (k = 0 <=> N = {}) /\ \A c : N = {c} => k = 1
  BY <1>2, <1>3
<1> HIDE DEF N, k
<1>6. /\ emitted'[r] \in Nat /\ emitted'[r] >= emitted[r]
      /\ k = 0 <=> emitted'[r] = emitted[r]
      /\ k = 1 => emitted'[r] = emitted[r] + 1
  BY <1>4
<1>7. /\ N = {} <=> emitted'[r] = emitted[r]
      /\ \A c : N = {c} => emitted'[r] = emitted[r] + 1
  BY <1>5, <1>6
<1> QED BY <1>6, <1>7 DEF N

\* No hook of a resumed run begins, so none is counted.
LEMMA MovedNoHook ==
  ASSUME NEW m \in Mem, NEW r \in Runs, Moved(reg, m, r)
  PROVE  NewHooks(m, r) = {}
BY DEF Moved, NewHooks

-----------------------------------------------------------------------------
(* The inductive invariant *)

Rest ==
  /\ alive \subseteq Runs /\ sessions \subseteq Sessions
  /\ told \in [Runs -> Nat] /\ crashed \in BOOLEAN /\ incidents \in 0..MaxIncidents

Types ==
  reg \in Mem /\ disk \in [Runs -> Rec] /\ emitted \in [Runs -> Nat] /\ cut \subseteq Runs /\ Rest

\* The disk has the records of the runs that are present.
OnDisk == \A r \in Runs : Present(reg, r) <=> disk[r].fate = "here"

HooksCounted == \A r \in Runs : HookInFlight(reg, r) => emitted[r] >= 1

\* A session's first run is gone when its wake continuation is recorded, and only
\* other runs wake one.
WakeInv(m) ==
  /\ \A w \in WakeRuns \cap Tame, f \in FirstRuns :
       SessionOf[w] = SessionOf[f] /\ ~Unused(m, w) => ~Unused(m, f) /\ ~Present(m, f)
  /\ \A c \in m.calls : c.at = "woken" => c.run \notin WakeRuns

GoodRuns ==
  \A r \in Tame : Good(reg, told, emitted, cut, r) /\ Stored(disk[r], reg, told, emitted, cut, r)

IInv == Types /\ OnDisk /\ HooksCounted /\ WakeInv(reg) /\ GoodRuns

\* The disk after a step: what is not one of X is saved, or was not changed.
Written(m, X) ==
  /\ disk' \in [Runs -> Rec]
  /\ \A r \in Runs : disk'[r].fate = "here" <=> Present(m, r)
  /\ \A r \in Runs \ X : disk'[r] = Saved(m)[r] \/ (disk'[r] = disk[r] /\ m.runs[r] = reg.runs[r])

\* Save writes all records, or none when none has changed.
LEMMA SaveWrites ==
  ASSUME Types, OnDisk, NEW m \in Mem, Save(m) \/ disk' = Saved(m), NEW X
  PROVE  Written(m, X) /\ \A r \in Runs : \/ disk'[r] = Saved(m)[r]
                                          \/ disk'[r] = disk[r] /\ m.runs[r] = reg.runs[r]
<1>1. CASE disk' = Saved(m)
  BY <1>1, SavedTypes DEF Written
<1>2. CASE m.runs = reg.runs /\ disk' = disk
  BY <1>2 DEF Written, Types, OnDisk, Present
<1> QED BY <1>1, <1>2 DEF Save

\* A step that writes nothing and moves no record off or onto the disk.
LEMMA NothingWritten ==
  ASSUME Types, OnDisk, NEW m \in Mem, NEW X, UNCHANGED disk,
         \A r \in Runs : Present(m, r) <=> Present(reg, r),
         \A r \in Runs \ X : m.runs[r] = reg.runs[r]
  PROVE  Written(m, X)
BY DEF Written, Types, OnDisk

\* The order of a session's first run and its wake continuation is kept.
LEMMA WakeKept ==
  ASSUME reg \in Mem, WakeInv(reg), NEW m \in Mem, NEW X \in SUBSET Runs,
         \A r \in Runs \ X : Moved(reg, m, r),
         \A r \in X : (Unused(m, r) <=> Unused(reg, r)) /\ (Present(m, r) => Present(reg, r)),
         \A c \in m.calls : c.run \in X /\ c.at = "woken" => c \in reg.calls
  PROVE  WakeInv(m)
<1>1. \A r \in Runs : (Unused(m, r) <=> Unused(reg, r)) /\ (Present(m, r) => Present(reg, r))
  BY DEF Moved, Unused, Present
<1>2. \A c \in m.calls : c.at = "woken" => c \in reg.calls
  <2>1. ASSUME NEW c \in m.calls, c.at = "woken", c.run \notin X
        PROVE  c \in reg.calls
    <3>1. c.run \in Runs \ X
      BY <2>1, MemFacts DEF Call
    <3>2. Moved(reg, m, c.run)
      BY <3>1
    <3> SUFFICES ASSUME c \notin reg.calls
                 PROVE  FALSE
      OBVIOUS
    <3>3. c = [run |-> c.run, at |-> "announce", by |-> "cleanup"]
      BY <2>1, <3>2 DEF Moved
    <3> QED BY <2>1, <3>3
  <2> QED BY <2>1
<1>3. FirstRuns \subseteq Runs /\ WakeRuns \subseteq Runs
  BY RegistryAssumption
<1> QED BY <1>1, <1>2, <1>3 DEF WakeInv

\* A step that acts on the runs of X, and leaves the others alone but for what a
\* resume may do.  It may cut off some of X.
LEMMA CuttingStep ==
  ASSUME IInv, NEW m \in Mem, NEW X \in SUBSET Runs, Become(m), Rest',
         cut \subseteq cut', cut' \subseteq cut \cup X,
         \A r \in Runs \ X : Moved(reg, m, r) /\ told'[r] = told[r],
         Written(m, X), WakeInv(m),
         \A r \in X \cap Tame :
           /\ Good(m, told', emitted', cut', r)
           /\ disk'[r] = Saved(m)[r] \/ Stored(disk'[r], m, told', emitted', cut', r)
  PROVE  IInv'
<1>1. reg' = Tidy(m)
  BY DEF Become
<1>2. reg \in Mem /\ emitted \in [Runs -> Nat] /\ disk \in [Runs -> Rec]
  BY DEF IInv, Types
<1>3. emitted' \in [Runs -> Nat]
  <2>1. \A r \in Runs : emitted'[r] \in Nat
    BY <1>2, HooksCount
  <2>2. emitted' = [r \in Runs |-> emitted'[r]]
    BY DEF Become
  <2> QED BY <2>1, <2>2
<1>4. Types'
  <2>1. Tidy(m) \in Mem
    BY TidyTypes
  <2>2. cut' \subseteq Runs
    BY DEF IInv, Types
  <2> QED BY <1>1, <1>3, <2>1, <2>2 DEF Types, Written
<1>5. ASSUME NEW r \in Runs
      PROVE  /\ Present(reg', r) <=> Present(m, r)
             /\ Unused(reg', r) <=> Unused(m, r)
  BY <1>1, Tidied DEF Present, Unused
<1>6. OnDisk'
  BY <1>5 DEF OnDisk, Written, Present
<1>7. HooksCounted'
  <2> SUFFICES ASSUME NEW r \in Runs, NEW c \in reg'.calls, c.run = r, c.at = "hook"
               PROVE  emitted'[r] >= 1
    BY DEF HooksCounted, HookInFlight
  <2>1. c \in m.calls
    BY <1>1, Tidied
  <2>2. emitted[r] \in Nat /\ emitted'[r] \in Nat
    BY <1>2, <1>3
  <2>3. CASE c \in reg.calls
    <3>1. emitted[r] >= 1
      BY <2>3 DEF IInv, HooksCounted, HookInFlight
    <3> QED BY <1>2, <2>2, <3>1, HooksCount
  <2>4. CASE c \notin reg.calls
    <3>1. NewHooks(m, r) # {}
      BY <2>1, <2>4 DEF NewHooks
    <3> QED BY <1>2, <2>2, <3>1, HooksCount
  <2> QED BY <2>3, <2>4
<1>8. WakeInv(reg')
  <2>1. \A c \in reg'.calls : c \in m.calls
    <3>1. CASE Runs = {}
      BY <3>1, <1>1 DEF Tidy, Mem
    <3>2. CASE Runs # {}
      BY <3>2, <1>1, Tidied
    <3> QED BY <3>1, <3>2
  <2>2. FirstRuns \subseteq Runs /\ WakeRuns \subseteq Runs
    BY RegistryAssumption
  <2> QED BY <1>5, <2>1, <2>2 DEF WakeInv
<1>9. ASSUME NEW r \in Tame
      PROVE  Good(m, told', emitted', cut', r) /\ Stored(disk'[r], m, told', emitted', cut', r)
  <2>0. r \in Runs
    BY DEF Tame
  <2>1. CASE r \in X
    BY <2>0, <2>1, SavedStored
  <2>2. CASE r \notin X
    <3>1. /\ Good(reg, told, emitted, cut, r) /\ Stored(disk[r], reg, told, emitted, cut, r)
          /\ Moved(reg, m, r) /\ told'[r] = told[r]
      BY <2>0, <2>2 DEF IInv, GoodRuns
    <3>2. emitted'[r] = emitted[r]
      BY <2>0, <1>2, <3>1, MovedNoHook, HooksCount
    <3>3. Good(m, told, emitted, cut, r)
      BY <2>0, <1>2, <3>1, MovedGood
    <3>7. r \in cut' <=> r \in cut
      BY <2>2
    <3>4. Good(m, told', emitted', cut', r)
      BY <3>1, <3>2, <3>3, <3>7 DEF Good, Guarded, Hooked, Told
    <3>5. CASE disk'[r] = Saved(m)[r]
      BY <2>0, <3>4, <3>5, SavedStored
    <3>6. CASE disk'[r] = disk[r] /\ m.runs[r] = reg.runs[r]
      <4>1. Stored(disk[r], m, told, emitted, cut, r)
        BY <2>0, <1>2, <3>1, <3>6, StoredMoved
      <4>2. Stored(disk[r], m, told', emitted', cut', r)
        BY <3>1, <3>2, <3>7, <4>1 DEF Stored
      <4> QED BY <3>4, <3>6, <4>2
    <3> QED BY <2>0, <2>2, <3>5, <3>6 DEF Written
  <2> QED BY <2>1, <2>2
<1>10. GoodRuns'
  <2>1. ASSUME NEW r \in Tame
        PROVE  Good(reg', told', emitted', cut', r) /\ Stored(disk'[r], reg', told', emitted', cut', r)
    <3>1. r \in Runs
      BY DEF Tame
    <3> QED BY <1>1, <1>9, <3>1, TidyGood, TidyStored
  <2> QED BY <2>1 DEF GoodRuns, Tame
<1> QED BY <1>4, <1>6, <1>7, <1>8, <1>10 DEF IInv, WakeInv

\* The same, of a step that cuts off none.
LEMMA StepInv ==
  ASSUME IInv, NEW m \in Mem, NEW X \in SUBSET Runs, Become(m), Rest', cut' = cut,
         \A r \in Runs \ X : Moved(reg, m, r) /\ told'[r] = told[r],
         Written(m, X), WakeInv(m),
         \A r \in X \cap Tame :
           /\ Good(m, told', emitted', cut, r)
           /\ disk'[r] = Saved(m)[r] \/ Stored(disk'[r], m, told', emitted', cut, r)
  PROVE  IInv'
<1>1. \A r \in X \cap Tame :
        /\ Good(m, told', emitted', cut', r)
        /\ disk'[r] = Saved(m)[r] \/ Stored(disk'[r], m, told', emitted', cut', r)
  OBVIOUS
<1>2. cut \subseteq cut' /\ cut' \subseteq cut \cup X
  OBVIOUS
<1> QED BY <1>1, <1>2, CuttingStep

-----------------------------------------------------------------------------
(* What the functions do to the run they work on, and to the others *)

\* n is made of m by work on the run x.
Frame(m, n, x) ==
  /\ n \in Mem
  /\ \A r \in Runs \ {x} : Moved(m, n, r)
  /\ Unused(n, x) <=> Unused(m, x)
  /\ Present(n, x) => Present(m, x)
  /\ \A c \in n.calls : c.run = x /\ c.at = "woken" => c \in m.calls

\* Two changes to one run, one after the other, frame the other runs as one does.
LEMMA FrameFrame ==
  ASSUME NEW m \in Mem, NEW n, NEW o, NEW x \in Runs, Frame(m, n, x), Frame(n, o, x)
  PROVE  Frame(m, o, x)
BY MovedMoved DEF Frame

\* The records, marks, timers and calls of other runs are the same.
Local(m, n, x) ==
  /\ n \in Mem
  /\ \A r \in Runs \ {x} : Same(m, n, r)
  /\ n.runs[x].fate = m.runs[x].fate
  /\ \A c \in n.calls : c.run = x /\ c.at = "woken" => c \in m.calls

\* A change to one run that leaves the others alone frames them.
LEMMA LocalFrame ==
  ASSUME NEW m \in Mem, NEW n, NEW x \in Runs, Local(m, n, x)
  PROVE  Frame(m, n, x)
BY SameMoved DEF Local, Frame, Unused, Present

\* Two changes to one run that leave the others alone.
LEMMA LocalLocal ==
  ASSUME NEW m \in Mem, NEW n, NEW o, NEW x \in Runs, Local(m, n, x), Local(n, o, x)
  PROVE  Local(m, o, x)
BY DEF Local, Same

\* A call of x is over.
LEMMA Without ==
  ASSUME NEW m \in Mem, NEW c \in m.calls
  PROVE  LET n == [m EXCEPT !.calls = @ \ {c}]
         IN /\ Local(m, n, c.run)
            /\ n \in Mem /\ n.runs = m.runs /\ n.marks = m.marks /\ n.timers = m.timers
            /\ n.calls = m.calls \ {c}
<1> DEFINE n == [m EXCEPT !.calls = @ \ {c}]
<1>1. /\ n \in Mem /\ n.runs = m.runs /\ n.marks = m.marks /\ n.timers = m.timers
      /\ n.calls = m.calls \ {c}
  BY WithoutFacts
<1> HIDE DEF n
<1>2. Local(m, n, c.run)
  BY <1>1, MemFacts DEF Local, Same
<1> QED BY <1>1, <1>2 DEF n

\* A call of the run x disturbs no other run.
LEMMA CallFrame ==
  ASSUME NEW m \in Mem, NEW x \in Runs, NEW at \in Stages, NEW by \in Causes, at # "woken"
  PROVE  LET n == WithCall(m, x, at, by)
         IN /\ Local(m, n, x)
            /\ n \in Mem /\ n.runs = m.runs /\ n.marks = m.marks /\ n.timers = m.timers
            /\ [run |-> x, at |-> at, by |-> by] \in Call
            /\ n.calls = m.calls \cup {[run |-> x, at |-> at, by |-> by]}
<1> DEFINE n == WithCall(m, x, at, by)
           a == [run |-> x, at |-> at, by |-> by]
<1>1. /\ n \in Mem /\ n.runs = m.runs /\ n.marks = m.marks /\ n.timers = m.timers
      /\ a \in Call /\ n.calls = m.calls \cup {a}
  BY WithCallFacts
<1>2. a.run = x /\ a.at = at
  OBVIOUS
<1> HIDE DEF n, a
<1>3. Local(m, n, x)
  BY <1>1, <1>2, MemFacts DEF Local, Same
<1> QED BY <1>1, <1>3 DEF n, a

\* completeCleanupBookkeeping of x frames the other runs.
LEMMA BookkeepFrame ==
  ASSUME NEW m \in Mem, NEW x \in Runs, NEW delete \in BOOLEAN
  PROVE  Frame(m, Bookkeep(m, x, delete), x) /\ Booked(m, Bookkeep(m, x, delete), x)
<1> DEFINE n == Bookkeep(m, x, delete)
<1>1. n \in Mem /\ Booked(m, n, x) /\ \A r \in Runs \ {x} : Moved(m, n, r)
  BY Bookkeeping
<1> HIDE DEF n
<1>2. m.runs[x] \in Rec
  BY MemFacts
<1>3. \/ Present(m, x) /\ n.runs[x].fate = "settled"
      \/ n.runs[x].fate = m.runs[x].fate
  BY <1>1, <1>2 DEF Booked, Rec
<1>4. \A c \in n.calls : c.run = x /\ c.at = "woken" => c \in m.calls
  BY <1>1, MemFacts DEF Booked, SameCalls
<1>5. Frame(m, n, x)
  BY <1>1, <1>3, <1>4 DEF Frame, Unused, Present
<1> QED BY <1>1, <1>5 DEF n

\* startSubagentAnnounceCleanupFlow of x frames the other runs.
LEMMA CleanupFrame ==
  ASSUME NEW m \in Mem, NEW x \in Runs
  PROVE  LET n == StartCleanup(m, x)
         IN /\ Local(m, n, x) /\ Frame(m, n, x)
            /\ \A c \in n.calls : c.run = x /\ c.at = "hook" => c \in m.calls
            /\ (Present(m, x) => Ended(m, x)) => Moved(m, n, x)
            /\ Present(n, x) => n.runs[x].handled \/ n.runs[x].done
            /\ Present(n, x) /\ ~m.runs[x].handled /\ n.runs[x].handled => Announcing(n, x)
<1> DEFINE n == StartCleanup(m, x)
           a == [run |-> x, at |-> "announce", by |-> "cleanup"]
           e == [m.runs[x] EXCEPT !.handled = TRUE]
<1>1. /\ n \in Mem /\ a \in Call
      /\ \A r \in Runs \ {x} : Same(m, n, r)
      /\ \/ n = m /\ (~Present(m, x) \/ m.runs[x].done \/ m.runs[x].handled)
         \/ /\ Present(m, x) /\ ~m.runs[x].done /\ ~m.runs[x].handled
            /\ n.runs = [m.runs EXCEPT ![x] = e]
            /\ n.calls = m.calls \cup {a}
  BY CleanupStarts
<1> HIDE DEF n
<1>2. CASE n = m /\ (~Present(m, x) \/ m.runs[x].done \/ m.runs[x].handled)
  <2>1. Same(m, n, x)
    BY <1>2 DEF Same
  <2>2. Local(m, n, x)
    BY <1>1, <1>2 DEF Local
  <2> QED BY <1>2, <2>1, <2>2, LocalFrame, SameMoved DEF n
<1>3. CASE /\ Present(m, x) /\ ~m.runs[x].done /\ ~m.runs[x].handled
           /\ n.runs = [m.runs EXCEPT ![x] = e]
           /\ n.calls = m.calls \cup {a}
  <2>1. m.runs[x] \in Rec
    BY MemFacts
  <2>2. /\ e.fate = m.runs[x].fate /\ e.ended = m.runs[x].ended /\ e.done = m.runs[x].done
        /\ e.quiet = m.runs[x].quiet /\ e.tries = m.runs[x].tries /\ e.hooked = m.runs[x].hooked
        /\ e.handled = TRUE
    BY <2>1 DEF Rec
  <2>3. n.runs[x] = e
    BY <1>3, MemFacts
  <2>4. a \in n.calls /\ a.run = x /\ a.at = "announce"
    BY <1>3
  <2>5. Announcing(n, x)
    BY <2>4 DEF Announcing, Announces
  <2> HIDE DEF e
  <2>6. Local(m, n, x)
    BY <1>1, <1>3, <2>2, <2>3, <2>4 DEF Local
  <2>7. \A c \in n.calls : c.run = x /\ c.at = "hook" => c \in m.calls
    BY <1>3, <2>4
  <2>8. ASSUME Present(m, x) => Ended(m, x)
        PROVE  Moved(m, n, x)
    <3>1. m.runs[x].done \in BOOLEAN
      BY <2>1 DEF Rec
    <3>2. /\ n.runs[x].fate = m.runs[x].fate /\ n.runs[x].ended = m.runs[x].ended
          /\ n.runs[x].done = m.runs[x].done
          /\ n.runs[x].quiet = m.runs[x].quiet /\ n.runs[x].tries = m.runs[x].tries
          /\ n.runs[x].hooked = m.runs[x].hooked
          /\ n.runs[x].handled
      BY <2>2, <2>3, Zenon
    <3>3. \A c \in n.calls : c.at # "wait" /\ c \notin m.calls => c = a
      BY <1>3
    <3>4. \A k : <<x, k>> \in n.timers <=> <<x, k>> \in m.timers
      BY <1>3 DEF n, StartCleanup, WithCall, Mem
    <3> QED BY <1>3, <2>5, <2>8, <3>2, <3>3, <3>4 DEF Moved, Present
  <2>9. n.runs[x].handled
    BY <2>2, <2>3, Zenon
  <2> QED BY <2>5, <2>6, <2>7, <2>8, <2>9, LocalFrame DEF n
<1> QED BY <1>1, <1>2, <1>3

\* What follows the hook of x frames the other runs.
LEMMA AfterHookFrame ==
  ASSUME NEW m \in Mem, NEW x \in Runs, NEW by \in Causes
  PROVE  LET n == AfterHook(m, x, by)
         IN /\ Frame(m, n, x)
            /\ \A c \in n.calls : c.run = x /\ c.at = "hook" => c \in m.calls
            /\ by \in {"success", "giveup"} => Booked(m, n, x)
            /\ by = "kill" => n = m
            /\ by \notin {"success", "giveup", "kill"} => n = StartCleanup(m, x)
<1>1. CASE by \in {"success", "giveup"}
  <2>1. PICK delete \in BOOLEAN : AfterHook(m, x, by) = Bookkeep(m, x, delete)
    <3>1. Deletes(m, x) \in BOOLEAN
      BY DEF Deletes
    <3>2. CASE by = "success"
      BY <3>1, <3>2 DEF AfterHook
    <3>3. CASE by = "giveup"
      BY <3>3 DEF AfterHook
    <3> QED BY <1>1, <3>2, <3>3
  <2> DEFINE n == Bookkeep(m, x, delete)
  <2>2. Frame(m, n, x) /\ Booked(m, n, x)
    BY BookkeepFrame
  <2> HIDE DEF n
  <2>3. \A c \in n.calls : c.run = x /\ c.at = "hook" => c \in m.calls
    BY <2>2, MemFacts DEF Frame, Booked, SameCalls
  <2> QED BY <1>1, <2>1, <2>2, <2>3 DEF n
<1>2. CASE by = "kill"
  <2>1. AfterHook(m, x, by) = m
    BY <1>2 DEF AfterHook
  <2>2. \A r \in Runs : Same(m, m, r)
    BY DEF Same
  <2>3. Frame(m, m, x)
    BY <2>2, SameMoved DEF Frame
  <2> QED BY <1>2, <2>1, <2>3
<1>3. CASE by \notin {"success", "giveup", "kill"}
  <2>1. AfterHook(m, x, by) = StartCleanup(m, x)
    BY <1>3 DEF AfterHook
  <2> QED BY <1>3, <2>1, CleanupFrame
<1> QED BY <1>1, <1>2, <1>3

\* The hook of x begins with n.
Begins(m, n, x, by) ==
  /\ ~m.runs[x].hooked /\ ~HookInFlight(m, x)
  /\ n = WithCall(m, x, "hook", by)

\* emitSubagentEndedHookOnce of x frames the other runs.
LEMMA EmitFrame ==
  ASSUME NEW m \in Mem, NEW x \in Runs, NEW by \in Causes
  PROVE  LET n == EmitHookOnce(m, x, by)
         IN /\ Frame(m, n, x)
            /\ \/ Begins(m, n, x, by)
               \/ n = AfterHook(m, x, by) /\ (m.runs[x].hooked \/ HookInFlight(m, x))
<1>1. CASE m.runs[x].hooked \/ HookInFlight(m, x)
  BY <1>1, AfterHookFrame DEF EmitHookOnce
<1>2. CASE ~(m.runs[x].hooked \/ HookInFlight(m, x))
  <2>1. "hook" \in Stages
    BY DEF Stages
  <2>2. EmitHookOnce(m, x, by) = WithCall(m, x, "hook", by)
    BY <1>2 DEF EmitHookOnce
  <2>3. Local(m, WithCall(m, x, "hook", by), x)
    BY <2>1, CallFrame
  <2> QED BY <1>2, <2>2, <2>3, LocalFrame DEF Begins
<1> QED BY <1>1, <1>2

\* The hooks in flight of x are those of the state.
SameHooks(m, x) == \A c \in Call : c.run = x /\ c.at = "hook" => (c \in m.calls <=> c \in reg.calls)

\* No hook of x begins when the hooks in flight are the same.
LEMMA SameHooksNone ==
  ASSUME NEW m \in Mem, NEW n \in Mem, NEW x \in Runs, SameHooks(m, x),
         \A c \in n.calls : c.run = x /\ c.at = "hook" => c \in m.calls
  PROVE  NewHooks(n, x) = {}
BY MemFacts DEF SameHooks, NewHooks

\* A run that is booked after its hook has begun keeps its invariant.
LEMMA BookedGood ==
  ASSUME NEW m \in Mem, NEW n \in Mem, NEW x \in Runs, Booked(m, n, x)
  PROVE  /\ \A tl : Guarded(m, tl, x) => Guarded(n, tl, x)
         /\ \A em : Hooked(m, em, x) => Hooked(n, em, x)
         /\ \A em : em[x] = 1 => Told(n, em, x)
         /\ (Present(m, x) => Steered(m, x)) => Moving(n, x)
<1> DEFINE e == m.runs[x]
           f == n.runs[x]
<1>1. e \in Rec
  BY MemFacts
<1>2. /\ f.ended = e.ended /\ f.handled = e.handled /\ f.quiet = e.quiet
      /\ f.tries = e.tries /\ f.hooked = e.hooked
      /\ f.fate = e.fate \/ (e.fate = "here" /\ f.fate = "settled")
      /\ e.done => f.done
      /\ f.fate = "here" => f.done
  <2>1. CASE Present(m, x) /\ f = [e EXCEPT !.fate = "settled"]
    <3>1. f.done = e.done /\ f.handled = e.handled /\ f.hooked = e.hooked
      BY <1>1, <2>1 DEF Rec
    <3> QED BY <1>1, <2>1, <3>1 DEF Rec, Present
  <2>2. CASE f = [e EXCEPT !.done = TRUE]
    <3>1. f.done = TRUE /\ f.handled = e.handled /\ f.hooked = e.hooked
      BY <1>1, <2>2 DEF Rec
    <3> QED BY <1>1, <2>2, <3>1 DEF Rec
  <2> QED BY <2>1, <2>2 DEF Booked
<1>3. SameCalls(m, n, x) /\ n.calls \subseteq Call /\ m.calls \subseteq Call
  BY MemFacts DEF Booked
<1>4. /\ Announcing(n, x) <=> Announcing(m, x)
      /\ Held(n, x) <=> Held(m, x)
      /\ HookInFlight(n, x) <=> HookInFlight(m, x)
      /\ \A c \in n.calls : c.run = x /\ c.at # "wait" => c \in m.calls
      /\ \A c \in m.calls : c.run = x /\ c.at # "wait" => c \in n.calls
  BY <1>3 DEF Announcing, Announces, Held, HookInFlight, SameCalls
<1>5. /\ Present(n, x) => Present(m, x) /\ f.done
      /\ Unused(n, x) <=> Unused(m, x)
      /\ Ended(n, x) <=> Ended(m, x)
  BY <1>2 DEF Present, Unused, Ended
<1> HIDE DEF e, f
<1>6. ASSUME NEW tl, Guarded(m, tl, x)
      PROVE  Guarded(n, tl, x)
  BY <1>2, <1>4, <1>5, <1>6 DEF Guarded, Announces, e, f
<1>7. ASSUME NEW em, Hooked(m, em, x)
      PROVE  Hooked(n, em, x)
  BY <1>2, <1>4, <1>5, <1>7 DEF Hooked, e, f
<1>8. \A em : em[x] = 1 => Told(n, em, x)
  BY DEF Told
<1>9. (Present(m, x) => Steered(m, x)) => Moving(n, x)
  BY <1>2, <1>4, <1>5 DEF Moving, Handling, Waiting, Steered, e, f
<1> QED BY <1>6, <1>7, <1>8, <1>9

\* The hook of a run that has ended begins, or has begun; either way it is counted
\* once, and what follows it goes on.
LEMMA EmitGood ==
  ASSUME reg \in Mem, emitted \in [Runs -> Nat],
         NEW m \in Mem, NEW x \in Runs, NEW by \in Causes, NEW tl, SameHooks(m, x),
         Guarded(m, tl, x), Hooked(m, emitted, x),
         emitted[x] = 1 => m.runs[x].hooked \/ HookInFlight(m, x),
         Present(m, x) => Ended(m, x), ~Unused(m, x),
         Become(EmitHookOnce(m, x, by))
  PROVE  LET n == EmitHookOnce(m, x, by)
         IN /\ Guarded(n, tl, x) /\ Hooked(n, emitted', x) /\ emitted'[x] = 1
            /\ Told(n, emitted', x)
            /\ by \in {"success", "giveup"} /\ (Present(m, x) => m.runs[x].handled /\ Steered(m, x))
                 => Moving(n, x)
            /\ by = "kill" /\ (Present(m, x) => m.runs[x].done /\ Steered(m, x)) => Moving(n, x)
<1> DEFINE n == EmitHookOnce(m, x, by)
           h == [run |-> x, at |-> "hook", by |-> by]
<1>1. /\ Frame(m, n, x) /\ n \in Mem
      /\ \/ Begins(m, n, x, by)
         \/ n = AfterHook(m, x, by) /\ (m.runs[x].hooked \/ HookInFlight(m, x))
  BY EmitFrame DEF Frame
<1> HIDE DEF n
<1>2. Become(n)
  BY DEF n
<1>3. CASE Begins(m, n, x, by)
  <2>1. "hook" \in Stages
    BY DEF Stages
  <2>2. /\ n.runs = m.runs /\ n.marks = m.marks /\ n.timers = m.timers
        /\ h \in Call /\ n.calls = m.calls \cup {h}
    BY <1>3, <2>1, CallFrame DEF Begins
  <2>3. h.run = x /\ h.at = "hook" /\ h.by = by
    OBVIOUS
  <2> HIDE DEF h
  <2>4. h \notin m.calls /\ h \notin reg.calls
    BY <1>3, <2>2, <2>3 DEF Begins, HookInFlight, SameHooks
  <2>5. NewHooks(n, x) = {h}
    BY <2>2, <2>3, <2>4, MemFacts DEF NewHooks, SameHooks
  <2>6. emitted'[x] = 1 /\ emitted[x] = 0
    <3>1. emitted'[x] = emitted[x] + 1
      BY <1>1, <1>2, <2>5, HooksCount
    <3>2. emitted[x] = 0
      BY <1>3 DEF Begins, Hooked
    <3> QED BY <3>1, <3>2
  <2>7. /\ Present(n, x) <=> Present(m, x)
        /\ Unused(n, x) <=> Unused(m, x)
        /\ Ended(n, x) <=> Ended(m, x)
        /\ Announcing(n, x) <=> Announcing(m, x)
        /\ HookInFlight(n, x) /\ ~HookInFlight(m, x)
        /\ n.runs[x] = m.runs[x]
    BY <1>3, <2>2, <2>3 DEF Present, Unused, Ended, Announcing, Announces, HookInFlight, Begins
  <2>8. Guarded(n, tl, x)
    <3>1. \A c \in n.calls : Announces(c, x) => c \in m.calls
      BY <2>2, <2>3 DEF Announces
    <3>2. \A c \in n.calls : c.run = x /\ c.at \in {"freeze", "hook"} /\ Present(n, x) => Ended(n, x)
      BY <2>7
    <3> QED BY <2>7, <3>1, <3>2 DEF Guarded
  <2>9. Hooked(n, emitted', x)
    <3>1. ASSUME NEW c \in n.calls, c.run = x, c.at = "hook"
          PROVE  c = h
      BY <2>2, <2>7, <3>1 DEF HookInFlight
    <3> QED BY <1>3, <2>6, <2>7, <3>1 DEF Hooked, Begins
  <2>10. ASSUME by \in {"success", "giveup"}, Present(m, x) => m.runs[x].handled /\ Steered(m, x)
         PROVE  Moving(n, x)
    BY <2>2, <2>3, <2>7, <2>10 DEF Moving, Handling, Waiting, Steered
  <2>11. ASSUME Present(m, x) => m.runs[x].done /\ Steered(m, x)
         PROVE  Moving(n, x)
    BY <2>2, <2>7, <2>11 DEF Moving, Handling, Waiting, Steered
  <2> QED BY <2>6, <2>8, <2>9, <2>10, <2>11 DEF Told, n
<1>4. CASE n = AfterHook(m, x, by) /\ (m.runs[x].hooked \/ HookInFlight(m, x))
  <2>1. emitted[x] = 1
    BY <1>4 DEF Hooked
  <2>2. /\ \A c \in n.calls : c.run = x /\ c.at = "hook" => c \in m.calls
        /\ by \in {"success", "giveup"} => Booked(m, n, x)
        /\ by = "kill" => n = m
        /\ by \notin {"success", "giveup", "kill"} => n = StartCleanup(m, x)
    BY <1>4, AfterHookFrame
  <2>3. emitted'[x] = emitted[x]
    BY <1>1, <1>2, <2>2, SameHooksNone, HooksCount
  <2>4. Guarded(n, tl, x) /\ Hooked(n, emitted, x)
    <3>1. CASE by \in {"success", "giveup"}
      BY <1>1, <2>2, <3>1, BookedGood
    <3>2. CASE by = "kill"
      BY <2>2, <3>2
    <3>3. CASE by \notin {"success", "giveup", "kill"}
      <4>1. Moved(m, n, x)
        BY <2>2, <3>3, CleanupFrame
      <4> QED BY <1>1, <4>1, MovedGuarded, MovedHooked
    <3> QED BY <3>1, <3>2, <3>3
  <2>5. Hooked(n, emitted', x)
    BY <2>3, <2>4 DEF Hooked
  <2>6. ASSUME by \in {"success", "giveup"}, Present(m, x) => m.runs[x].handled /\ Steered(m, x)
        PROVE  Moving(n, x)
    BY <1>1, <2>2, <2>6, BookedGood
  <2>7. ASSUME by = "kill", Present(m, x) => m.runs[x].done /\ Steered(m, x)
        PROVE  Moving(n, x)
    BY <2>2, <2>7 DEF Moving, Handling, Waiting
  <2> QED BY <2>1, <2>3, <2>4, <2>5, <2>6, <2>7 DEF Told, n
<1> QED BY <1>1, <1>3, <1>4

\* Fields of the record of x that no argument needs differ, and its number of
\* attempts is t.
Tweak(m, o, x, t) ==
  /\ o \in Mem /\ o.marks = m.marks /\ o.timers = m.timers /\ o.calls = m.calls
  /\ \A r \in Runs \ {x} : o.runs[r] = m.runs[r]
  /\ o.runs[x].fate = m.runs[x].fate /\ o.runs[x].ended = m.runs[x].ended
  /\ o.runs[x].handled = m.runs[x].handled /\ o.runs[x].done = m.runs[x].done
  /\ o.runs[x].quiet = m.runs[x].quiet /\ o.runs[x].hooked = m.runs[x].hooked
  /\ o.runs[x].tries = t

\* A tweak of a tweak is one, with the attempts of the second.
LEMMA TweakTweak ==
  ASSUME NEW m \in Mem, NEW o, NEW p, NEW x \in Runs, NEW t, NEW u,
         Tweak(m, o, x, t), Tweak(o, p, x, u)
  PROVE  Tweak(m, p, x, u)
BY Zenon DEF Tweak

\* The tweaks that finalizeSubagentCleanup makes.
LEMMA Tweaks ==
  ASSUME NEW m \in Mem, NEW x \in Runs
  PROVE  LET t == m.runs[x].tries
         IN /\ Tweak(m, [m EXCEPT !.runs[x].wake = FALSE], x, t)
            /\ Tweak(m, [m EXCEPT !.runs[x].wake = TRUE], x, t)
            /\ Tweak(m, [m EXCEPT !.runs[x].tries = @ + 1], x, t + 1)
            /\ Tweak(m, [m EXCEPT !.runs[x].tries = @ + 1, !.runs[x].cooling = TRUE], x, t + 1)
<1> DEFINE e == m.runs[x]
<1>1. e \in Rec
  BY MemFacts
<1>2. ASSUME NEW f \in Rec, NEW t, f.fate = e.fate, f.ended = e.ended, f.handled = e.handled,
             f.done = e.done, f.quiet = e.quiet, f.hooked = e.hooked, f.tries = t
      PROVE  Tweak(m, [m EXCEPT !.runs = [@ EXCEPT ![x] = f]], x, t)
  <2> DEFINE o == [m EXCEPT !.runs = [@ EXCEPT ![x] = f]]
  <2>1. /\ o \in Mem /\ o.runs = [m.runs EXCEPT ![x] = f]
        /\ o.marks = m.marks /\ o.timers = m.timers /\ o.calls = m.calls
    BY <1>2 DEF Mem
  <2> HIDE DEF o
  <2>2. o.runs[x] = f /\ \A r \in Runs \ {x} : o.runs[r] = m.runs[r]
    BY <2>1, MemFacts
  <2>3. Tweak(m, o, x, t)
    BY <1>2, <2>1, <2>2, Zenon DEF Tweak, e
  <2> QED BY <2>3 DEF o
<1>3. ASSUME NEW b \in BOOLEAN
      PROVE  Tweak(m, [m EXCEPT !.runs[x].wake = b], x, e.tries)
  <2> DEFINE f == [e EXCEPT !.wake = b]
  <2>1. /\ f \in Rec /\ f.fate = e.fate /\ f.ended = e.ended /\ f.handled = e.handled
        /\ f.done = e.done /\ f.quiet = e.quiet /\ f.hooked = e.hooked /\ f.tries = e.tries
    BY <1>1, <1>3 DEF Rec
  <2>2. [m EXCEPT !.runs[x].wake = b] = [m EXCEPT !.runs = [@ EXCEPT ![x] = f]]
    BY DEF e
  <2> HIDE DEF f, e
  <2> QED BY <1>2, <2>1, <2>2
<1>4. Tweak(m, [m EXCEPT !.runs[x].tries = @ + 1], x, e.tries + 1)
  <2> DEFINE t == e.tries + 1
             f == [e EXCEPT !.tries = t]
  <2>1. t \in Nat
    BY <1>1 DEF Rec
  <2>2. [m EXCEPT !.runs[x].tries = @ + 1] = [m EXCEPT !.runs = [@ EXCEPT ![x] = f]]
    BY DEF e
  <2> HIDE DEF t, e
  <2>3. /\ f \in Rec /\ f.fate = e.fate /\ f.ended = e.ended /\ f.handled = e.handled
        /\ f.done = e.done /\ f.quiet = e.quiet /\ f.hooked = e.hooked /\ f.tries = t
    BY <1>1, <2>1 DEF Rec
  <2> HIDE DEF f
  <2>4. Tweak(m, [m EXCEPT !.runs = [@ EXCEPT ![x] = f]], x, t)
    BY <1>2, <2>3
  <2> QED BY <2>2, <2>4 DEF t
<1>5. Tweak(m, [m EXCEPT !.runs[x].tries = @ + 1, !.runs[x].cooling = TRUE], x, e.tries + 1)
  <2> DEFINE t == e.tries + 1
             f == [e EXCEPT !.tries = t, !.cooling = TRUE]
  <2>1. t \in Nat
    BY <1>1 DEF Rec
  <2>2. [m EXCEPT !.runs[x].tries = @ + 1, !.runs[x].cooling = TRUE] = [m EXCEPT !.runs = [@ EXCEPT ![x] = f]]
    <3>1. m.runs \in [Runs -> Rec] /\ m \in Mem
      BY MemFacts
    <3> QED BY <1>1, <3>1 DEF Mem, e
  <2> HIDE DEF t, e
  <2>3. /\ f \in Rec /\ f.fate = e.fate /\ f.ended = e.ended /\ f.handled = e.handled
        /\ f.done = e.done /\ f.quiet = e.quiet /\ f.hooked = e.hooked /\ f.tries = t
    BY <1>1, <2>1 DEF Rec
  <2> HIDE DEF f
  <2>4. Tweak(m, [m EXCEPT !.runs = [@ EXCEPT ![x] = f]], x, t)
    BY <1>2, <2>3
  <2> QED BY <2>2, <2>4 DEF t
<1> QED BY <1>3, <1>4, <1>5 DEF e

\* What a tweak of x leaves of it.
LEMMA TweakFacts ==
  ASSUME NEW m \in Mem, NEW o, NEW x \in Runs, NEW t, Tweak(m, o, x, t)
  PROVE  /\ o \in Mem /\ Local(m, o, x)
         /\ Present(o, x) <=> Present(m, x)
         /\ Unused(o, x) <=> Unused(m, x)
         /\ Ended(o, x) <=> Ended(m, x)
         /\ Announcing(o, x) <=> Announcing(m, x)
         /\ Held(o, x) <=> Held(m, x)
         /\ HookInFlight(o, x) <=> HookInFlight(m, x)
         /\ Steered(o, x) <=> Steered(m, x)
         /\ SameHooks(o, x) <=> SameHooks(m, x)
         /\ \A em : Hooked(m, em, x) => Hooked(o, em, x)
<1>1. o \in Mem /\ Local(m, o, x)
  BY DEF Tweak, Local, Same
<1>2. /\ Present(o, x) <=> Present(m, x)
      /\ Unused(o, x) <=> Unused(m, x)
      /\ Ended(o, x) <=> Ended(m, x)
      /\ Announcing(o, x) <=> Announcing(m, x)
      /\ Held(o, x) <=> Held(m, x)
      /\ HookInFlight(o, x) <=> HookInFlight(m, x)
      /\ Steered(o, x) <=> Steered(m, x)
      /\ SameHooks(o, x) <=> SameHooks(m, x)
  BY Zenon DEF Tweak, Present, Unused, Ended, Announcing, Held, HookInFlight, Steered, SameHooks
<1>3. ASSUME NEW em, Hooked(m, em, x)
      PROVE  Hooked(o, em, x)
  <2>1. o.calls = m.calls /\ o.runs[x].hooked = m.runs[x].hooked
    BY DEF Tweak
  <2> QED BY <1>2, <1>3, <2>1 DEF Hooked
<1> QED BY <1>1, <1>2, <1>3

\* The record that is tried again is no longer handled, nor marked.
LEMMA AgainFacts ==
  ASSUME NEW m \in Mem, NEW x \in Runs
  PROVE  LET n == Again(m, x)
         IN /\ n \in Mem /\ Local(m, n, x) /\ n.calls = m.calls
            /\ n.runs[x] = [m.runs[x] EXCEPT !.handled = FALSE, !.cooling = TRUE]
            /\ x \notin n.marks
            /\ Expects(x) => <<x, "retry">> \in n.timers
<1> DEFINE e == [m.runs[x] EXCEPT !.handled = FALSE, !.cooling = TRUE]
           o == [m EXCEPT !.runs[x].handled = FALSE, !.runs[x].cooling = TRUE, !.marks = @ \ {x}]
           p == [o EXCEPT !.timers = @ \cup {<<x, "retry">>}]
<1>1. e \in Rec /\ e.fate = m.runs[x].fate
  <2>1. m.runs[x] \in Rec
    BY MemFacts
  <2> QED BY <2>1 DEF Rec
<1>2. /\ o \in Mem /\ o.runs = [m.runs EXCEPT ![x] = e]
      /\ o.marks = m.marks \ {x} /\ o.timers = m.timers /\ o.calls = m.calls
  <2>1. m.runs \in [Runs -> Rec]
    BY MemFacts
  <2>2. o.runs = [m.runs EXCEPT ![x] = e]
    BY <2>1 DEF Mem
  <2> HIDE DEF e
  <2>3. [m.runs EXCEPT ![x] = e] \in [Runs -> Rec]
    BY <1>1, <2>1
  <2> QED BY <2>2, <2>3 DEF Mem
<1> HIDE DEF e, o
<1>3. /\ p \in Mem /\ p.runs = o.runs /\ p.marks = o.marks
      /\ p.timers = m.timers \cup {<<x, "retry">>} /\ p.calls = m.calls
  BY <1>2 DEF Mem, Timers
<1>4. Again(m, x) = IF Expects(x) THEN p ELSE o
  BY DEF Again, o
<1> HIDE DEF p
<1>5. ASSUME NEW n \in {o, p}
      PROVE  Local(m, n, x) /\ n.runs[x] = e
  <2>1. /\ n \in Mem /\ n.runs = [m.runs EXCEPT ![x] = e] /\ n.calls = m.calls
        /\ \A r \in Runs \ {x} : r \in n.marks <=> r \in m.marks
        /\ \A r \in Runs \ {x} : \A k \in {"retry", "backoff"} :
             <<r, k>> \in n.timers <=> <<r, k>> \in m.timers
    BY <1>2, <1>3
  <2>2. n.runs[x] = e /\ \A r \in Runs \ {x} : n.runs[r] = m.runs[r]
    BY <1>1, <2>1, MemFacts
  <2> QED BY <1>1, <2>1, <2>2 DEF Local, Same
<1> QED BY <1>2, <1>3, <1>4, <1>5 DEF e

\* What finalizeSubagentCleanup comes to.
LEMMA FinalizeForms ==
  ASSUME NEW m \in Mem, NEW x \in Runs, NEW announced \in BOOLEAN
  PROVE  LET n == Finalize(m, x, announced)
         IN \/ n = m /\ ~Present(m, x)
            \/ \E o \in Mem, t \in Nat :
                 /\ Tweak(m, o, x, t) /\ Present(m, x)
                 /\ t = m.runs[x].tries \/ (~announced /\ t = m.runs[x].tries + 1)
                 /\ \/ Expects(x) /\ \E by \in {"success", "giveup"} : n = EmitHookOnce(o, x, by)
                    \/ ~Expects(x) /\ \E delete \in BOOLEAN : n = Bookkeep(o, x, delete)
                    \/ /\ ~announced /\ n = Again(o, x)
                       /\ t = m.runs[x].tries \/ t < MaxTries
<1> DEFINE n == Finalize(m, x, announced)
           k == m.runs[x].tries
           Form(o, t) ==
             \/ Expects(x) /\ \E by \in {"success", "giveup"} : n = EmitHookOnce(o, x, by)
             \/ ~Expects(x) /\ \E delete \in BOOLEAN : n = Bookkeep(o, x, delete)
             \/ ~announced /\ n = Again(o, x) /\ (t = k \/ t < MaxTries)
<1>1. k \in Nat /\ k + 1 \in Nat /\ MaxTries \in Nat
  <2>1. m.runs[x] \in Rec
    BY MemFacts
  <2> QED BY <2>1, ConstantTypes DEF Rec
<1> HIDE DEF k
<1>2. CASE ~Present(m, x)
  BY <1>2 DEF Finalize
<1>3. CASE Present(m, x) /\ announced
  <2> DEFINE o == [m EXCEPT !.runs[x].wake = FALSE]
  <2>1. Tweak(m, o, x, k)
    BY Tweaks DEF k
  <2>2. n = IF Expects(x) THEN EmitHookOnce(o, x, "success") ELSE Bookkeep(o, x, Deletes(o, x))
    BY <1>3 DEF Finalize
  <2>3. Deletes(o, x) \in BOOLEAN /\ o \in Mem
    BY <2>1 DEF Deletes, Tweak
  <2> HIDE DEF o, n
  <2>4. Form(o, k)
    BY <2>2, <2>3
  <2> QED BY <1>1, <1>3, <2>1, <2>3, <2>4 DEF n, k
<1>4. CASE Present(m, x) /\ ~announced
  <2>1. n = Deferred(m, x)
    BY <1>4 DEF Finalize
  <2>2. ASSUME NEW p, NEW t \in {k, k + 1}, Tweak(m, p, x, t), n = GiveUp(p, x)
        PROVE  \E o \in Mem : Tweak(m, o, x, t) /\ Form(o, t)
    <3> DEFINE o == [p EXCEPT !.runs[x].wake = FALSE]
    <3>1. p \in Mem /\ p.runs[x].tries = t
      BY <2>2 DEF Tweak
    <3>2. Tweak(p, o, x, t)
      BY <3>1, Tweaks
    <3>3. Tweak(m, o, x, t) /\ o \in Mem
      <4> HIDE DEF o, n
      <4>1. Tweak(m, o, x, t)
        BY <2>2, <3>2, TweakTweak
      <4> QED BY <4>1 DEF Tweak
    <3>4. n = IF Expects(x) THEN EmitHookOnce(o, x, "giveup") ELSE Bookkeep(o, x, FALSE)
      BY <2>2 DEF GiveUp
    <3> HIDE DEF o, n
    <3>5. Form(o, t)
      BY <3>4
    <3> QED BY <3>3, <3>5
  <2> DEFINE a == [m EXCEPT !.runs[x].wake = TRUE]
             b == [m EXCEPT !.runs[x].tries = @ + 1]
             c == [m EXCEPT !.runs[x].tries = @ + 1, !.runs[x].cooling = TRUE]
  <2>3. Tweak(m, m, x, k) /\ Tweak(m, a, x, k) /\ Tweak(m, b, x, k + 1) /\ Tweak(m, c, x, k + 1)
    <3>1. Tweak(m, m, x, k)
      BY DEF Tweak, k
    <3>2. Tweak(m, a, x, k) /\ Tweak(m, b, x, k + 1) /\ Tweak(m, c, x, k + 1)
      BY Tweaks, Zenon DEF k
    <3> QED BY <3>1, <3>2, Zenon
  <2>4. \/ n = GiveUp(m, x)
        \/ n = Again(a, x)
        \/ n = GiveUp(c, x)
        \/ n = Again(b, x) /\ k + 1 < MaxTries
    <3>1. ~(k + 1 >= MaxTries) => k + 1 < MaxTries
      BY <1>1
    <3> HIDE DEF n
    <3> QED BY <2>1, <3>1 DEF Deferred, k
  <2> HIDE DEF a, b, c, n
  <2>5. \E o \in Mem : \E t \in {k, k + 1} : Tweak(m, o, x, t) /\ Form(o, t)
    <3>1. CASE n = GiveUp(m, x)
      BY <2>2, <2>3, <3>1
    <3>2. CASE n = GiveUp(c, x)
      BY <2>2, <2>3, <3>2
    <3>3. CASE n = Again(a, x)
      <4>1. Form(a, k) /\ a \in Mem
        BY <1>4, <2>3, <3>3 DEF Tweak
      <4> QED BY <2>3, <4>1
    <3>4. CASE n = Again(b, x) /\ k + 1 < MaxTries
      <4>1. Form(b, k + 1) /\ b \in Mem
        BY <1>4, <2>3, <3>4 DEF Tweak
      <4> QED BY <2>3, <4>1
    <3> QED BY <2>4, <3>1, <3>2, <3>3, <3>4
  <2> QED BY <1>1, <1>4, <2>5 DEF n, k
<1> QED BY <1>2, <1>3, <1>4

\* A step that does nothing frames the other runs.
LEMMA FrameSelf ==
  ASSUME NEW m \in Mem, NEW x \in Runs
  PROVE  Frame(m, m, x)
BY SameMoved DEF Frame, Same

\* finalizeSubagentCleanup of x frames the other runs.
LEMMA FinalizeFrame ==
  ASSUME NEW m \in Mem, NEW x \in Runs, NEW announced \in BOOLEAN
  PROVE  LET n == Finalize(m, x, announced)
         IN /\ Frame(m, n, x)
            /\ \/ \A c \in n.calls : c.run = x /\ c.at = "hook" => c \in m.calls
               \/ /\ Present(m, x)
                  /\ \E o, t, by : Tweak(m, o, x, t) /\ Begins(o, n, x, by) /\ by \in Causes
<1> DEFINE n == Finalize(m, x, announced)
           Quiet == \A c \in n.calls : c.run = x /\ c.at = "hook" => c \in m.calls
<1>1. CASE n = m
  BY <1>1, FrameSelf
<1>2. ASSUME NEW o \in Mem, NEW t \in Nat, Tweak(m, o, x, t), Present(m, x), Frame(o, n, x),
             \/ \A c \in n.calls : c.run = x /\ c.at = "hook" => c \in o.calls
             \/ \E by \in Causes : Begins(o, n, x, by)
      PROVE  /\ Frame(m, n, x)
             /\ Quiet \/ \E p, u, by : Tweak(m, p, x, u) /\ Begins(p, n, x, by) /\ by \in Causes
  <2> HIDE DEF n
  <2>1. Frame(m, o, x) /\ o.calls = m.calls
    BY <1>2, TweakFacts, LocalFrame DEF Tweak
  <2>2. Frame(m, n, x)
    BY <1>2, <2>1, FrameFrame
  <2> QED BY <1>2, <2>1, <2>2
<1>3. ASSUME NEW o \in Mem, NEW t \in Nat, Tweak(m, o, x, t), Present(m, x),
             NEW by \in {"success", "giveup"}, n = EmitHookOnce(o, x, by)
      PROVE  /\ Frame(o, n, x)
             /\ \/ \A c \in n.calls : c.run = x /\ c.at = "hook" => c \in o.calls
                \/ \E cause \in Causes : Begins(o, n, x, cause)
  <2>1. by \in Causes
    BY DEF Causes
  <2> HIDE DEF n
  <2>2. /\ Frame(o, n, x)
        /\ Begins(o, n, x, by) \/ n = AfterHook(o, x, by)
    BY <1>3, <2>1, EmitFrame
  <2>3. CASE n = AfterHook(o, x, by)
    BY <2>1, <2>2, <2>3, AfterHookFrame
  <2> QED BY <2>1, <2>2, <2>3
<1>4. ASSUME NEW o \in Mem, NEW delete \in BOOLEAN, n = Bookkeep(o, x, delete)
      PROVE  /\ Frame(o, n, x)
             /\ \A c \in n.calls : c.run = x /\ c.at = "hook" => c \in o.calls
  <2> HIDE DEF n
  <2>1. Frame(o, n, x) /\ Booked(o, n, x)
    BY <1>4, BookkeepFrame
  <2> QED BY <2>1, MemFacts DEF Booked, SameCalls, Frame
<1>5. ASSUME NEW o \in Mem, n = Again(o, x)
      PROVE  /\ Frame(o, n, x)
             /\ \A c \in n.calls : c.run = x /\ c.at = "hook" => c \in o.calls
  <2> HIDE DEF n
  <2>1. Local(o, n, x) /\ n.calls = o.calls
    BY <1>5, AgainFacts
  <2> QED BY <2>1, LocalFrame
<1> HIDE DEF Quiet
<1>6. CASE ~(n = m)
  <2>1. PICK o \in Mem, t \in Nat :
               /\ Tweak(m, o, x, t) /\ Present(m, x)
               /\ \/ \E by \in {"success", "giveup"} : n = EmitHookOnce(o, x, by)
                  \/ \E delete \in BOOLEAN : n = Bookkeep(o, x, delete)
                  \/ n = Again(o, x)
    BY <1>6, FinalizeForms
  <2> HIDE DEF n
  <2>2. /\ Frame(o, n, x)
        /\ \/ \A c \in n.calls : c.run = x /\ c.at = "hook" => c \in o.calls
           \/ \E by \in Causes : Begins(o, n, x, by)
    <3>1. CASE \E by \in {"success", "giveup"} : n = EmitHookOnce(o, x, by)
      BY <2>1, <3>1, <1>3
    <3>2. CASE \E delete \in BOOLEAN : n = Bookkeep(o, x, delete)
      BY <2>1, <3>2, <1>4
    <3>3. CASE n = Again(o, x)
      BY <2>1, <3>3, <1>5
    <3> QED BY <2>1, <3>1, <3>2, <3>3
  <2>3. /\ Frame(m, n, x)
        /\ Quiet \/ \E p, u, by : Tweak(m, p, x, u) /\ Begins(p, n, x, by) /\ by \in Causes
    BY <2>1, <2>2, <1>2
  <2> QED BY <2>1, <2>3 DEF Quiet, n
<1> QED BY <1>1, <1>6 DEF Quiet

\* finalizeSubagentCleanup keeps the invariant of the run it is called for.
LEMMA FinalizeGood ==
  ASSUME reg \in Mem, emitted \in [Runs -> Nat],
         NEW m \in Mem, NEW x \in Runs, NEW announced \in BOOLEAN, NEW tl, SameHooks(m, x),
         Guarded(m, tl, x), Hooked(m, emitted, x),
         emitted[x] = 1 => m.runs[x].hooked \/ HookInFlight(m, x),
         ~Unused(m, x), ~Announcing(m, x),
         Present(m, x) => m.runs[x].handled /\ Ended(m, x) /\ m.runs[x].quiet # "killed",
         ~announced => tl[x] = 0 /\ m.runs[x].tries # MaxTries,
         Expects(x) /\ x \notin cut => (Present(m, x) => Steered(m, x)) /\ Told(m, emitted, x),
         Become(Finalize(m, x, announced))
  PROVE  Good(Finalize(m, x, announced), tl, emitted', cut, x)
<1> DEFINE n == Finalize(m, x, announced)
<1>1. Become(n) /\ n \in Mem
  BY FinalizeFrame DEF Frame
<1>2. (\A c \in n.calls : c.run = x /\ c.at = "hook" => c \in m.calls) => emitted'[x] = emitted[x]
  <2> HIDE DEF n
  <2> QED BY <1>1, SameHooksNone, HooksCount
<1>3. CASE n = m /\ ~Present(m, x)
  <2> HIDE DEF n
  <2>1. emitted'[x] = emitted[x]
    BY <1>2, <1>3
  <2>2. Good(n, tl, emitted', cut, x)
    BY <1>3, <2>1 DEF Good, Hooked, Moving, Told
  <2> QED BY <2>2 DEF n
<1>4. ASSUME NEW o \in Mem, NEW t \in Nat, Tweak(m, o, x, t), Present(m, x),
             t = m.runs[x].tries \/ (~announced /\ t = m.runs[x].tries + 1)
      PROVE  /\ Guarded(o, tl, x) /\ Hooked(o, emitted, x) /\ SameHooks(o, x)
             /\ emitted[x] = 1 => o.runs[x].hooked \/ HookInFlight(o, x)
             /\ Present(o, x) /\ Ended(o, x) /\ ~Unused(o, x) /\ o.runs[x].handled
             /\ o.runs[x].quiet # "killed" /\ ~Announcing(o, x)
             /\ Steered(o, x) <=> Steered(m, x)
  <2>1. /\ Present(o, x) /\ Ended(o, x) /\ ~Unused(o, x)
        /\ ~Announcing(o, x)
        /\ Held(o, x) <=> Held(m, x)
        /\ HookInFlight(o, x) <=> HookInFlight(m, x)
        /\ Steered(o, x) <=> Steered(m, x)
        /\ SameHooks(o, x)
        /\ Hooked(o, emitted, x)
    BY <1>4, TweakFacts
  <2>2. /\ o.calls = m.calls /\ o.runs[x].handled = m.runs[x].handled /\ o.runs[x].done = m.runs[x].done
        /\ o.runs[x].quiet = m.runs[x].quiet /\ o.runs[x].hooked = m.runs[x].hooked
        /\ o.runs[x].tries = t
    BY <1>4, Zenon DEF Tweak
  <2>3. t <= MaxTries
    <3>1. m.runs[x].tries \in Nat /\ MaxTries \in Nat /\ m.runs[x].tries <= MaxTries
      <4>1. m.runs[x] \in Rec
        BY MemFacts
      <4> QED BY <4>1, ConstantTypes DEF Rec, Guarded
    <3> QED BY <1>4, <3>1
  <2>4. o.runs[x].handled /\ o.runs[x].quiet # "killed"
    BY <1>4, <2>2
  <2>5. Guarded(o, tl, x)
    BY <2>1, <2>2, <2>3, <2>4 DEF Guarded, Announcing
  <2> QED BY <1>4, <2>1, <2>2, <2>4, <2>5
<1>5. ASSUME NEW o \in Mem, NEW t \in Nat, Tweak(m, o, x, t), Present(m, x),
             t = m.runs[x].tries \/ (~announced /\ t = m.runs[x].tries + 1),
             NEW by \in {"success", "giveup"}, n = EmitHookOnce(o, x, by)
      PROVE  Good(n, tl, emitted', cut, x)
  <2>1. /\ Guarded(o, tl, x) /\ Hooked(o, emitted, x) /\ SameHooks(o, x)
        /\ emitted[x] = 1 => o.runs[x].hooked \/ HookInFlight(o, x)
        /\ Present(o, x) /\ Ended(o, x) /\ ~Unused(o, x) /\ o.runs[x].handled
        /\ Steered(o, x) <=> Steered(m, x)
    BY <1>4, <1>5
  <2>2. by \in Causes
    BY DEF Causes
  <2> HIDE DEF n
  <2>3. Become(EmitHookOnce(o, x, by))
    BY <1>1, <1>5
  <2>4. /\ Guarded(n, tl, x) /\ Hooked(n, emitted', x) /\ Told(n, emitted', x)
        /\ Steered(o, x) => Moving(n, x)
    BY <1>5, <2>1, <2>2, <2>3, EmitGood
  <2> QED BY <1>5, <2>1, <2>4 DEF Good
<1>6. ASSUME NEW o \in Mem, NEW t \in Nat, Tweak(m, o, x, t), Present(m, x),
             t = m.runs[x].tries \/ (~announced /\ t = m.runs[x].tries + 1),
             ~Expects(x), NEW delete \in BOOLEAN, n = Bookkeep(o, x, delete)
      PROVE  Good(n, tl, emitted', cut, x)
  <2>1. Guarded(o, tl, x) /\ Hooked(o, emitted, x) /\ o.calls = m.calls
    BY <1>4, <1>6 DEF Tweak
  <2> HIDE DEF n
  <2>2. n \in Mem /\ Booked(o, n, x)
    BY <1>1, <1>6, BookkeepFrame
  <2>3. Guarded(n, tl, x) /\ Hooked(n, emitted, x)
    BY <2>1, <2>2, BookedGood
  <2>4. emitted'[x] = emitted[x]
    BY <1>2, <2>1, <2>2, MemFacts DEF Booked, SameCalls
  <2> QED BY <1>6, <2>3, <2>4 DEF Good, Hooked
<1>7. ASSUME NEW o \in Mem, NEW t \in Nat, Tweak(m, o, x, t), Present(m, x),
             t = m.runs[x].tries \/ (~announced /\ t = m.runs[x].tries + 1),
             ~announced, n = Again(o, x), t = m.runs[x].tries \/ t < MaxTries
      PROVE  Good(n, tl, emitted', cut, x)
  <2>1. /\ Guarded(o, tl, x) /\ Hooked(o, emitted, x)
        /\ Present(o, x) /\ Ended(o, x) /\ ~Unused(o, x)
        /\ o.runs[x].quiet # "killed" /\ ~Announcing(o, x)
        /\ Steered(o, x) <=> Steered(m, x)
        /\ o.calls = m.calls /\ o.runs[x].tries = t /\ o.runs[x].done = m.runs[x].done
    BY <1>4, <1>7, Zenon DEF Tweak
  <2> HIDE DEF n
  <2>2. /\ n.calls = o.calls
        /\ n.runs[x] = [o.runs[x] EXCEPT !.handled = FALSE, !.cooling = TRUE]
        /\ x \notin n.marks
        /\ Expects(x) => <<x, "retry">> \in n.timers
    BY <1>7, AgainFacts
  <2>3. /\ n.runs[x].fate = o.runs[x].fate /\ n.runs[x].ended = o.runs[x].ended
        /\ n.runs[x].done = o.runs[x].done /\ n.runs[x].quiet = o.runs[x].quiet
        /\ n.runs[x].tries = o.runs[x].tries /\ n.runs[x].hooked = o.runs[x].hooked
        /\ ~n.runs[x].handled
    <3>1. o.runs[x] \in Rec
      BY MemFacts
    <3> QED BY <2>2, <3>1 DEF Rec
  <2>4. /\ Present(n, x) /\ Ended(n, x) /\ ~Unused(n, x)
        /\ ~Announcing(n, x)
        /\ HookInFlight(n, x) <=> HookInFlight(o, x)
        /\ Held(n, x) <=> Held(o, x)
        /\ Steered(n, x) <=> Steered(o, x)
    BY <2>1, <2>2, <2>3 DEF Present, Ended, Unused, Announcing, HookInFlight, Held, Steered
  <2>5. emitted'[x] = emitted[x]
    BY <1>2, <2>1, <2>2
  <2>6. t # MaxTries
    BY <1>7, ConstantTypes
  <2>7. Guarded(n, tl, x)
    BY <1>7, <2>1, <2>2, <2>3, <2>4, <2>6 DEF Guarded, Announcing
  <2>8. Hooked(n, emitted', x)
    BY <2>1, <2>2, <2>3, <2>4, <2>5 DEF Hooked
  <2>9. Steered(m, x) /\ Expects(x) => Moving(n, x)
    BY <2>1, <2>2, <2>3, <2>4 DEF Moving, Handling, Waiting
  <2>10. Told(m, emitted, x) => Told(n, emitted', x)
    BY <1>7, <2>1, <2>3, <2>4, <2>5, <2>6 DEF Told, Present
  <2> QED BY <1>7, <2>7, <2>8, <2>9, <2>10 DEF Good
<1>8. CASE ~(n = m /\ ~Present(m, x))
  <2>1. PICK o \in Mem, t \in Nat :
               /\ Tweak(m, o, x, t) /\ Present(m, x)
               /\ t = m.runs[x].tries \/ (~announced /\ t = m.runs[x].tries + 1)
               /\ \/ Expects(x) /\ \E by \in {"success", "giveup"} : n = EmitHookOnce(o, x, by)
                  \/ ~Expects(x) /\ \E delete \in BOOLEAN : n = Bookkeep(o, x, delete)
                  \/ /\ ~announced /\ n = Again(o, x)
                     /\ t = m.runs[x].tries \/ t < MaxTries
    BY <1>8, FinalizeForms
  <2> HIDE DEF n
  <2>2. Good(n, tl, emitted', cut, x)
    BY <2>1, <1>5, <1>6, <1>7
  <2> QED BY <2>2 DEF n
<1> QED BY <1>3, <1>8

-----------------------------------------------------------------------------
(* Every step keeps the invariant *)

\* What the disk knows of x is still enough after a step that does not save it.
LEMMA StoredKept ==
  ASSUME IInv, NEW n \in Mem, NEW x \in Tame, Become(n),
         Present(n, x) => Present(reg, x) /\ n.runs[x].hooked = reg.runs[x].hooked,
         Announcing(n, x) \/ told'[x] = 1 => Announcing(reg, x) \/ told[x] = 1,
         Good(n, told', emitted', cut, x)
  PROVE  Stored(disk[x], n, told', emitted', cut, x)
<1>1. x \in Runs /\ reg \in Mem /\ emitted \in [Runs -> Nat]
  BY DEF Tame, IInv, Types
<1>2. Stored(disk[x], reg, told, emitted, cut, x)
  BY DEF IInv, GoodRuns
<1>3. emitted[x] = 1 => emitted'[x] = 1
  <2>1. emitted'[x] >= emitted[x] /\ emitted'[x] \in {0, 1}
    BY <1>1, HooksCount DEF Good, Hooked
  <2> QED BY <2>1
<1> QED BY <1>2, <1>3 DEF Stored

\* A framed step keeps what WakeInv says.
LEMMA FrameWake ==
  ASSUME IInv, NEW n, NEW x \in Runs, Frame(reg, n, x)
  PROVE  WakeInv(n)
<1>1. n \in Mem /\ reg \in Mem /\ WakeInv(reg)
  BY DEF Frame, IInv, Types
<1> DEFINE X == {x}
<1>2. /\ \A r \in Runs \ X : Moved(reg, n, r)
      /\ \A r \in X : (Unused(n, r) <=> Unused(reg, r)) /\ (Present(n, r) => Present(reg, r))
      /\ \A c \in n.calls : c.run \in X /\ c.at = "woken" => c \in reg.calls
  BY DEF Frame
<1>3. X \in SUBSET Runs
  OBVIOUS
<1> HIDE DEF X
<1> QED BY <1>1, <1>2, <1>3, WakeKept

\* A step on x that is saved.
LEMMA SavedStep ==
  ASSUME IInv, NEW n, NEW x \in Runs, Frame(reg, n, x), Become(n), Rest', cut' = cut,
         \A r \in Runs \ {x} : told'[r] = told[r],
         \/ disk' = Saved(n)
         \/ Save(n) /\ (x \in Tame /\ n.runs[x] = reg.runs[x] =>
              (Announcing(n, x) \/ told'[x] = 1 => Announcing(reg, x) \/ told[x] = 1)),
         x \in Tame => Good(n, told', emitted', cut, x)
  PROVE  IInv'
<1>1. n \in Mem /\ Types /\ OnDisk /\ WakeInv(n)
  BY FrameWake DEF Frame, IInv
<1>2. /\ Written(n, {x})
      /\ disk'[x] = Saved(n)[x] \/ (disk'[x] = disk[x] /\ n.runs[x] = reg.runs[x])
  BY <1>1, SaveWrites
<1>3. ASSUME x \in Tame, disk'[x] # Saved(n)[x]
      PROVE  Stored(disk'[x], n, told', emitted', cut, x)
  <2>1. disk'[x] = disk[x] /\ n.runs[x] = reg.runs[x]
    BY <1>2, <1>3
  <2>2. Announcing(n, x) \/ told'[x] = 1 => Announcing(reg, x) \/ told[x] = 1
    BY <1>3, <2>1
  <2> QED BY <1>1, <1>3, <2>1, <2>2, StoredKept DEF Present
<1>4. \A r \in {x} \cap Tame :
           /\ Good(n, told', emitted', cut, r)
           /\ disk'[r] = Saved(n)[r] \/ Stored(disk'[r], n, told', emitted', cut, r)
  BY <1>2, <1>3
<1>5. \A r \in Runs \ {x} : Moved(reg, n, r) /\ told'[r] = told[r]
  BY DEF Frame
<1> QED BY <1>1, <1>2, <1>4, <1>5, StepInv

\* A step on x that is not saved.
LEMMA UnsavedStep ==
  ASSUME IInv, NEW n, NEW x \in Runs, Frame(reg, n, x), Become(n), Rest', cut' = cut,
         \A r \in Runs \ {x} : told'[r] = told[r] /\ n.runs[r] = reg.runs[r],
         UNCHANGED disk, Present(n, x) <=> Present(reg, x),
         x \in Tame => /\ Good(n, told', emitted', cut, x)
                       /\ Present(n, x) => n.runs[x].hooked = reg.runs[x].hooked
                       /\ Announcing(n, x) \/ told'[x] = 1 => Announcing(reg, x) \/ told[x] = 1
  PROVE  IInv'
<1>1. n \in Mem /\ Types /\ OnDisk /\ WakeInv(n)
  BY FrameWake DEF Frame, IInv
<1>2. Written(n, {x})
  <2>1. \A r \in Runs : Present(n, r) <=> Present(reg, r)
    BY DEF Present
  <2> QED BY <1>1, <2>1, NothingWritten
<1>3. ASSUME x \in Tame
      PROVE  Stored(disk'[x], n, told', emitted', cut, x)
  BY <1>1, <1>3, StoredKept
<1>4. \A r \in {x} \cap Tame :
           /\ Good(n, told', emitted', cut, r)
           /\ disk'[r] = Saved(n)[r] \/ Stored(disk'[r], n, told', emitted', cut, r)
  BY <1>3
<1>5. \A r \in Runs \ {x} : Moved(reg, n, r) /\ told'[r] = told[r]
  BY DEF Frame
<1> QED BY <1>1, <1>2, <1>4, <1>5, StepInv

\* An awaited call c of x is over: what is left is as good, but that nothing may move
\* the run on.
LEMMA WithoutGood ==
  ASSUME IInv, NEW c \in reg.calls, c.run \in Tame, c.at # "hook", c.at # "wait"
  PROVE  LET x == c.run
             m == [reg EXCEPT !.calls = @ \ {c}]
         IN /\ Guarded(m, told, x) /\ Hooked(m, emitted, x) /\ SameHooks(m, x)
            /\ emitted[x] = 1 => m.runs[x].hooked \/ HookInFlight(m, x)
            /\ ~Unused(m, x)
            /\ c.at \in {"announce", "woken", "deliver"} => ~Announcing(m, x)
            /\ c.at \notin {"announce", "woken", "deliver"} => (Announcing(m, x) <=> Announcing(reg, x))
            /\ Expects(x) /\ x \notin cut =>
                 /\ Told(m, emitted, x)
                 /\ Present(m, x) => /\ c.at # "steer" => Steered(m, x)
                                     /\ c.at \notin {"announce", "woken", "deliver"} => Handling(m, x)
                                     /\ c.at # "freeze" => Waiting(m, x)
<1> DEFINE x == c.run
           m == [reg EXCEPT !.calls = @ \ {c}]
<1>1. reg \in Mem /\ Good(reg, told, emitted, cut, x) /\ x \in Runs
  BY DEF IInv, Types, GoodRuns, Tame
<1>2. /\ m \in Mem /\ m.runs = reg.runs /\ m.marks = reg.marks /\ m.timers = reg.timers
      /\ m.calls = reg.calls \ {c}
  BY <1>1, Without
<1>3. Held(reg, x)
  BY DEF Held
<1> HIDE DEF m
<1>4. Guarded(m, told, x)
  BY <1>1, <1>2 DEF Good, Guarded, Present, Ended, Unused, Announcing, Held
<1>5. HookInFlight(m, x) <=> HookInFlight(reg, x)
  BY <1>2 DEF HookInFlight
<1>6. Hooked(m, emitted, x) /\ (emitted[x] = 1 => m.runs[x].hooked \/ HookInFlight(m, x))
  <2>1. Held(m, x) => Held(reg, x)
    BY <1>2 DEF Held
  <2> QED BY <1>1, <1>2, <1>3, <1>5, <2>1 DEF Good, Hooked, Present, Unused
<1>7. SameHooks(m, x)
  BY <1>2 DEF SameHooks
<1>8. ~Unused(m, x)
  BY <1>1, <1>2, <1>3 DEF Good, Guarded, Unused
<1>9. c.at \in {"announce", "woken", "deliver"} => ~Announcing(m, x)
  BY <1>1, <1>2 DEF Good, Guarded, Announcing, Announces
<1>10. c.at \notin {"announce", "woken", "deliver"} => (Announcing(m, x) <=> Announcing(reg, x))
  BY <1>2 DEF Announcing, Announces
<1>11. ASSUME Expects(x), x \notin cut
       PROVE  /\ Told(m, emitted, x)
              /\ Present(m, x) => /\ c.at # "steer" => Steered(m, x)
                                  /\ c.at \notin {"announce", "woken", "deliver"} => Handling(m, x)
                                  /\ c.at # "freeze" => Waiting(m, x)
  <2>1. Moving(reg, x) /\ Told(reg, emitted, x)
    BY <1>1, <1>11 DEF Good
  <2>2. Told(m, emitted, x)
    BY <1>2, <2>1 DEF Told, Present
  <2>3. Present(m, x) => Handling(reg, x) /\ Waiting(reg, x) /\ Steered(reg, x)
    BY <1>2, <2>1 DEF Moving, Present
  <2>4. Steered(reg, x) /\ c.at # "steer" => Steered(m, x)
    BY <1>2 DEF Steered
  <2>5. Handling(reg, x) /\ c.at \notin {"announce", "woken", "deliver"} => Handling(m, x)
    BY <1>2, <1>10 DEF Handling
  <2>6. Waiting(reg, x) /\ c.at # "freeze" => Waiting(m, x)
    BY <1>2 DEF Waiting, Ended
  <2> QED BY <2>2, <2>3, <2>4, <2>5, <2>6
<1> QED BY <1>4, <1>6, <1>7, <1>8, <1>9, <1>10, <1>11 DEF m

\* An announcement comes back, delivered or not.
LEMMA FinalizeStep ==
  ASSUME IInv, NEW c \in reg.calls, c.at \in {"announce", "deliver"}, NEW announced \in BOOLEAN,
         Become(Finalize([reg EXCEPT !.calls = @ \ {c}], c.run, announced)),
         SaveFinalized(Finalize([reg EXCEPT !.calls = @ \ {c}], c.run, announced)),
         Rest', cut' = cut, \A r \in Runs \ {c.run} : told'[r] = told[r],
         \/ told'[c.run] = told[c.run]
         \/ announced /\ told'[c.run] = told[c.run] + 1
  PROVE  IInv'
<1> DEFINE x == c.run
           m == [reg EXCEPT !.calls = @ \ {c}]
           n == Finalize(m, x, announced)
<1>1. reg \in Mem /\ emitted \in [Runs -> Nat] /\ told \in [Runs -> Nat] /\ disk \in [Runs -> Rec]
  BY DEF IInv, Types, Rest
<1>2. x \in Runs
  BY <1>1, MemFacts DEF Call
<1>3. /\ m \in Mem /\ m.runs = reg.runs /\ m.marks = reg.marks /\ m.timers = reg.timers
      /\ m.calls = reg.calls \ {c} /\ Local(reg, m, x)
  BY <1>1, Without
<1> HIDE DEF m
<1>4. /\ Frame(m, n, x)
      /\ \/ \A d \in n.calls : d.run = x /\ d.at = "hook" => d \in m.calls
         \/ /\ Present(m, x)
            /\ \E o, t, by : Tweak(m, o, x, t) /\ Begins(o, n, x, by) /\ by \in Causes
  BY <1>2, <1>3, FinalizeFrame
<1>5. Become(n) /\ SaveFinalized(n)
  BY DEF m
<1> HIDE DEF n, x
<1>6. Frame(reg, n, x) /\ n \in Mem
  BY <1>1, <1>2, <1>3, <1>4, LocalFrame, FrameFrame DEF Frame
<1>7. ASSUME x \in Tame
      PROVE  Good(n, told', emitted', cut, x) /\ Announcing(reg, x)
  <2>1. /\ Guarded(m, told, x) /\ Hooked(m, emitted, x) /\ SameHooks(m, x)
        /\ emitted[x] = 1 => m.runs[x].hooked \/ HookInFlight(m, x)
        /\ ~Unused(m, x) /\ ~Announcing(m, x)
        /\ Expects(x) /\ x \notin cut => Told(m, emitted, x) /\ (Present(m, x) => Steered(m, x))
    BY <1>7, WithoutGood DEF m, x
  <2>2. Announcing(reg, x) /\ Good(reg, told, emitted, cut, x)
    BY <1>7 DEF IInv, GoodRuns, Announcing, Announces, x
  <2>3. /\ Present(m, x) => m.runs[x].handled /\ Ended(m, x) /\ m.runs[x].quiet # "killed"
        /\ told[x] = 0 /\ m.runs[x].tries # MaxTries
    BY <1>3, <2>2 DEF Good, Guarded, Announcing, Present, Ended
  <2>4. told'[x] \in {0, 1} /\ (~announced => told'[x] = 0)
    BY <2>3 DEF x
  <2>5. Guarded(m, told', x)
    BY <2>1, <2>3, <2>4 DEF Guarded, Announcing
  <2>6. Become(Finalize(m, x, announced))
    BY <1>5 DEF n
  <2>7. ~announced => told'[x] = 0 /\ m.runs[x].tries # MaxTries
    BY <2>3, <2>4
  <2>8. Expects(x) /\ x \notin cut => (Present(m, x) => Steered(m, x)) /\ Told(m, emitted, x)
    BY <2>1
  <2>9. Good(Finalize(m, x, announced), told', emitted', cut, x)
    BY <1>1, <1>2, <1>3, <2>1, <2>3, <2>5, <2>6, <2>7, <2>8, FinalizeGood
  <2> QED BY <2>2, <2>9 DEF n
<1>8. \A r \in Runs \ {x} : told'[r] = told[r]
  BY DEF x
<1>9. CASE Save(n)
  BY <1>2, <1>5, <1>6, <1>7, <1>8, <1>9, SavedStep
<1>10. CASE ~Save(n)
  <2>1. UNCHANGED disk /\ \E d \in n.calls \ reg.calls : d.at = "hook"
    BY <1>5, <1>10 DEF SaveFinalized
  <2>2. PICK d \in n.calls : d \notin reg.calls /\ d.at = "hook"
    BY <2>1
  <2>3. d \in Call
    BY <1>6, MemFacts
  <2>4. d.run = x
    <3>1. ASSUME d.run # x
          PROVE  FALSE
      <4>1. d.run \in Runs \ {x}
        BY <2>3, <3>1 DEF Call
      <4>2. Moved(reg, n, d.run)
        BY <1>6, <4>1 DEF Frame
      <4> QED BY <2>2, <4>2 DEF Moved
    <3> QED BY <3>1
  <2>5. d \notin m.calls
    BY <1>3, <2>2
  <2>6. PICK o, t, by : Present(m, x) /\ Tweak(m, o, x, t) /\ Begins(o, n, x, by) /\ by \in Causes
    BY <1>4, <2>2, <2>4, <2>5
  <2>7. n.runs = o.runs
    <3>1. o \in Mem /\ "hook" \in Stages
      BY <2>6 DEF Tweak, Stages
    <3> QED BY <1>2, <2>6, <3>1, CallFrame DEF Begins
  <2>8. /\ \A r \in Runs \ {x} : n.runs[r] = reg.runs[r]
        /\ n.runs[x].fate = reg.runs[x].fate /\ n.runs[x].hooked = reg.runs[x].hooked
    BY <1>3, <2>6, <2>7, Zenon DEF Tweak
  <2>9. Present(n, x) <=> Present(reg, x)
    BY <2>8 DEF Present
  <2> QED BY <1>2, <1>5, <1>6, <1>7, <1>8, <2>1, <2>8, <2>9, UnsavedStep
<1> QED BY <1>9, <1>10

\* An announcement that waits, is skipped, or has been delivered keeps the invariant.
LEMMA AnnounceSteps ==
  ASSUME IInv, NEW c \in reg.calls,
         AnnounceWaits(c) \/ AnnounceSkips(c) \/ \E ok \in BOOLEAN : DeliveryAnswers(c, ok)
  PROVE  IInv'
<1>1. /\ sessions \subseteq Sessions /\ alive \subseteq Runs /\ told \in [Runs -> Nat]
      /\ c.run \in Runs /\ crashed \in BOOLEAN /\ incidents \in 0..MaxIncidents
  BY MemFacts DEF IInv, Types, Rest, Call
<1>2. CASE AnnounceWaits(c)
  <2>1. /\ c.at = "announce"
        /\ Become(Finalize([reg EXCEPT !.calls = @ \ {c}], c.run, FALSE))
        /\ SaveFinalized(Finalize([reg EXCEPT !.calls = @ \ {c}], c.run, FALSE))
        /\ UNCHANGED <<alive, sessions, told, cut, crashed, incidents>>
    BY <1>2 DEF AnnounceWaits
  <2>2. Rest'
    BY <1>1, <2>1 DEF Rest
  <2> QED BY <2>1, <2>2, FinalizeStep
<1>3. CASE AnnounceSkips(c)
  <2>1. /\ c.at = "announce" /\ sessions' \subseteq Sessions
        /\ Become(Finalize([reg EXCEPT !.calls = @ \ {c}], c.run, TRUE))
        /\ SaveFinalized(Finalize([reg EXCEPT !.calls = @ \ {c}], c.run, TRUE))
        /\ UNCHANGED <<alive, told, cut, crashed, incidents>>
    BY <1>1, <1>3 DEF AnnounceSkips
  <2>2. Rest'
    BY <1>1, <2>1 DEF Rest
  <2> QED BY <2>1, <2>2, FinalizeStep
<1>4. ASSUME NEW ok \in BOOLEAN, DeliveryAnswers(c, ok)
      PROVE  IInv'
  <2>1. /\ c.at = "deliver" /\ sessions' \subseteq Sessions
        /\ told' = [told EXCEPT ![c.run] = IF ok THEN @ + 1 ELSE @]
        /\ Become(Finalize([reg EXCEPT !.calls = @ \ {c}], c.run, ok))
        /\ SaveFinalized(Finalize([reg EXCEPT !.calls = @ \ {c}], c.run, ok))
        /\ UNCHANGED <<alive, cut, crashed, incidents>>
    BY <1>1, <1>4 DEF DeliveryAnswers
  <2>2. /\ told' \in [Runs -> Nat] /\ \A r \in Runs \ {c.run} : told'[r] = told[r]
        /\ told'[c.run] = told[c.run] \/ (ok /\ told'[c.run] = told[c.run] + 1)
    BY <1>1, <2>1
  <2>3. Rest'
    BY <1>1, <2>1, <2>2 DEF Rest
  <2> QED BY <2>1, <2>2, <2>3, FinalizeStep
<1> QED BY <1>2, <1>3, <1>4

\* An announcing call goes on to another stage of the announcement.
LEMMA StageFacts ==
  ASSUME IInv, NEW c \in reg.calls, c.at \in {"announce", "woken"}, NEW at \in {"woken", "deliver"},
         c.at # at, at = "woken" => c.run \notin WakeRuns
  PROVE  LET x == c.run
             n == [reg EXCEPT !.calls = (@ \ {c}) \cup {[c EXCEPT !.at = at]}]
         IN /\ n \in Mem /\ n.runs = reg.runs /\ n.marks = reg.marks /\ n.timers = reg.timers
            /\ \A r \in Runs \ {x} : Same(reg, n, r)
            /\ \A d \in n.calls : d \notin reg.calls => d.run = x /\ d.at = at
            /\ \A r \in Runs : NewHooks(n, r) = {}
            /\ x \in Tame => Good(n, told, emitted, cut, x) /\ Announcing(reg, x)
            /\ WakeInv(n)
<1> DEFINE x == c.run
           d == [c EXCEPT !.at = at]
           n == [reg EXCEPT !.calls = (@ \ {c}) \cup {d}]
<1>1. reg \in Mem /\ reg.calls \subseteq Call /\ c \in Call
  BY MemFacts DEF IInv, Types
<1>2. d \in Call /\ d.run = x /\ d.at = at
  BY <1>1 DEF Call, Stages
<1>3. /\ n \in Mem /\ n.runs = reg.runs /\ n.marks = reg.marks /\ n.timers = reg.timers
      /\ n.calls = (reg.calls \ {c}) \cup {d}
  BY <1>1, <1>2 DEF Mem
<1> HIDE DEF n, d
<1>4. \A r \in Runs \ {x} : Same(reg, n, r)
  BY <1>2, <1>3 DEF Same
<1>5. \A e \in n.calls : e \notin reg.calls => e.run = x /\ e.at = at
  BY <1>2, <1>3
<1>6. \A r \in Runs : NewHooks(n, r) = {}
  BY <1>5 DEF NewHooks
<1>7. ASSUME x \in Tame
      PROVE  Good(n, told, emitted, cut, x) /\ Announcing(reg, x)
  <2>1. Good(reg, told, emitted, cut, x) /\ Announcing(reg, x) /\ Held(reg, x)
    BY <1>7 DEF IInv, GoodRuns, Announcing, Announces, Held
  <2>2. Announcing(n, x) /\ Held(n, x)
    BY <1>2, <1>3 DEF Announcing, Announces, Held
  <2>3. \A e \in n.calls : Announces(e, x) => e = d
    BY <1>3, <2>1 DEF Good, Guarded, Announces
  <2>4. Announces(d, x)
    BY <1>2 DEF Announces
  <2>5. Guarded(n, told, x)
    BY <1>2, <1>3, <2>1, <2>2, <2>3 DEF Good, Guarded, Present, Ended, Unused, Announcing
  <2>6. HookInFlight(n, x) <=> HookInFlight(reg, x)
    BY <1>2, <1>3 DEF HookInFlight
  <2>7. Hooked(n, emitted, x)
    BY <1>2, <1>3, <2>1, <2>6 DEF Good, Hooked, Present, Unused
  <2>8. Moving(reg, x) => Moving(n, x)
    <3>1. Present(n, x) <=> Present(reg, x)
      BY <1>3 DEF Present
    <3>2. Handling(n, x)
      BY <2>2 DEF Handling
    <3>3. Waiting(reg, x) => Waiting(n, x)
      BY <1>3 DEF Waiting, Ended
    <3>4. Steered(reg, x) => Steered(n, x)
      BY <1>3 DEF Steered
    <3> QED BY <3>1, <3>2, <3>3, <3>4 DEF Moving
  <2>9. Told(reg, emitted, x) => Told(n, emitted, x)
    BY <1>3 DEF Told, Present
  <2> QED BY <2>1, <2>5, <2>7, <2>8, <2>9 DEF Good
<1>8. WakeInv(n)
  <2>1. WakeInv(reg)
    BY DEF IInv
  <2> QED BY <1>3, <1>5, <2>1 DEF WakeInv, Unused, Present
<1> QED BY <1>3, <1>4, <1>5, <1>6, <1>7, <1>8 DEF n, d

\* An announcing call goes on, and nothing is saved.
Staged(m, c, at) == [m EXCEPT !.calls = (@ \ {c}) \cup {[c EXCEPT !.at = at]}]

\* A call that goes on to its next await keeps the invariant.
LEMMA StageStep ==
  ASSUME IInv, NEW c \in reg.calls, c.at \in {"announce", "woken"}, NEW at \in {"woken", "deliver"},
         c.at # at, at = "woken" => c.run \notin WakeRuns,
         Become(Staged(reg, c, at)), UNCHANGED <<disk, told, cut>>, Rest'
  PROVE  IInv'
<1> DEFINE x == c.run
           n == [reg EXCEPT !.calls = (@ \ {c}) \cup {[c EXCEPT !.at = at]}]
           X == {x}
<1>1. reg \in Mem /\ emitted \in [Runs -> Nat] /\ x \in Runs /\ Types /\ OnDisk
  BY MemFacts DEF IInv, Types, Call
<1>2. /\ n \in Mem /\ n.runs = reg.runs
      /\ \A r \in Runs \ {x} : Same(reg, n, r)
      /\ \A r \in Runs : NewHooks(n, r) = {}
      /\ x \in Tame => Good(n, told, emitted, cut, x) /\ Announcing(reg, x)
      /\ WakeInv(n)
  BY StageFacts
<1>3. Become(n)
  BY DEF Staged
<1> HIDE DEF n
<1>4. emitted'[x] = emitted[x]
  BY <1>1, <1>2, <1>3, HooksCount
<1>5. x \in Tame => Good(n, told', emitted', cut, x)
  BY <1>2, <1>4 DEF Good, Hooked, Told
<1>6. x \in Tame => Stored(disk'[x], n, told', emitted', cut, x)
  BY <1>1, <1>2, <1>3, <1>5, StoredKept DEF Present
<1>7. Written(n, X)
  BY <1>1, <1>2, NothingWritten DEF Present
<1>8. \A r \in Runs \ X : Moved(reg, n, r) /\ told'[r] = told[r]
  BY <1>1, <1>2, SameMoved
<1>9. \A r \in X \cap Tame :
           /\ Good(n, told', emitted', cut, r)
           /\ disk'[r] = Saved(n)[r] \/ Stored(disk'[r], n, told', emitted', cut, r)
  BY <1>5, <1>6
<1>10. X \in SUBSET Runs
  BY <1>1
<1> HIDE DEF X
<1> QED BY <1>2, <1>3, <1>7, <1>8, <1>9, <1>10, StepInv

\* BeginDelivery is the call's going on to its delivery.
LEMMA DeliveryBegins ==
  ASSUME IInv, NEW c \in reg.calls, c.at \in {"announce", "woken"},
         Become(BeginDelivery(reg, c)), UNCHANGED <<disk, told, cut>>, Rest'
  PROVE  IInv'
<1> DEFINE at == "deliver"
<1>1. at \in {"woken", "deliver"} /\ c.at # at /\ at # "woken"
  OBVIOUS
<1>2. Become(Staged(reg, c, at))
  BY DEF BeginDelivery, Staged
<1> HIDE DEF at
<1> QED BY <1>1, <1>2, StageStep

\* The announcement that is sent keeps the invariant.
LEMMA AnnounceDeliversStep ==
  ASSUME IInv, NEW c \in reg.calls, AnnounceDelivers(c)
  PROVE  IInv'
<1>1. /\ c.at = "announce" /\ Become(BeginDelivery(reg, c))
      /\ UNCHANGED <<disk, alive, sessions, told, cut, crashed, incidents>>
  BY DEF AnnounceDelivers
<1>2. Rest'
  BY <1>1 DEF IInv, Types, Rest
<1> QED BY <1>1, <1>2, DeliveryBegins

\* completeSubagentRun after its awaits keeps the invariant.
LEMMA FrozenStep ==
  ASSUME IInv, NEW c \in reg.calls, Frozen(c)
  PROVE  IInv'
<1> DEFINE x == c.run
           m == [reg EXCEPT !.calls = @ \ {c}]
           n == IF m.runs[x].quiet = "steer" THEN m
                ELSE IF Expects(x) THEN StartCleanup(m, x)
                ELSE EmitHookOnce(m, x, c.by)
<1>1. reg \in Mem /\ emitted \in [Runs -> Nat] /\ x \in Runs /\ c.by \in Causes
  BY MemFacts DEF IInv, Types, Call
<1>2. /\ m \in Mem /\ m.runs = reg.runs /\ m.calls = reg.calls \ {c} /\ Local(reg, m, x)
  BY <1>1, Without
<1>3. /\ c.at = "freeze" /\ Become(n) /\ disk' = Saved(n)
      /\ UNCHANGED <<alive, sessions, told, cut, crashed, incidents>>
  BY DEF Frozen
<1>4. Rest'
  BY <1>3 DEF IInv, Types, Rest
<1> HIDE DEF m, x
<1>5. Frame(m, n, x) /\ n \in Mem
  <2>1. Frame(m, m, x) /\ Frame(m, StartCleanup(m, x), x) /\ Frame(m, EmitHookOnce(m, x, c.by), x)
    BY <1>1, <1>2, FrameSelf, CleanupFrame, EmitFrame
  <2> QED BY <2>1 DEF Frame
<1>6. ASSUME x \in Tame
      PROVE  Good(n, told', emitted', cut, x)
  <2>1. /\ Guarded(m, told, x) /\ Hooked(m, emitted, x) /\ SameHooks(m, x)
        /\ emitted[x] = 1 => m.runs[x].hooked \/ HookInFlight(m, x)
        /\ ~Unused(m, x)
        /\ Expects(x) /\ x \notin cut =>
             Told(m, emitted, x) /\ (Present(m, x) => Steered(m, x) /\ Handling(m, x))
    BY <1>3, <1>6, WithoutGood DEF m, x
  <2>2. Present(m, x) => Ended(m, x)
    BY <1>2, <1>3, <1>6 DEF IInv, GoodRuns, Good, Guarded, Present, Ended, x
  <2>3. (\A d \in n.calls : d.run = x /\ d.at = "hook" => d \in m.calls) => emitted'[x] = emitted[x]
    <3> HIDE DEF n
    <3> QED BY <1>1, <1>2, <1>3, <1>5, <2>1, SameHooksNone, HooksCount
  <2>4. CASE m.runs[x].quiet = "steer"
    <3>1. n = m
      BY <2>4
    <3> HIDE DEF n
    <3>2. emitted' [x] = emitted[x]
      BY <2>3, <3>1
    <3>3. Waiting(m, x)
      BY <2>4 DEF Waiting
    <3> QED BY <1>3, <2>1, <3>1, <3>2, <3>3 DEF Good, Guarded, Hooked, Told, Moving
  <2>5. CASE m.runs[x].quiet # "steer" /\ Expects(x)
    <3>1. n = StartCleanup(m, x)
      BY <2>5
    <3> HIDE DEF n
    <3>2. /\ Moved(m, n, x)
          /\ \A d \in n.calls : d.run = x /\ d.at = "hook" => d \in m.calls
          /\ Present(n, x) => n.runs[x].handled \/ n.runs[x].done
      BY <1>1, <1>2, <2>2, <3>1, CleanupFrame
    <3>3. emitted'[x] = emitted[x] /\ Guarded(n, told, x) /\ Hooked(n, emitted, x)
      BY <1>1, <1>2, <1>5, <2>1, <2>3, <3>2, MovedGuarded, MovedHooked
    <3>4. ASSUME x \notin cut
          PROVE  Moving(n, x) /\ Told(n, emitted, x)
      <4>1. Told(n, emitted, x)
        BY <1>1, <1>2, <1>5, <2>1, <2>5, <3>2, <3>4, MovedTold DEF Guarded
      <4>2. Waiting(n, x) \/ ~Present(n, x)
        BY <3>2 DEF Waiting
      <4>3. Present(n, x) => Handling(n, x) /\ Steered(n, x)
        BY <1>1, <1>2, <1>5, <2>1, <2>5, <3>2, <3>4, MovedParts
      <4> QED BY <4>1, <4>2, <4>3 DEF Moving
    <3> QED BY <1>3, <3>3, <3>4 DEF Good, Guarded, Hooked, Told
  <2>6. CASE m.runs[x].quiet # "steer" /\ ~Expects(x)
    <3>1. n = EmitHookOnce(m, x, c.by)
      BY <2>6
    <3> HIDE DEF n
    <3>2. Become(EmitHookOnce(m, x, c.by))
      BY <1>3, <3>1
    <3>3. Guarded(n, told, x) /\ Hooked(n, emitted', x)
      BY <1>1, <1>2, <2>1, <2>2, <3>1, <3>2, EmitGood
    <3> QED BY <1>3, <2>6, <3>3 DEF Good, Guarded
  <2> QED BY <2>4, <2>5, <2>6
<1> HIDE DEF n
<1>7. Frame(reg, n, x)
  BY <1>1, <1>2, <1>5, LocalFrame, FrameFrame
<1> QED BY <1>1, <1>3, <1>4, <1>6, <1>7, SavedStep

\* The return of a hook keeps the invariant.
LEMMA HookDoneStep ==
  ASSUME IInv, NEW c \in reg.calls, HookDone(c)
  PROVE  IInv'
<1> DEFINE x == c.run
           e == [reg.runs[x] EXCEPT !.hooked = TRUE]
           m == [reg EXCEPT !.calls = @ \ {c}, !.runs[x].hooked = TRUE]
           n == AfterHook(m, x, c.by)
<1>1. reg \in Mem /\ emitted \in [Runs -> Nat] /\ x \in Runs /\ c.by \in Causes /\ c \in Call
  BY MemFacts DEF IInv, Types, Call
<1>2. /\ c.at = "hook" /\ Become(n) /\ Save(n)
      /\ UNCHANGED <<alive, sessions, told, cut, crashed, incidents>>
  BY DEF HookDone, BecomeAndSave
<1>3. Rest'
  BY <1>2 DEF IInv, Types, Rest
<1>4. /\ e \in Rec /\ e.hooked /\ e.fate = reg.runs[x].fate /\ e.ended = reg.runs[x].ended
      /\ e.handled = reg.runs[x].handled /\ e.done = reg.runs[x].done
      /\ e.quiet = reg.runs[x].quiet /\ e.tries = reg.runs[x].tries
  <2>1. reg.runs[x] \in Rec
    BY <1>1, MemFacts
  <2> QED BY <2>1 DEF Rec
<1>5. /\ m \in Mem /\ m.runs = [reg.runs EXCEPT ![x] = e] /\ m.marks = reg.marks
      /\ m.timers = reg.timers /\ m.calls = reg.calls \ {c}
  <2> HIDE DEF x
  <2>1. m.runs = [reg.runs EXCEPT ![x] = e]
    BY <1>1 DEF Mem
  <2> HIDE DEF e
  <2>2. [reg.runs EXCEPT ![x] = e] \in [Runs -> Rec]
    BY <1>1, <1>4, MemFacts
  <2> QED BY <1>1, <2>1, <2>2 DEF Mem
<1> HIDE DEF e, m, x
<1>6. m.runs[x] = e /\ \A r \in Runs \ {x} : m.runs[r] = reg.runs[r]
  BY <1>1, <1>4, <1>5, MemFacts
<1>7. Local(reg, m, x)
  BY <1>4, <1>5, <1>6 DEF Local, Same, x
<1>8. /\ Frame(m, n, x) /\ n \in Mem
      /\ \A d \in n.calls : d.run = x /\ d.at = "hook" => d \in m.calls
      /\ c.by \in {"success", "giveup"} => Booked(m, n, x)
      /\ c.by = "kill" => n = m
      /\ c.by \notin {"success", "giveup", "kill"} => n = StartCleanup(m, x)
  BY <1>1, <1>5, AfterHookFrame DEF Frame
<1> HIDE DEF n
<1>9. Frame(reg, n, x)
  BY <1>1, <1>7, <1>8, LocalFrame, FrameFrame
<1>10. ASSUME x \in Tame
       PROVE  /\ Good(n, told', emitted', cut, x)
              /\ n.runs[x] = reg.runs[x] =>
                   (Announcing(n, x) \/ told'[x] = 1 => Announcing(reg, x) \/ told[x] = 1)
  <2>1. Good(reg, told, emitted, cut, x)
    BY <1>10 DEF IInv, GoodRuns
  <2>2. HookInFlight(reg, x) /\ Held(reg, x)
    BY <1>2 DEF HookInFlight, Held, x
  <2>3. emitted[x] = 1 /\ ~HookInFlight(m, x)
    BY <1>2, <1>5, <2>1, <2>2 DEF Good, Hooked, HookInFlight, x
  <2>4. /\ Present(m, x) <=> Present(reg, x)
        /\ Ended(m, x) <=> Ended(reg, x)
        /\ ~Unused(m, x) /\ ~Unused(reg, x)
        /\ Present(m, x) => Ended(m, x)
    BY <1>2, <1>4, <1>6, <2>1, <2>2 DEF Good, Guarded, Present, Ended, Unused, x
  <2>5. Announcing(m, x) <=> Announcing(reg, x)
    BY <1>2, <1>5 DEF Announcing, Announces
  <2>6. Guarded(m, told, x)
    <3>1. /\ m.runs[x].handled = reg.runs[x].handled /\ m.runs[x].done = reg.runs[x].done
          /\ m.runs[x].quiet = reg.runs[x].quiet /\ m.runs[x].tries = reg.runs[x].tries
      BY <1>4, <1>6, Zenon
    <3> QED BY <1>5, <2>1, <2>4, <2>5, <3>1 DEF Good, Guarded
  <2>7. Hooked(m, emitted, x)
    <3>1. m.runs[x].hooked
      BY <1>4, <1>6, Zenon
    <3> QED BY <1>5, <2>3, <2>4, <3>1 DEF Hooked, HookInFlight
  <2>8. emitted'[x] = emitted[x]
    <3>1. NewHooks(n, x) = {}
      BY <1>5, <1>8 DEF NewHooks
    <3> QED BY <1>1, <1>2, <1>8, <3>1, HooksCount
  <2>9. /\ Guarded(n, told, x) /\ Hooked(n, emitted, x)
    <3>1. CASE c.by \in {"success", "giveup"}
      BY <1>1, <1>5, <1>8, <2>6, <2>7, <3>1, BookedGood
    <3>2. CASE c.by = "kill"
      BY <1>8, <2>6, <2>7, <3>2
    <3>3. CASE c.by \notin {"success", "giveup", "kill"}
      <4>1. Moved(m, n, x)
        BY <1>1, <1>5, <1>8, <2>4, <3>3, CleanupFrame
      <4> QED BY <1>1, <1>5, <1>8, <2>6, <2>7, <4>1, MovedGuarded, MovedHooked
    <3> QED BY <3>1, <3>2, <3>3
  <2>10. ASSUME Expects(x), x \notin cut
         PROVE  Moving(n, x) /\ Told(n, emitted, x)
    <3>1. Moving(reg, x)
      BY <2>1, <2>10 DEF Good
    <3>2. Present(m, x) => Handling(reg, x) /\ Steered(reg, x) /\ Waiting(reg, x)
      BY <2>4, <3>1 DEF Moving
    <3>3. /\ m.runs[x].handled = reg.runs[x].handled /\ m.runs[x].done = reg.runs[x].done
          /\ m.runs[x].quiet = reg.runs[x].quiet
      BY <1>4, <1>6, Zenon
    <3>4. Present(m, x) => Steered(m, x) /\ Waiting(m, x)
      <4>1. Steered(reg, x) => Steered(m, x)
        BY <1>2, <1>5, <3>3 DEF Steered
      <4>2. Waiting(reg, x) => Waiting(m, x)
        BY <1>2, <1>5, <2>4, <3>3 DEF Waiting
      <4> QED BY <3>2, <4>1, <4>2
    <3>5. Present(m, x) /\ c.by \notin {"success", "giveup"} => Handling(m, x)
      <4>1. \A d \in reg.calls : d.run = x /\ d.at = "hook" => d = c
        BY <1>2, <2>1 DEF Good, Hooked, x
      <4> QED BY <2>5, <3>2, <3>3, <4>1 DEF Handling
    <3>6. CASE c.by \in {"success", "giveup"}
      BY <1>1, <1>5, <1>8, <2>3, <3>4, <3>6, BookedGood DEF Told
    <3>7. CASE c.by = "kill"
      BY <1>8, <2>3, <3>4, <3>5, <3>7 DEF Moving, Told
    <3>8. CASE c.by \notin {"success", "giveup", "kill"}
      <4>1. Moved(m, n, x) /\ (Present(n, x) => n.runs[x].handled \/ n.runs[x].done)
        BY <1>1, <1>5, <1>8, <2>4, <3>8, CleanupFrame
      <4>2. Present(n, x) => Handling(n, x) /\ Steered(n, x)
        BY <1>1, <1>5, <1>8, <3>4, <3>5, <3>8, <4>1, MovedParts
      <4> QED BY <2>3, <4>1, <4>2 DEF Moving, Waiting, Told
    <3> QED BY <3>6, <3>7, <3>8
  <2>11. Good(n, told', emitted', cut, x)
    BY <1>2, <2>8, <2>9, <2>10 DEF Good, Guarded, Hooked, Told
  <2>12. n.runs[x] # reg.runs[x] \/ (Announcing(n, x) => Announcing(reg, x))
    <3>1. CASE c.by \in {"success", "giveup"}
      BY <1>1, <1>8, <2>5, <3>1, MemFacts DEF Booked, SameCalls, Announcing, Announces
    <3>2. CASE c.by = "kill"
      BY <1>8, <2>5, <3>2
    <3>3. CASE c.by \notin {"success", "giveup", "kill"}
      <4>1. Moved(m, n, x)
        BY <1>1, <1>5, <1>8, <2>4, <3>3, CleanupFrame
      <4>2. ASSUME NEW d \in n.calls, Announces(d, x), d \notin m.calls
            PROVE  ~m.runs[x].handled /\ Present(m, x) /\ (Present(n, x) => n.runs[x].handled)
        BY <4>1, <4>2 DEF Moved, Announces
      <4>3. m.runs[x].handled = reg.runs[x].handled
        BY <1>4, <1>6, Zenon
      <4>4. ASSUME n.runs[x] = reg.runs[x]
            PROVE  Announcing(n, x) => Announcing(m, x)
        <5>1. Present(n, x) <=> Present(m, x)
          BY <2>4, <4>4 DEF Present
        <5> QED BY <4>2, <4>3, <4>4, <5>1 DEF Announcing
      <4> QED BY <2>5, <4>4
    <3> QED BY <3>1, <3>2, <3>3
  <2> QED BY <1>2, <2>11, <2>12
<1>11. \A r \in Runs \ {x} : told'[r] = told[r]
  BY <1>2
<1> QED BY <1>1, <1>2, <1>3, <1>9, <1>10, <1>11, SavedStep

\* completeSubagentRun: the end is recorded, and a kill that it comes too late for is
\* taken back.
CompletedAs(m, n, x, reason, by) ==
  LET e == m.runs[x]
      f == n.runs[x]
  IN /\ n \in Mem /\ Local(m, n, x)
     /\ n.marks = m.marks
     /\ \A k \in {"retry", "backoff"} : <<x, k>> \in n.timers <=> <<x, k>> \in m.timers
     /\ n.calls = m.calls \cup {[run |-> x, at |-> "freeze", by |-> by]}
     /\ f.ended = reason /\ f.fate = e.fate /\ f.tries = e.tries /\ f.hooked = e.hooked
     /\ \/ /\ reason = "complete" /\ e.quiet = "killed"
           /\ f.quiet = "no" /\ ~f.handled /\ ~f.done
        \/ /\ ~(reason = "complete" /\ e.quiet = "killed" /\ (e.handled \/ e.done))
           /\ f.quiet = e.quiet /\ f.handled = e.handled /\ f.done = e.done

\* That is what Complete does.
LEMMA CompleteFacts ==
  ASSUME NEW m \in Mem, NEW x \in Runs, NEW reason \in {"complete", "error"},
         NEW by \in {"wait", "listener"}
  PROVE  CompletedAs(m, Complete(m, x, reason, by), x, reason, by)
<1> DEFINE e == m.runs[x]
           late == reason = "complete" /\ e.quiet = "killed" /\ (e.handled \/ e.done)
           p == e.expired /\ by = "wait"
           q == IF late THEN "no" ELSE e.quiet
           h == e.handled /\ ~late
           d == e.done /\ ~late
           f == [e EXCEPT !.ended = reason, !.expired = p, !.quiet = q, !.handled = h, !.done = d]
           o == [m EXCEPT !.timers = @ \ {<<x, "grace">>}, !.runs[x] = f]
           n == WithCall(o, x, "freeze", by)
<1>1. n = Complete(m, x, reason, by)
  BY DEF Complete
<1>2. e \in Rec
  BY MemFacts
<1>3. /\ p \in BOOLEAN /\ h \in BOOLEAN /\ d \in BOOLEAN /\ q \in {"no", "steer", "killed"}
      /\ late => ~h /\ ~d /\ q = "no" /\ reason = "complete" /\ e.quiet = "killed"
      /\ ~late => h = e.handled /\ d = e.done /\ q = e.quiet
  <2>1. e.handled \in BOOLEAN /\ e.done \in BOOLEAN /\ e.quiet \in {"no", "steer", "killed"}
    BY <1>2 DEF Rec
  <2> HIDE DEF e
  <2>2. p \in BOOLEAN /\ h \in BOOLEAN /\ d \in BOOLEAN
    OBVIOUS
  <2>3. CASE late
    BY <2>1, <2>2, <2>3
  <2>4. CASE ~late
    <3>1. h = e.handled
      BY <2>1, <2>4, Zenon
    <3>2. d = e.done
      BY <2>1, <2>4, Zenon
    <3> HIDE DEF h, d, p
    <3> QED BY <2>1, <2>2, <2>4, <3>1, <3>2
  <2> QED BY <2>3, <2>4
<1>4. late <=> reason = "complete" /\ e.quiet = "killed" /\ (e.handled \/ e.done)
  OBVIOUS
<1> HIDE DEF p, h, d, q, late, e
<1>5. /\ f \in Rec /\ f.ended = reason /\ f.fate = e.fate /\ f.tries = e.tries /\ f.hooked = e.hooked
      /\ f.quiet = q /\ f.handled = h /\ f.done = d
  BY <1>2, <1>3 DEF Rec
<1> HIDE DEF f
<1>6. /\ o \in Mem /\ o.runs = [m.runs EXCEPT ![x] = f] /\ o.marks = m.marks
      /\ o.timers = m.timers \ {<<x, "grace">>} /\ o.calls = m.calls
  <2>1. [m.runs EXCEPT ![x] = f] \in [Runs -> Rec]
    BY <1>5, MemFacts
  <2> QED BY <2>1 DEF Mem
<1> HIDE DEF o
<1>7. /\ o.runs[x] = f /\ \A r \in Runs \ {x} : o.runs[r] = m.runs[r]
  BY <1>5, <1>6, MemFacts
<1>8. Local(m, o, x)
  BY <1>5, <1>6, <1>7 DEF Local, Same, e
<1>9. /\ Local(o, n, x) /\ n \in Mem /\ n.runs = o.runs /\ n.marks = o.marks /\ n.timers = o.timers
      /\ n.calls = o.calls \cup {[run |-> x, at |-> "freeze", by |-> by]}
  <2> DEFINE z == [run |-> x, at |-> "freeze", by |-> by]
  <2>1. "freeze" \in Stages /\ by \in Causes /\ o \in Mem
    BY <1>6 DEF Stages, Causes
  <2>2. /\ n.runs = o.runs /\ n.marks = o.marks /\ n.timers = o.timers
        /\ z \in Call /\ n.calls = o.calls \cup {z}
    BY <2>1, CallFrame
  <2>3. Local(o, n, x) /\ n \in Mem
    BY <2>1, CallFrame
  <2> QED BY <2>2, <2>3
<1> HIDE DEF n
<1>10. Local(m, n, x)
  BY <1>6, <1>8, <1>9, LocalLocal
<1>11. \/ /\ reason = "complete" /\ e.quiet = "killed"
          /\ f.quiet = "no" /\ ~f.handled /\ ~f.done
       \/ /\ ~(reason = "complete" /\ e.quiet = "killed" /\ (e.handled \/ e.done))
          /\ f.quiet = e.quiet /\ f.handled = e.handled /\ f.done = e.done
  <2>1. CASE late
    BY <1>3, <1>5, <2>1
  <2>2. CASE ~late
    <3>1. f.quiet = e.quiet /\ f.handled = e.handled /\ f.done = e.done
      BY <1>3, <1>5, <2>2, Zenon
    <3> QED BY <1>4, <2>2, <3>1
  <2> QED BY <2>1, <2>2
<1>12. \A k \in {"retry", "backoff"} : <<x, k>> \in n.timers <=> <<x, k>> \in m.timers
  BY <1>6, <1>9
<1>13. CompletedAs(m, n, x, reason, by)
  BY <1>5, <1>6, <1>7, <1>9, <1>10, <1>11, <1>12 DEF e, CompletedAs
<1> QED BY <1>1, <1>13

\* Of these, what concerns the other runs.
LEMMA CompleteLocal ==
  ASSUME NEW m \in Mem, NEW x \in Runs, NEW reason \in {"complete", "error"},
         NEW by \in {"wait", "listener"}
  PROVE  LET n == Complete(m, x, reason, by)
         IN /\ n \in Mem /\ Local(m, n, x) /\ n.runs[x].hooked = m.runs[x].hooked
            /\ n.runs[x].fate = m.runs[x].fate
<1> DEFINE n == Complete(m, x, reason, by)
<1>1. CompletedAs(m, n, x, reason, by)
  BY CompleteFacts
<1> HIDE DEF n
<1>2. n \in Mem /\ Local(m, n, x) /\ n.runs[x].hooked = m.runs[x].hooked /\ n.runs[x].fate = m.runs[x].fate
  BY <1>1, Zenon DEF CompletedAs
<1> QED BY <1>2, Zenon DEF n

\* completeSubagentRun up to its first await keeps the invariant of the run.
LEMMA CompleteGood ==
  ASSUME NEW m \in Mem, NEW x \in Runs, NEW reason \in {"complete", "error"},
         NEW by \in {"wait", "listener"}, Present(m, x),
         NEW tl, NEW em, NEW ct, Good(m, tl, em, ct, x)
  PROVE  LET n == Complete(m, x, reason, by)
         IN /\ Good(n, tl, em, ct, x)
            /\ Announcing(n, x) <=> Announcing(m, x)
            /\ \A c \in n.calls : c.at = "hook" => c \in m.calls
<1> DEFINE n == Complete(m, x, reason, by)
<1>0. CompletedAs(m, n, x, reason, by)
  BY CompleteFacts
<1> DEFINE e == m.runs[x]
           f == n.runs[x]
           z == [run |-> x, at |-> "freeze", by |-> by]
<1>1. /\ n \in Mem /\ Local(m, n, x)
      /\ n.marks = m.marks
      /\ \A k \in {"retry", "backoff"} : <<x, k>> \in n.timers <=> <<x, k>> \in m.timers
      /\ n.calls = m.calls \cup {z}
      /\ f.ended = reason /\ f.fate = e.fate /\ f.tries = e.tries /\ f.hooked = e.hooked
      /\ \/ /\ reason = "complete" /\ e.quiet = "killed"
            /\ f.quiet = "no" /\ ~f.handled /\ ~f.done
         \/ /\ ~(reason = "complete" /\ e.quiet = "killed" /\ (e.handled \/ e.done))
            /\ f.quiet = e.quiet /\ f.handled = e.handled /\ f.done = e.done
  BY <1>0, Zenon DEF CompletedAs
<1>2. z.run = x /\ z.at = "freeze"
  OBVIOUS
<1> HIDE DEF n, z
<1>3. /\ Present(n, x) /\ Ended(n, x) /\ ~Unused(n, x) /\ ~Unused(m, x)
      /\ Announcing(n, x) <=> Announcing(m, x)
      /\ HookInFlight(n, x) <=> HookInFlight(m, x)
      /\ Held(n, x)
      /\ \A c \in n.calls : c.at # "freeze" => c \in m.calls
  BY <1>1, <1>2 DEF Present, Ended, Unused, Announcing, Announces, HookInFlight, Held
<1>4. Guarded(m, tl, x) /\ Hooked(m, em, x)
  BY DEF Good
<1>5. MaxTries # 0 /\ e.tries \in Nat
  <2>1. e \in Rec
    BY MemFacts
  <2> QED BY <2>1, ConstantTypes DEF Rec
<1>6. CASE reason = "complete" /\ e.quiet = "killed" /\ f.quiet = "no" /\ ~f.handled /\ ~f.done
  <2>1. ~Announcing(m, x) /\ tl[x] = 0 /\ e.tries = 0
    BY <1>4, <1>5, <1>6 DEF Guarded
  <2>2. Guarded(n, tl, x)
    BY <1>1, <1>3, <1>4, <1>5, <1>6, <2>1 DEF Guarded, Announcing
  <2>3. Hooked(n, em, x)
    BY <1>1, <1>3, <1>4 DEF Hooked
  <2>4. Moving(n, x)
    <3>1. Waiting(n, x)
      BY <1>1, <1>2 DEF Waiting
    <3>2. Handling(n, x) /\ Steered(n, x)
      BY <1>6 DEF Handling, Steered
    <3> QED BY <3>1, <3>2 DEF Moving
  <2>5. Told(n, em, x)
    BY <1>1, <1>3, <1>5, <1>6, <2>1 DEF Told, Present
  <2>6. Good(n, tl, em, ct, x)
    BY <2>2, <2>3, <2>4, <2>5 DEF Good
  <2> QED BY <1>3, <2>6 DEF n
<1>7. CASE /\ ~(reason = "complete" /\ e.quiet = "killed" /\ (e.handled \/ e.done))
           /\ f.quiet = e.quiet /\ f.handled = e.handled /\ f.done = e.done
  <2>1. Guarded(n, tl, x)
    BY <1>1, <1>3, <1>4, <1>7 DEF Guarded, Announces
  <2>2. Hooked(n, em, x)
    BY <1>1, <1>3, <1>4 DEF Hooked
  <2>3. Moving(m, x) => Moving(n, x)
    <3>1. Waiting(n, x)
      BY <1>1, <1>2 DEF Waiting
    <3>2. Handling(m, x) => Handling(n, x)
      BY <1>1, <1>3, <1>7 DEF Handling
    <3>3. Steered(m, x) => Steered(n, x)
      BY <1>1, <1>7 DEF Steered
    <3> QED BY <3>1, <3>2, <3>3 DEF Moving
  <2>4. Told(m, em, x) => Told(n, em, x)
    BY <1>1, <1>3, <1>7 DEF Told, Present
  <2>5. Good(n, tl, em, ct, x)
    BY <2>1, <2>2, <2>3, <2>4 DEF Good
  <2> QED BY <1>3, <2>5 DEF n
<1> QED BY <1>1, <1>6, <1>7

\* A memory in which nothing but waits and error timers differs.
LEMMA SameGood ==
  ASSUME IInv, NEW m \in Mem, NEW x \in Tame, Same(reg, m, x)
  PROVE  Good(m, told, emitted, cut, x) /\ (Announcing(m, x) <=> Announcing(reg, x))
<1>1. x \in Runs /\ reg \in Mem /\ Good(reg, told, emitted, cut, x)
  BY DEF Tame, IInv, Types, GoodRuns
<1> QED BY <1>1, SameMoved, MovedGood, MemFacts DEF Same, Announcing, Announces

\* A step without a save of which the memory is all that matters to the invariant.
LEMMA QuietStep ==
  ASSUME IInv, NEW n, NEW x \in Runs, Local(reg, n, x), Become(n), Rest', UNCHANGED <<disk, told, cut>>,
         x \in Tame => /\ Good(n, told, emitted, cut, x)
                       /\ n.runs[x].hooked = reg.runs[x].hooked
                       /\ Announcing(n, x) <=> Announcing(reg, x)
                       /\ \A c \in n.calls : c.run = x /\ c.at = "hook" => c \in reg.calls
  PROVE  IInv'
<1>1. reg \in Mem /\ emitted \in [Runs -> Nat] /\ n \in Mem /\ Frame(reg, n, x)
  BY LocalFrame DEF IInv, Types, Local
<1>2. Present(n, x) <=> Present(reg, x)
  BY DEF Local, Present
<1>3. \A r \in Runs \ {x} : told'[r] = told[r] /\ n.runs[r] = reg.runs[r]
  BY DEF Local, Same
<1>4. ASSUME x \in Tame
      PROVE  Good(n, told', emitted', cut, x)
  <2>1. NewHooks(n, x) = {}
    BY <1>4 DEF NewHooks
  <2>2. emitted'[x] = emitted[x]
    BY <1>1, <2>1, HooksCount
  <2> QED BY <1>4, <2>2 DEF Good, Guarded, Hooked, Told
<1> QED BY <1>1, <1>2, <1>3, <1>4, UnsavedStep

\* The end of a run is heard of by the listener or the grace timer.
LEMMA CompleteStep ==
  ASSUME IInv, NEW m \in Mem, NEW x \in Runs, NEW reason \in {"complete", "error"},
         Local(reg, m, x), Same(reg, m, x), Present(m, x),
         Become(Complete(m, x, reason, "listener")), Rest', UNCHANGED <<disk, told, cut>>
  PROVE  IInv'
<1> DEFINE n == Complete(m, x, reason, "listener")
<1>1. /\ n \in Mem /\ Local(m, n, x) /\ n.runs[x].hooked = m.runs[x].hooked
  <2> DEFINE by == "listener"
             p == Complete(m, x, reason, by)
  <2>1. by \in {"wait", "listener"}
    OBVIOUS
  <2> HIDE DEF by
  <2>2. p \in Mem /\ Local(m, p, x) /\ p.runs[x].hooked = m.runs[x].hooked
    BY <2>1, CompleteLocal
  <2> QED BY <2>2 DEF by
<1>2. ASSUME x \in Tame
      PROVE  /\ Good(n, told, emitted, cut, x)
             /\ Announcing(n, x) <=> Announcing(reg, x)
             /\ \A c \in n.calls : c.at = "hook" => c \in m.calls
  BY <1>2, SameGood, CompleteGood
<1>3. reg \in Mem
  BY DEF IInv, Types
<1> HIDE DEF n
<1>4. Local(reg, n, x) /\ n.runs[x].hooked = reg.runs[x].hooked
  BY <1>1, <1>3, LocalLocal DEF Same
<1>5. ASSUME x \in Tame, NEW c \in n.calls, c.run = x, c.at = "hook"
      PROVE  c \in reg.calls
  <2>1. c \in m.calls /\ c \in Call
    BY <1>1, <1>2, <1>5, MemFacts
  <2> QED BY <1>5, <2>1 DEF Same
<1>6. Become(n)
  BY DEF n
<1> QED BY <1>2, <1>4, <1>5, <1>6, QuietStep

\* An error timer is dropped.
LEMMA GraceFacts ==
  ASSUME IInv, NEW x \in Runs
  PROVE  LET m == [reg EXCEPT !.timers = @ \ {<<x, "grace">>}]
         IN m \in Mem /\ Local(reg, m, x) /\ Same(reg, m, x)
<1> DEFINE m == [reg EXCEPT !.timers = @ \ {<<x, "grace">>}]
<1>1. /\ m \in Mem /\ m.runs = reg.runs /\ m.marks = reg.marks /\ m.calls = reg.calls
      /\ m.timers = reg.timers \ {<<x, "grace">>}
  BY DEF IInv, Types, Mem
<1> HIDE DEF m
<1>2. \A r \in Runs : Same(reg, m, r)
  BY <1>1 DEF Same
<1> QED BY <1>1, <1>2 DEF Local, m

\* Nothing that matters happens to the memory.
LEMMA NoStep ==
  ASSUME IInv, NEW n \in Mem, NEW x \in Runs, Local(reg, n, x), Same(reg, n, x), Become(n), Rest',
         UNCHANGED <<disk, told, cut>>
  PROVE  IInv'
<1>1. ASSUME x \in Tame
      PROVE  /\ Good(n, told, emitted, cut, x)
             /\ n.runs[x].hooked = reg.runs[x].hooked
             /\ Announcing(n, x) <=> Announcing(reg, x)
             /\ \A c \in n.calls : c.run = x /\ c.at = "hook" => c \in reg.calls
  BY <1>1, SameGood, MemFacts DEF Same
<1> QED BY <1>1, QuietStep

\* The lifecycle listener and the grace timer keep the invariant.
LEMMA ListenerSteps ==
  ASSUME IInv, NEW r \in Runs,
         LifecycleEnd(r) \/ LifecycleError(r) \/ LifecycleStart(r) \/ GraceEnds(r)
  PROVE  IInv'
<1>1. Rest /\ reg \in Mem
  BY DEF IInv, Types
<1>2. Local(reg, reg, r) /\ Same(reg, reg, r)
  BY <1>1 DEF Local, Same
<1>3. CASE LifecycleEnd(r)
  <2>1. Rest' /\ UNCHANGED <<disk, told, cut>>
    BY <1>1, <1>3 DEF LifecycleEnd, Rest
  <2>2. CASE Present(reg, r)
    <3>1. Become(Complete(reg, r, "complete", "listener"))
      BY <1>3, <2>2 DEF LifecycleEnd
    <3> QED BY <1>1, <1>2, <2>1, <2>2, <3>1, CompleteStep
  <2>3. CASE ~Present(reg, r)
    <3>1. Become(reg)
      BY <1>3, <2>3 DEF LifecycleEnd
    <3> QED BY <1>1, <1>2, <2>1, <3>1, NoStep
  <2> QED BY <2>2, <2>3
<1>4. CASE LifecycleError(r)
  <2> DEFINE T == {<<q, "grace">> : q \in {q \in {r} : Present(reg, q)}}
             n == [reg EXCEPT !.timers = @ \cup T]
  <2>1. Rest' /\ UNCHANGED <<disk, told, cut>> /\ Become(n)
    <3>1. incidents' \in 0..MaxIncidents
      BY <1>1, <1>4, RegistryAssumption DEF LifecycleError, Incident, Rest
    <3> QED BY <1>1, <1>4, <3>1 DEF LifecycleError, Rest
  <2>2. /\ n \in Mem /\ n.runs = reg.runs /\ n.marks = reg.marks /\ n.calls = reg.calls
        /\ n.timers = reg.timers \cup T
    BY <1>1 DEF Mem, Timers
  <2>3. \A q \in Runs : \A k \in {"retry", "backoff"} : <<q, k>> \in n.timers <=> <<q, k>> \in reg.timers
    BY <2>2
  <2> HIDE DEF n
  <2>4. \A q \in Runs : Same(reg, n, q)
    BY <2>2, <2>3 DEF Same
  <2>5. Local(reg, n, r)
    BY <2>2, <2>4 DEF Local
  <2> QED BY <2>1, <2>2, <2>4, <2>5, NoStep
<1>5. CASE LifecycleStart(r)
  <2>1. Rest' /\ UNCHANGED <<disk, told, cut>> /\ Become([reg EXCEPT !.timers = @ \ {<<r, "grace">>}])
    BY <1>1, <1>5 DEF LifecycleStart, Rest
  <2> QED BY <2>1, GraceFacts, NoStep
<1>6. CASE GraceEnds(r)
  <2> DEFINE m == [reg EXCEPT !.timers = @ \ {<<r, "grace">>}]
  <2>1. Rest' /\ UNCHANGED <<disk, told, cut>>
    BY <1>1, <1>6 DEF GraceEnds, Rest
  <2>2. m \in Mem /\ Local(reg, m, r) /\ Same(reg, m, r)
    BY GraceFacts
  <2>3. Become(IF Present(m, r) /\ m.runs[r].ended # "complete"
               THEN Complete(m, r, "error", "listener") ELSE m)
    BY <1>6 DEF GraceEnds
  <2> HIDE DEF m
  <2>4. CASE Present(m, r) /\ m.runs[r].ended # "complete"
    BY <2>1, <2>2, <2>3, <2>4, CompleteStep
  <2>5. CASE ~(Present(m, r) /\ m.runs[r].ended # "complete")
    BY <2>1, <2>2, <2>3, <2>5, NoStep
  <2> QED BY <2>4, <2>5
<1> QED BY <1>3, <1>4, <1>5, <1>6

\* A wait is over.
LEMMA WaitGone ==
  ASSUME IInv, NEW c \in reg.calls, c.at = "wait"
  PROVE  LET m == [reg EXCEPT !.calls = @ \ {c}]
         IN c.run \in Runs /\ m \in Mem /\ Local(reg, m, c.run) /\ Same(reg, m, c.run)
<1> DEFINE m == [reg EXCEPT !.calls = @ \ {c}]
<1>1. reg \in Mem /\ c \in Call
  BY MemFacts DEF IInv, Types
<1>2. /\ Local(reg, m, c.run)
      /\ m \in Mem /\ m.runs = reg.runs /\ m.marks = reg.marks /\ m.timers = reg.timers
      /\ m.calls = reg.calls \ {c}
  BY <1>1, Without
<1>3. c.run \in Runs
  BY <1>1 DEF Call
<1> HIDE DEF m
<1>4. Same(reg, m, c.run)
  BY <1>2 DEF Same
<1> QED BY <1>2, <1>3, <1>4 DEF m

\* A wait that fails keeps the invariant.
LEMMA WaitFailsStep ==
  ASSUME IInv, NEW c \in reg.calls, WaitFails(c)
  PROVE  IInv'
<1>1. Rest' /\ UNCHANGED <<disk, told, cut>>
  <2>1. incidents' \in 0..MaxIncidents
    BY RegistryAssumption DEF IInv, Types, Rest, WaitFails, Incident
  <2> QED BY <2>1 DEF WaitFails, IInv, Types, Rest
<1>2. c.at = "wait" /\ Become([reg EXCEPT !.calls = @ \ {c}])
  BY DEF WaitFails
<1> QED BY <1>1, <1>2, WaitGone, NoStep

\* The end that "agent.wait" tells of is saved before the record is completed.
EndedAs(m, x, reason) == [m EXCEPT !.runs[x].ended = reason]

EndRec(e, reason) == [e EXCEPT !.ended = reason]

\* The end that agent.wait reports, as it is saved before completeSubagentRun.
LEMMA EndSaved ==
  ASSUME NEW m \in Mem, NEW x \in Runs, NEW reason \in {"complete", "error"}
  PROVE  LET h == EndedAs(m, x, reason)
         IN /\ h \in Mem
            /\ h.runs[x] = EndRec(m.runs[x], reason)
            /\ \A r \in Runs \ {x} : h.runs[r] = m.runs[r]
<1> DEFINE e == EndRec(m.runs[x], reason)
<1>1. m.runs[x] \in Rec /\ m.runs \in [Runs -> Rec]
  BY MemFacts
<1>2. e \in Rec
  BY <1>1 DEF Rec, EndRec
<1> HIDE DEF e
<1>3. [m.runs EXCEPT ![x] = e] \in [Runs -> Rec]
  BY <1>2, PutRecord
<1>4. [m EXCEPT !.runs[x] = e] \in Mem
  BY <1>3 DEF Mem
<1>5. [m EXCEPT !.runs[x] = e].runs = [m.runs EXCEPT ![x] = e]
  BY DEF Mem
<1>6. [m EXCEPT !.runs[x].ended = reason] = [m EXCEPT !.runs[x] = e]
  BY DEF e, EndRec
<1> QED BY <1>1, <1>4, <1>5, <1>6 DEF e, EndedAs

\* That record, saved ahead of the memory, knows enough of it.
LEMMA EndStored ==
  ASSUME IInv, NEW n \in Mem, NEW x \in Tame, NEW d \in Rec, NEW reason \in {"complete", "error"},
         Present(reg, x), d = EndRec(reg.runs[x], reason),
         n.runs[x].hooked = reg.runs[x].hooked,
         Announcing(n, x) <=> Announcing(reg, x)
  PROVE  Stored(d, n, told, emitted, cut, x)
<1>1. /\ Guarded(reg, told, x) /\ reg.runs[x] \in Rec /\ reason # "no"
      /\ Expects(x) /\ x \notin cut => Told(reg, emitted, x)
  BY MemFacts DEF IInv, Types, GoodRuns, Good, Tame
<1>2. /\ d.tries = reg.runs[x].tries /\ d.hooked = reg.runs[x].hooked /\ d.done = reg.runs[x].done
      /\ d.handled = reg.runs[x].handled /\ d.quiet = reg.runs[x].quiet /\ d.ended = reason
  BY <1>1 DEF Rec, EndRec
<1>3. d.tries <= MaxTries /\ d.hooked = n.runs[x].hooked
  BY <1>1, <1>2 DEF Guarded
<1>4. Announcing(n, x) \/ told[x] = 1 => d.handled /\ d.ended # "no" /\ d.quiet # "killed"
  BY <1>1, <1>2 DEF Guarded
<1>5. d.quiet = "killed" => d.handled /\ d.done
  BY <1>1, <1>2 DEF Guarded
<1>6. d.tries = MaxTries => d.handled
  BY <1>1, <1>2 DEF Guarded
<1>7. d.tries > 0 => d.ended # "no" /\ d.quiet # "killed"
  BY <1>1, <1>2 DEF Guarded
<1>8. Expects(x) /\ x \notin cut /\ (d.done \/ d.tries = MaxTries) => emitted[x] = 1
  BY <1>1, <1>2 DEF Told
<1> QED BY <1>3, <1>4, <1>5, <1>6, <1>7, <1>8 DEF Stored

\* The answer of agent.wait keeps the invariant.
LEMMA WaitAnswersStep ==
  ASSUME IInv, NEW c \in reg.calls, NEW reason \in {"complete", "error"}, WaitAnswers(c, reason)
  PROVE  IInv'
<1> DEFINE x == c.run
           m == [reg EXCEPT !.calls = @ \ {c}]
           h == EndedAs(m, x, reason)
           n == Complete(m, x, reason, "wait")
<1>1. Rest' /\ cut' = cut /\ told' = told /\ c.at = "wait"
  BY DEF IInv, Types, Rest, WaitAnswers
<1>2. x \in Runs /\ m \in Mem /\ Local(reg, m, x) /\ Same(reg, m, x)
  BY <1>1, WaitGone
<1>3. reg \in Mem /\ emitted \in [Runs -> Nat]
  BY DEF IInv, Types
<1>4. CASE ~Present(m, x)
  <2>1. Become(m) /\ UNCHANGED disk
    BY <1>4 DEF WaitAnswers
  <2> QED BY <1>1, <1>2, <2>1, NoStep
<1>5. CASE Present(m, x)
  <2>1. Become(n) /\ disk' = Saved(h)
    BY <1>5 DEF WaitAnswers, EndedAs
  <2> HIDE DEF m, x
  <2>2. /\ h \in Mem /\ h.runs[x] = EndRec(m.runs[x], reason)
        /\ \A r \in Runs \ {x} : h.runs[r] = m.runs[r]
    BY <1>2, EndSaved
  <2>3. /\ n \in Mem /\ Local(m, n, x) /\ n.runs[x].hooked = m.runs[x].hooked
        /\ n.runs[x].fate = m.runs[x].fate
    <3> DEFINE by == "wait"
               p == Complete(m, x, reason, by)
    <3>1. by \in {"wait", "listener"}
      OBVIOUS
    <3> HIDE DEF by
    <3>2. /\ p \in Mem /\ Local(m, p, x) /\ p.runs[x].hooked = m.runs[x].hooked
          /\ p.runs[x].fate = m.runs[x].fate
      BY <1>2, <3>1, CompleteLocal
    <3> QED BY <3>2 DEF by
  <2>4. ASSUME x \in Tame
        PROVE  /\ Good(n, told, emitted, cut, x)
               /\ Announcing(n, x) <=> Announcing(reg, x)
               /\ \A d \in n.calls : d.at = "hook" => d \in m.calls
    BY <1>2, <1>5, <2>4, SameGood, CompleteGood
  <2> HIDE DEF h, n
  <2>5. Local(reg, n, x) /\ n.runs[x].hooked = reg.runs[x].hooked
    BY <1>2, <1>3, <2>3, LocalLocal DEF Same
  <2>6. Frame(reg, n, x) /\ WakeInv(n)
    BY <1>2, <1>3, <2>5, LocalFrame, FrameWake
  <2>7. \A r \in Runs : Present(h, r) <=> Present(n, r)
    <3>1. m.runs[x] \in Rec
      BY <1>2, MemFacts
    <3>2. h.runs[x].fate = m.runs[x].fate
      BY <2>2, <3>1 DEF Rec, EndRec
    <3>3. \A r \in Runs \ {x} : h.runs[r].fate = n.runs[r].fate
      BY <2>2, <2>3 DEF Local, Same
    <3> QED BY <2>3, <3>2, <3>3 DEF Present
  <2> DEFINE X == {x}
  <2>8. Written(n, X)
    <3>1. /\ disk' \in [Runs -> Rec]
          /\ \A r \in Runs : disk'[r].fate = "here" <=> Present(n, r)
      BY <2>1, <2>2, <2>7, SavedTypes
    <3>2. ASSUME NEW r \in Runs \ X
          PROVE  disk'[r] = Saved(n)[r]
      <4>1. h.runs[r] = n.runs[r] /\ r \in Runs
        BY <2>2, <2>3 DEF Local, Same
      <4> QED BY <2>1, <2>7, <4>1 DEF Saved
    <3> HIDE DEF X
    <3> QED BY <3>1, <3>2 DEF Written
  <2>9. \A r \in Runs \ X : Moved(reg, n, r) /\ told'[r] = told[r]
    BY <1>1, <2>6 DEF Frame
  <2>10. ASSUME NEW r \in X \cap Tame
         PROVE  /\ Good(n, told', emitted', cut, r)
                /\ Stored(disk'[r], n, told', emitted', cut, r)
    <3>1. r = x /\ x \in Tame
      BY <2>10
    <3>2. NewHooks(n, x) = {}
      <4>1. ASSUME NEW d \in n.calls, d.run = x, d.at = "hook"
            PROVE  d \in reg.calls
        <5>1. d \in m.calls /\ d \in Call
          BY <2>3, <2>4, <3>1, <4>1, MemFacts
        <5> QED BY <1>2, <4>1, <5>1 DEF Same
      <4> QED BY <4>1 DEF NewHooks
    <3>3. emitted'[x] = emitted[x]
      BY <1>2, <1>3, <2>1, <2>3, <3>2, HooksCount
    <3>4. Good(n, told', emitted', cut, x)
      BY <1>1, <2>4, <3>1, <3>3 DEF Good, Guarded, Hooked, Told
    <3> DEFINE d == EndRec(reg.runs[x], reason)
    <3>5. disk'[x] = d /\ Present(reg, x)
      <4>1. h.runs[x] = d
        BY <1>2, <2>2 DEF Same
      <4>2. Present(h, x) /\ Present(reg, x)
        BY <1>2, <1>5, <2>3, <2>7 DEF Present, Same
      <4> HIDE DEF d
      <4> QED BY <1>2, <2>1, <4>1, <4>2 DEF Saved
    <3>6. d \in Rec
      <4>1. reg.runs[x] \in Rec
        BY <1>2, <1>3, MemFacts
      <4> QED BY <4>1 DEF Rec, EndRec
    <3>7. d = EndRec(reg.runs[x], reason)
      OBVIOUS
    <3> HIDE DEF d
    <3>8. Stored(d, n, told, emitted, cut, x)
      BY <2>3, <2>4, <2>5, <3>1, <3>5, <3>6, <3>7, EndStored
    <3>9. Stored(disk'[x], n, told', emitted', cut, x)
      BY <1>1, <3>3, <3>5, <3>8 DEF Stored
    <3> QED BY <3>1, <3>4, <3>9
  <2>11. X \in SUBSET Runs
    BY <1>2
  <2> HIDE DEF X
  <2> QED BY <1>1, <2>1, <2>3, <2>6, <2>8, <2>9, <2>10, <2>11, StepInv
<1> QED BY <1>4, <1>5

\* The record of x is exchanged for f.
PutIn(m, x, f) == [m EXCEPT !.runs = [@ EXCEPT ![x] = f]]

\* PutIn replaces one record and nothing else.
LEMMA PutInFacts ==
  ASSUME NEW m \in Mem, NEW x \in Runs, NEW f \in Rec
  PROVE  LET o == PutIn(m, x, f)
         IN /\ o \in Mem /\ o.runs[x] = f /\ \A r \in Runs \ {x} : o.runs[r] = m.runs[r]
            /\ o.marks = m.marks /\ o.timers = m.timers /\ o.calls = m.calls
<1> DEFINE o == PutIn(m, x, f)
<1>1. /\ o \in Mem /\ o.runs = [m.runs EXCEPT ![x] = f]
      /\ o.marks = m.marks /\ o.timers = m.timers /\ o.calls = m.calls
  BY DEF Mem, PutIn
<1> HIDE DEF o
<1>2. o.runs[x] = f /\ \A r \in Runs \ {x} : o.runs[r] = m.runs[r]
  BY <1>1, MemFacts
<1> QED BY <1>1, <1>2 DEF o

\* The fields of a record that the invariant reads are the same.
Alike(e, f) ==
  /\ f.fate = e.fate /\ f.ended = e.ended /\ f.handled = e.handled /\ f.done = e.done
  /\ f.quiet = e.quiet /\ f.hooked = e.hooked /\ f.tries = e.tries

\* A tweak that leaves the attempts alone moves the run, in the sense of Moved.
LEMMA TweakMoved ==
  ASSUME NEW m \in Mem, NEW o, NEW x \in Runs, NEW t, t = m.runs[x].tries, Tweak(m, o, x, t)
  PROVE  Moved(m, o, x)
BY MemFacts DEF Tweak, Moved, Present, Ended

\* A step that makes a record alike, in memory and on disk, keeps the invariant.
LEMMA FieldStep ==
  ASSUME IInv, NEW x \in Runs, NEW f \in Rec, Alike(reg.runs[x], f), Become(PutIn(reg, x, f)), Rest',
         told' = told, cut' = cut, NEW d \in Rec, Alike(disk[x], d), disk' = [disk EXCEPT ![x] = d]
  PROVE  IInv'
<1> DEFINE n == PutIn(reg, x, f)
           t == reg.runs[x].tries
<1>1. reg \in Mem /\ disk \in [Runs -> Rec] /\ emitted \in [Runs -> Nat]
  BY DEF IInv, Types
<1>2. /\ n \in Mem /\ n.runs[x] = f /\ \A r \in Runs \ {x} : n.runs[r] = reg.runs[r]
      /\ n.marks = reg.marks /\ n.timers = reg.timers /\ n.calls = reg.calls
  BY <1>1, PutInFacts
<1> HIDE DEF n
<1>3. Tweak(reg, n, x, t)
  BY <1>2, Zenon DEF Tweak, Alike
<1>4. t = reg.runs[x].tries
  OBVIOUS
<1> HIDE DEF t
<1>5. Moved(reg, n, x) /\ Local(reg, n, x) /\ (Announcing(n, x) <=> Announcing(reg, x))
  BY <1>1, <1>3, <1>4, TweakMoved, TweakFacts
<1>6. Frame(reg, n, x) /\ WakeInv(n)
  BY <1>1, <1>5, LocalFrame, FrameWake
<1> DEFINE X == {x}
<1>7. Written(n, X)
  <2>1. disk' \in [Runs -> Rec] /\ disk'[x] = d /\ \A r \in Runs \ {x} : disk'[r] = disk[r]
    BY <1>1
  <2>2. \A r \in Runs : Present(n, r) <=> Present(reg, r)
    BY <1>2 DEF Present, Alike
  <2>3. \A r \in Runs : disk'[r].fate = disk[r].fate
    BY <2>1 DEF Alike
  <2>4. \A r \in Runs : disk'[r].fate = "here" <=> Present(n, r)
    BY <2>2, <2>3 DEF IInv, OnDisk
  <2> QED BY <1>2, <2>1, <2>4 DEF Written
<1>8. \A r \in Runs \ X : Moved(reg, n, r) /\ told'[r] = told[r]
  BY <1>6 DEF Frame
<1>9. ASSUME NEW r \in X \cap Tame
      PROVE  /\ Good(n, told', emitted', cut, r)
             /\ Stored(disk'[r], n, told', emitted', cut, r)
  <2>1. r = x /\ x \in Tame
    BY <1>9
  <2>2. Good(reg, told, emitted, cut, x) /\ Stored(disk[x], reg, told, emitted, cut, x)
    BY <2>1 DEF IInv, GoodRuns
  <2>3. NewHooks(n, x) = {}
    BY <1>2 DEF NewHooks
  <2>4. emitted'[x] = emitted[x]
    BY <1>1, <1>2, <2>3, HooksCount DEF n
  <2>5. Good(n, told, emitted, cut, x)
    BY <1>1, <1>2, <1>5, <2>2, MovedGood
  <2>6. Good(n, told', emitted', cut, x)
    BY <2>4, <2>5 DEF Good, Guarded, Hooked, Told
  <2>7. /\ Present(n, x) <=> Present(reg, x)
        /\ n.runs[x].hooked = reg.runs[x].hooked
        /\ disk'[x] = d
    BY <1>1, <1>2 DEF Alike, Present
  <2>8. Stored(disk'[x], n, told', emitted', cut, x)
    BY <1>5, <2>2, <2>4, <2>7 DEF Stored, Alike
  <2> QED BY <2>1, <2>6, <2>8
<1>10. X \in SUBSET Runs
  OBVIOUS
<1>11. Become(n)
  BY DEF n
<1> HIDE DEF X
<1> QED BY <1>2, <1>6, <1>7, <1>8, <1>9, <1>10, <1>11, StepInv

SetCooling(e, b) == [e EXCEPT !.cooling = b]
SetExpired(e, b) == [e EXCEPT !.expired = b]

\* Setting the flag "cooling" or "expired" makes a record that is alike.
LEMMA SetFields ==
  ASSUME NEW e \in Rec, NEW b \in BOOLEAN
  PROVE  /\ SetCooling(e, b) \in Rec /\ Alike(e, SetCooling(e, b))
         /\ SetExpired(e, b) \in Rec /\ Alike(e, SetExpired(e, b))
BY DEF Rec, SetCooling, SetExpired, Alike

\* The end of the back-off keeps the invariant.
LEMMA CoolStep ==
  ASSUME IInv, NEW r \in Runs, Cool(r)
  PROVE  IInv'
<1> DEFINE f == SetCooling(reg.runs[r], FALSE)
           d == SetCooling(disk[r], FALSE)
<1>1. reg.runs[r] \in Rec /\ disk[r] \in Rec
  BY MemFacts DEF IInv, Types
<1>2. f \in Rec /\ Alike(reg.runs[r], f) /\ d \in Rec /\ Alike(disk[r], d)
  BY <1>1, SetFields
<1>3. Become(PutIn(reg, r, f))
  <2>1. [reg EXCEPT !.runs[r].cooling = FALSE] = PutIn(reg, r, f)
    BY DEF PutIn, SetCooling
  <2> QED BY <2>1 DEF Cool
<1>4. disk' = [disk EXCEPT ![r] = d]
  BY DEF Cool, SetCooling
<1>5. Rest' /\ told' = told /\ cut' = cut
  BY DEF Cool, IInv, Types, Rest
<1> HIDE DEF f, d
<1> QED BY <1>2, <1>3, <1>4, <1>5, FieldStep

\* The expiry of a run keeps the invariant.
LEMMA ExpireStep ==
  ASSUME IInv, NEW r \in Runs, Expire(r)
  PROVE  IInv'
<1> DEFINE b == disk[r].ended # "no"
           f == SetExpired(reg.runs[r], TRUE)
           d == SetExpired(disk[r], b)
<1>1. reg.runs[r] \in Rec /\ disk[r] \in Rec
  BY MemFacts DEF IInv, Types
<1>2. b \in BOOLEAN
  OBVIOUS
<1>3. disk' = [disk EXCEPT ![r] = d]
  BY DEF Expire, SetExpired
<1> HIDE DEF b
<1>4. f \in Rec /\ Alike(reg.runs[r], f) /\ d \in Rec /\ Alike(disk[r], d)
  BY <1>1, <1>2, SetFields
<1>5. Become(PutIn(reg, r, f))
  <2>1. [reg EXCEPT !.runs[r].expired = TRUE] = PutIn(reg, r, f)
    BY DEF PutIn, SetExpired
  <2> QED BY <2>1 DEF Expire
<1>6. Rest' /\ told' = told /\ cut' = cut
  BY DEF Expire, IInv, Types, Rest
<1> HIDE DEF f, d
<1> QED BY <1>3, <1>4, <1>5, <1>6, FieldStep

\* The record of x is exchanged for f, and its error timer is dropped.
PutAway(m, x, f) == [m EXCEPT !.runs = [@ EXCEPT ![x] = f], !.timers = @ \ {<<x, "grace">>}]

\* PutAway replaces one record and clears its grace timer.
LEMMA PutAwayFacts ==
  ASSUME NEW m \in Mem, NEW x \in Runs, NEW f \in Rec, f.fate # "none", ~Unused(m, x)
  PROVE  LET o == PutAway(m, x, f)
         IN /\ o \in Mem /\ o.runs[x] = f /\ \A r \in Runs \ {x} : o.runs[r] = m.runs[r]
            /\ o.marks = m.marks /\ o.calls = m.calls
            /\ \A r \in Runs : \A k \in {"retry", "backoff"} : <<r, k>> \in o.timers <=> <<r, k>> \in m.timers
            /\ \A r \in Runs \ {x} : Same(m, o, r)
<1> DEFINE o == PutAway(m, x, f)
<1>1. /\ o \in Mem /\ o.runs = [m.runs EXCEPT ![x] = f]
      /\ o.marks = m.marks /\ o.timers = m.timers \ {<<x, "grace">>} /\ o.calls = m.calls
  BY DEF Mem, PutAway
<1> HIDE DEF o
<1>2. o.runs[x] = f /\ \A r \in Runs \ {x} : o.runs[r] = m.runs[r]
  BY <1>1, MemFacts
<1>3. \A r \in Runs : \A k \in {"retry", "backoff"} : <<r, k>> \in o.timers <=> <<r, k>> \in m.timers
  BY <1>1
<1>4. \A r \in Runs \ {x} : Same(m, o, r)
  BY <1>1, <1>2, <1>3 DEF Same
<1> QED BY <1>1, <1>2, <1>3, <1>4 DEF o

SetFate(e, fate) == [e EXCEPT !.fate = fate]

\* A record of mode "delete" is archived, whatever its state.
LEMMA ArchiveStep ==
  ASSUME IInv, NEW r \in Runs, Archive(r)
  PROVE  IInv'
<1> DEFINE f == SetFate(reg.runs[r], "archived")
           n == PutAway(reg, r, f)
<1>1. reg \in Mem /\ reg.runs[r] \in Rec /\ emitted \in [Runs -> Nat] /\ Present(reg, r)
  BY MemFacts DEF IInv, Types, Archive
<1>2. /\ f \in Rec /\ f.fate = "archived" /\ f.hooked = reg.runs[r].hooked
      /\ f.quiet = reg.runs[r].quiet /\ f.tries = reg.runs[r].tries
  BY <1>1 DEF Rec, Fates, SetFate
<1>3. Become(n) /\ Save(n)
  <2>1. [reg EXCEPT !.runs[r].fate = "archived", !.timers = @ \ {<<r, "grace">>}] = n
    BY DEF PutAway, SetFate
  <2> HIDE DEF n
  <2> QED BY <2>1 DEF Archive, BecomeAndSave
<1> HIDE DEF f
<1>4. ~Unused(reg, r)
  BY <1>1 DEF Present, Unused
<1>5. /\ n \in Mem /\ n.runs[r] = f /\ n.calls = reg.calls /\ n.marks = reg.marks
      /\ \A q \in Runs : \A k \in {"retry", "backoff"} : <<q, k>> \in n.timers <=> <<q, k>> \in reg.timers
      /\ \A q \in Runs \ {r} : Same(reg, n, q)
  BY <1>1, <1>2, <1>4, PutAwayFacts
<1> HIDE DEF n
<1>6. Moved(reg, n, r)
  BY <1>1, <1>2, <1>5 DEF Moved, Present
<1>7. Frame(reg, n, r)
  <2>1. \A q \in Runs \ {r} : Moved(reg, n, q)
    BY <1>1, <1>5, SameMoved
  <2> QED BY <1>1, <1>2, <1>4, <1>5, <2>1 DEF Frame, Unused, Present
<1>8. Rest' /\ cut' = cut /\ told' = told
  BY DEF Archive, IInv, Types, Rest
<1>9. n.runs[r] # reg.runs[r]
  BY <1>1, <1>2, <1>5 DEF Present
<1>10. ASSUME r \in Tame
       PROVE  Good(n, told', emitted', cut, r)
  <2>1. NewHooks(n, r) = {}
    BY <1>1, <1>5, <1>6, MovedNoHook
  <2>2. emitted'[r] = emitted[r]
    BY <1>1, <1>3, <1>5, <2>1, HooksCount
  <2>3. Good(n, told, emitted, cut, r)
    BY <1>1, <1>5, <1>6, <1>10, MovedGood DEF IInv, GoodRuns
  <2> QED BY <1>8, <2>2, <2>3 DEF Good, Guarded, Hooked, Told
<1> QED BY <1>3, <1>7, <1>8, <1>9, <1>10, SavedStep

\* A record that is killed stays, with its hook and its tries.
LEMMA KilledRecord ==
  ASSUME NEW e \in Rec
  PROVE  /\ Killed(e) \in Rec /\ Killed(e).fate = e.fate /\ Killed(e).hooked = e.hooked
         /\ Killed(e).ended = "killed" /\ Killed(e).handled /\ Killed(e).done
         /\ Killed(e).quiet = "killed" /\ Killed(e).tries = e.tries
BY DEF Killed, Rec

\* A run that has not ended has not been announced and has used no attempt.
LEMMA RunningFacts ==
  ASSUME IInv, NEW x \in Tame, Present(reg, x), ~Ended(reg, x)
  PROVE  /\ ~Announcing(reg, x) /\ told[x] = 0 /\ reg.runs[x].tries = 0 /\ MaxTries # 0
         /\ Guarded(reg, told, x) /\ Hooked(reg, emitted, x)
         /\ \A c \in reg.calls : c.run = x => c.at \notin {"freeze", "hook"}
<1>1. Good(reg, told, emitted, cut, x) /\ reg.runs[x] \in Rec /\ MaxTries \in Nat \ {0}
  BY MemFacts, RegistryAssumption DEF IInv, Types, GoodRuns, Tame
<1>2. reg.runs[x].tries \in Nat
  BY <1>1 DEF Rec
<1> QED BY <1>1, <1>2 DEF Good, Guarded

\* A kill changes the records of X and drops timers of errors; other runs are the same.
LEMMA KilledFacts ==
  ASSUME reg \in Mem, NEW x \in Runs, x \in LiveBeside(x)
  PROVE  LET m == KilledWith(x)
         IN /\ m \in Mem /\ m.calls = reg.calls /\ m.marks = reg.marks
            /\ \A q \in LiveBeside(x) : m.runs[q] = Killed(reg.runs[q]) /\ m.runs[q] \in Rec
            /\ \A q \in Runs \ LiveBeside(x) : Same(reg, m, q)
            /\ \A q \in Runs : \A k \in {"retry", "backoff"} : <<q, k>> \in m.timers <=> <<q, k>> \in reg.timers
<1> DEFINE m == KilledWith(x)
           S == LiveBeside(x)
           F == [q \in Runs |-> IF q \in S THEN Killed(reg.runs[q]) ELSE reg.runs[q]]
           T == {a \in reg.timers : a[2] # "grace" \/ SessionOf[a[1]] # SessionOf[x]}
<1>1. S \subseteq Runs
  BY DEF LiveBeside
<1>2. m = [reg EXCEPT !.runs = F, !.timers = T]
  BY Zenon DEF KilledWith
<1>3. \A q \in Runs : reg.runs[q] \in Rec
  BY MemFacts
<1>4. \A e \in Rec : Killed(e) \in Rec
  BY KilledRecord
<1> HIDE DEF S, m
<1>5. F \in [Runs -> Rec]
  BY <1>3, <1>4
<1>6. \A q \in Runs : F[q] = IF q \in S THEN Killed(reg.runs[q]) ELSE reg.runs[q]
  OBVIOUS
<1> HIDE DEF F
<1>7. T \subseteq reg.timers
  OBVIOUS
<1>8. \A q \in Runs : \A k \in {"retry", "backoff"} : <<q, k>> \in T <=> <<q, k>> \in reg.timers
  OBVIOUS
<1> HIDE DEF T
<1>9. /\ m \in Mem /\ m.runs = F /\ m.timers = T /\ m.calls = reg.calls /\ m.marks = reg.marks
  BY <1>2, <1>5, <1>7 DEF Mem
<1>10. \A q \in S : m.runs[q] = Killed(reg.runs[q]) /\ m.runs[q] \in Rec
  BY <1>1, <1>3, <1>4, <1>6, <1>9
<1>11. \A q \in Runs \ S : m.runs[q] = reg.runs[q]
  BY <1>6, <1>9
<1>12. \A q \in Runs : \A k \in {"retry", "backoff"} : <<q, k>> \in m.timers <=> <<q, k>> \in reg.timers
  BY <1>8, <1>9
<1>13. ASSUME NEW q \in Runs \ S
       PROVE  Same(reg, m, q)
  <2>1. m.runs[q] = reg.runs[q] /\ m.calls = reg.calls /\ m.marks = reg.marks
    BY <1>9, <1>11
  <2>2. \A k \in {"retry", "backoff"} : <<q, k>> \in m.timers <=> <<q, k>> \in reg.timers
    BY <1>12
  <2> QED BY <2>1, <2>2 DEF Same
<1> QED BY <1>9, <1>10, <1>12, <1>13 DEF m, S

\* What a kill makes of a record that had not ended: only the hook may be missing.
LEMMA KilledGood ==
  ASSUME IInv, NEW m \in Mem, NEW q \in Tame, Present(reg, q), ~Ended(reg, q),
         m.runs[q] = Killed(reg.runs[q]), m.calls = reg.calls
  PROVE  /\ Present(m, q) /\ Ended(m, q) /\ ~Unused(m, q) /\ SameHooks(m, q)
         /\ m.runs[q].done /\ Steered(m, q)
         /\ Guarded(m, told, q) /\ Hooked(m, emitted, q)
         /\ emitted[q] = 1 => m.runs[q].hooked \/ HookInFlight(m, q)
<1>1. q \in Runs /\ reg.runs[q] \in Rec
  BY MemFacts DEF IInv, Types, Tame
<1>2. /\ m.runs[q] \in Rec /\ m.runs[q].fate = "here" /\ m.runs[q].hooked = reg.runs[q].hooked
      /\ m.runs[q].ended = "killed" /\ m.runs[q].handled /\ m.runs[q].done
      /\ m.runs[q].quiet = "killed" /\ m.runs[q].tries = reg.runs[q].tries
  BY <1>1, KilledRecord DEF Present
<1>3. /\ ~Announcing(reg, q) /\ told[q] = 0 /\ reg.runs[q].tries = 0 /\ MaxTries # 0
      /\ Guarded(reg, told, q) /\ Hooked(reg, emitted, q)
  BY RunningFacts
<1>4. /\ Present(m, q) /\ Ended(m, q) /\ ~Unused(m, q)
      /\ Announcing(m, q) <=> Announcing(reg, q)
      /\ HookInFlight(m, q) <=> HookInFlight(reg, q)
      /\ Held(m, q) <=> Held(reg, q)
      /\ SameHooks(m, q)
  BY <1>2 DEF Present, Ended, Unused, Announcing, HookInFlight, Held, SameHooks
<1>5. Guarded(m, told, q)
  BY <1>2, <1>3, <1>4 DEF Guarded, Announcing
<1>6. Hooked(m, emitted, q)
  BY <1>1, <1>2, <1>3, <1>4 DEF Hooked
<1>7. emitted[q] = 1 => m.runs[q].hooked \/ HookInFlight(m, q)
  BY <1>4, <1>6 DEF Hooked
<1>8. Steered(m, q)
  BY <1>2 DEF Steered
<1> QED BY <1>2, <1>4, <1>5, <1>6, <1>7, <1>8

\* A kill keeps the invariant: the record whose hook is emitted is good, and the others
\* that it ends are cut off.
LEMMA MarkTerminatedStep ==
  ASSUME IInv, NEW r \in Runs, MarkTerminated(r)
  PROVE  IInv'
<1> DEFINE S == LiveBeside(r)
           m == KilledWith(r)
           by == "kill"
           n == EmitHookOnce(m, r, by)
<1>1. /\ reg \in Mem /\ emitted \in [Runs -> Nat] /\ r \in S /\ S \subseteq Runs
      /\ \A q \in S : Present(reg, q) /\ ~Ended(reg, q) /\ reg.runs[q] \in Rec
  BY MemFacts DEF IInv, Types, MarkTerminated, LiveBeside
<1>2. Become(n) /\ Save(n)
  BY DEF MarkTerminated, BecomeAndSave
<1>3. /\ m \in Mem /\ m.calls = reg.calls /\ m.marks = reg.marks
      /\ \A q \in S : m.runs[q] = Killed(reg.runs[q]) /\ m.runs[q] \in Rec
      /\ \A q \in Runs \ S : Same(reg, m, q)
  BY <1>1, KilledFacts
<1>4. \A q \in S : m.runs[q].fate = "here" /\ m.runs[q].ended = "killed"
  BY <1>1, <1>3, KilledRecord DEF Present
<1>5. Rest' /\ told' = told /\ cut' = cut \cup (S \ {r})
  <2>1. incidents' \in 0..MaxIncidents
    BY RegistryAssumption DEF IInv, Types, Rest, MarkTerminated, Incident
  <2> QED BY <2>1 DEF MarkTerminated, IInv, Types, Rest
<1> HIDE DEF S, m
<1>6. by \in Causes /\ by = "kill"
  BY DEF Causes
<1> HIDE DEF by
<1>7. n = m \/ n = WithCall(m, r, "hook", by)
  BY <1>6 DEF EmitHookOnce, AfterHook
<1>8. /\ n \in Mem /\ n.runs = m.runs
      /\ \A q \in Runs \ {r} : Same(m, n, q)
      /\ \A c \in n.calls : c.at # "hook" \/ c.run # r => c \in m.calls
  <2>1. CASE n = m
    <3>1. \A q \in Runs : Same(m, m, q)
      BY DEF Same
    <3> QED BY <1>3, <2>1, <3>1
  <2>2. CASE n = WithCall(m, r, "hook", by)
    <3> DEFINE at == "hook"
               z == [run |-> r, at |-> at, by |-> by]
               o == WithCall(m, r, at, by)
    <3> HIDE DEF n
    <3>1. at \in Stages /\ at # "woken" /\ m \in Mem /\ by \in Causes
      BY <1>3, <1>6 DEF Stages
    <3>2. n = o /\ z.run = r /\ z.at = "hook"
      BY <2>2
    <3> HIDE DEF at
    <3>3. o.runs = m.runs /\ z \in Call /\ o.calls = m.calls \cup {z}
      BY <3>1, CallFrame
    <3>4. Local(m, o, r) /\ o \in Mem
      BY <3>1, CallFrame
    <3> HIDE DEF o, z
    <3> QED BY <3>2, <3>3, <3>4 DEF Local
  <2> QED BY <1>7, <2>1, <2>2
<1>9. \A q \in Runs \ S : Moved(reg, n, q) /\ told'[q] = told[q]
  <2> HIDE DEF n
  <2>1. ASSUME NEW q \in Runs \ S
        PROVE  Moved(reg, n, q)
    <3>1. q # r /\ Moved(reg, m, q) /\ Moved(m, n, q)
      BY <1>1, <1>3, <1>8, SameMoved
    <3> QED BY <1>1, <1>3, <1>8, <3>1, MovedMoved
  <2> QED BY <1>5, <2>1
<1>10. /\ Written(n, S)
       /\ \A q \in S : disk'[q] = Saved(n)[q]
  <2> HIDE DEF n
  <2>1. \A q \in S : n.runs[q] # reg.runs[q]
    BY <1>1, <1>4, <1>8 DEF Ended
  <2>2. Types /\ OnDisk
    BY DEF IInv
  <2> QED BY <1>1, <1>2, <1>8, <2>1, <2>2, SaveWrites
<1>11. WakeInv(n)
  <2> HIDE DEF n
  <2>1. \A q \in S : (Unused(n, q) <=> Unused(reg, q)) /\ (Present(n, q) => Present(reg, q))
    BY <1>1, <1>4, <1>8 DEF Unused, Present
  <2>2. \A c \in n.calls : c.run \in S /\ c.at = "woken" => c \in reg.calls
    BY <1>3, <1>8
  <2>3. WakeInv(reg)
    BY DEF IInv
  <2> QED BY <1>1, <1>8, <1>9, <2>1, <2>2, <2>3, WakeKept
<1>12. ASSUME r \in Tame
       PROVE  Good(n, told', emitted', cut', r)
  <2>1. /\ Present(m, r) /\ Ended(m, r) /\ ~Unused(m, r) /\ SameHooks(m, r)
        /\ m.runs[r].done /\ Steered(m, r)
        /\ Guarded(m, told, r) /\ Hooked(m, emitted, r)
        /\ emitted[r] = 1 => m.runs[r].hooked \/ HookInFlight(m, r)
    BY <1>1, <1>3, <1>12, KilledGood
  <2>2. /\ Guarded(n, told, r) /\ Hooked(n, emitted', r) /\ Told(n, emitted', r) /\ Moving(n, r)
    BY <1>1, <1>2, <1>3, <1>6, <2>1, EmitGood
  <2> HIDE DEF n
  <2> QED BY <1>5, <2>2 DEF Good, Guarded
<1>13. ASSUME NEW q \in S \ {r}, q \in Tame
       PROVE  Good(n, told', emitted', cut', q)
  <2> HIDE DEF n
  <2>1. SameHooks(m, q) /\ Guarded(m, told, q) /\ Hooked(m, emitted, q)
    BY <1>1, <1>3, <1>13, KilledGood
  <2>2. q \in Runs /\ q # r /\ Same(m, n, q)
    BY <1>1, <1>8
  <2>3. emitted'[q] = emitted[q]
    <3>1. NewHooks(n, q) = {}
      BY <1>3, <1>8, <2>2 DEF NewHooks
    <3> QED BY <1>1, <1>2, <1>8, <2>2, <3>1, HooksCount
  <2>4. \A c \in Call : c.run = q /\ c.at # "wait" => (c \in n.calls <=> c \in m.calls)
    BY <2>2 DEF Same
  <2>5. n.calls \subseteq Call /\ m.calls \subseteq Call
    BY <1>3, <1>8, MemFacts
  <2>6. Guarded(n, told, q)
    BY <1>8, <2>1, <2>4, <2>5 DEF Guarded, Announcing, Announces, Held, Present, Ended, Unused
  <2>7. Hooked(n, emitted', q)
    BY <1>8, <2>1, <2>3, <2>4, <2>5 DEF Hooked, HookInFlight, Held, Present, Unused
  <2>8. q \in cut' /\ told' = told
    BY <1>5, <1>13
  <2> QED BY <2>6, <2>7, <2>8 DEF Good
<1>14. \A q \in S \cap Tame :
         /\ Good(n, told', emitted', cut', q)
         /\ disk'[q] = Saved(n)[q] \/ Stored(disk'[q], n, told', emitted', cut', q)
  BY <1>10, <1>12, <1>13
<1>15. cut \subseteq cut' /\ cut' \subseteq cut \cup S
  BY <1>5
<1> HIDE DEF n
<1> QED BY <1>1, <1>2, <1>5, <1>8, <1>9, <1>10, <1>11, <1>14, <1>15, CuttingStep

SetQuiet(e, quiet) == [e EXCEPT !.quiet = quiet]

\* A run is marked for a steer, whose call goes on.
LEMMA MarkForSteerStep ==
  ASSUME IInv, NEW r \in Runs, MarkForSteer(r)
  PROVE  IInv'
<1> DEFINE e == reg.runs[r]
           f == SetQuiet(e, "steer")
           m == PutIn(reg, r, f)
           at == "steer"
           by == "control"
           n == WithCall(m, r, at, by)
           z == [run |-> r, at |-> at, by |-> by]
<1>1. /\ reg \in Mem /\ e \in Rec /\ emitted \in [Runs -> Nat]
      /\ Present(reg, r) /\ ~Ended(reg, r) /\ e.quiet # "steer"
  BY MemFacts DEF IInv, Types, MarkForSteer
<1> HIDE DEF e
<1>2. /\ f \in Rec /\ f.fate = e.fate /\ f.ended = e.ended /\ f.handled = e.handled
      /\ f.done = e.done /\ f.quiet = "steer" /\ f.hooked = e.hooked /\ f.tries = e.tries
  BY <1>1 DEF Rec, SetQuiet
<1>3. Become(n) /\ Save(n)
  <2>1. [reg EXCEPT !.runs[r].quiet = "steer"] = m
    BY DEF PutIn, SetQuiet, e
  <2> HIDE DEF m
  <2>2. BecomeAndSave(n)
    BY <2>1 DEF MarkForSteer
  <2> HIDE DEF n
  <2> QED BY <2>2 DEF BecomeAndSave
<1> HIDE DEF f
<1>4. /\ m \in Mem /\ m.runs[r] = f /\ \A q \in Runs \ {r} : m.runs[q] = reg.runs[q]
      /\ m.marks = reg.marks /\ m.timers = reg.timers /\ m.calls = reg.calls
  BY <1>1, <1>2, PutInFacts
<1> HIDE DEF m
<1>5. Local(reg, m, r)
  BY <1>2, <1>4 DEF Local, Same, e
<1>6. at \in Stages /\ by \in Causes /\ at # "woken"
  BY DEF Stages, Causes
<1>7. z.run = r /\ z.at = "steer"
  OBVIOUS
<1> HIDE DEF at, by
<1>8. /\ Local(m, n, r) /\ n \in Mem /\ n.runs = m.runs /\ n.marks = m.marks /\ n.timers = m.timers
      /\ z \in Call /\ n.calls = m.calls \cup {z}
  BY <1>4, <1>6, CallFrame
<1> HIDE DEF n, z
<1>9. Frame(reg, n, r)
  BY <1>1, <1>4, <1>5, <1>8, LocalLocal, LocalFrame
<1>10. Rest' /\ cut' = cut /\ told' = told
  <2>1. incidents' \in 0..MaxIncidents
    BY RegistryAssumption DEF IInv, Types, Rest, MarkForSteer, Incident
  <2> QED BY <2>1 DEF MarkForSteer, IInv, Types, Rest
<1>11. n.runs[r] # reg.runs[r]
  BY <1>1, <1>2, <1>4, <1>8 DEF e
<1>12. ASSUME r \in Tame
       PROVE  Good(n, told', emitted', cut, r)
  <2>1. /\ ~Announcing(reg, r) /\ told[r] = 0 /\ e.tries = 0 /\ MaxTries # 0
        /\ Guarded(reg, told, r) /\ Hooked(reg, emitted, r)
        /\ \A c \in reg.calls : c.run = r => c.at \notin {"freeze", "hook"}
    BY <1>1, <1>12, RunningFacts DEF e
  <2>2. /\ Present(n, r) /\ ~Ended(n, r) /\ ~Unused(n, r) /\ Held(n, r)
        /\ ~Announcing(n, r) /\ ~HookInFlight(n, r) /\ ~HookInFlight(reg, r)
        /\ \A c \in n.calls : c.run = r => c.at \notin {"freeze", "hook"}
    BY <1>1, <1>2, <1>4, <1>7, <1>8, <2>1
       DEF Present, Ended, Unused, Announcing, Announces, HookInFlight, Held, e
  <2>3. NewHooks(n, r) = {}
    BY <2>2 DEF NewHooks
  <2>4. emitted'[r] = emitted[r]
    BY <1>1, <1>3, <1>8, <2>3, HooksCount
  <2>5. Guarded(n, told, r)
    BY <1>2, <1>4, <1>8, <2>1, <2>2, ConstantTypes DEF Guarded, Announcing, e
  <2>6. Hooked(n, emitted, r)
    BY <1>1, <1>2, <1>4, <1>8, <2>1, <2>2 DEF Hooked, e
  <2>7. ASSUME Expects(r), r \notin cut
        PROVE  Moving(n, r) /\ Told(n, emitted, r)
    <3>1. Good(reg, told, emitted, cut, r)
      BY <1>12 DEF IInv, GoodRuns
    <3>2. Moving(reg, r) /\ Told(reg, emitted, r)
      BY <2>7, <3>1 DEF Good
    <3>3. Told(n, emitted, r)
      BY <1>2, <1>4, <1>8, <3>2 DEF Told, Present, e
    <3>4. Handling(n, r)
      BY <1>1, <1>2, <1>4, <1>8, <2>1, <2>2, <3>2 DEF Handling, Moving, HookInFlight, e
    <3>5. Waiting(n, r) /\ Steered(n, r)
      BY <1>7, <1>8, <2>2 DEF Waiting, Steered
    <3> QED BY <3>3, <3>4, <3>5 DEF Moving
  <2> QED BY <1>10, <2>4, <2>5, <2>6, <2>7 DEF Good, Guarded, Hooked, Told
<1> QED BY <1>3, <1>9, <1>10, <1>11, <1>12, SavedStep

\* The fields of a new record.
LEMMA NewRecordFacts ==
  ASSUME NEW cleanup \in {"keep", "delete"}
  PROVE  LET f == NewRecord(cleanup)
         IN /\ f \in Rec /\ f.fate = "here" /\ f.ended = "no" /\ ~f.handled /\ ~f.done
            /\ f.quiet = "no" /\ f.tries = 0 /\ ~f.hooked
BY DEF NewRecord, NoRecord, Rec, Fates

\* A record that was just made, of a run nothing has happened to.
LEMMA FreshGood ==
  ASSUME NEW n \in Mem, NEW x \in Runs, NEW cleanup \in {"keep", "delete"},
         n.runs[x] = NewRecord(cleanup), ~Held(n, x),
         NEW tl, tl[x] = 0, NEW em, em[x] = 0, NEW ct
  PROVE  Good(n, tl, em, ct, x)
<1> DEFINE f == n.runs[x]
<1>1. /\ f.fate = "here" /\ f.ended = "no" /\ ~f.handled /\ ~f.done
      /\ f.quiet = "no" /\ f.tries = 0 /\ ~f.hooked
  BY NewRecordFacts
<1>2. MaxTries # 0 /\ 0 <= MaxTries /\ ~(0 > 0)
  BY RegistryAssumption
<1>3. /\ ~Announcing(n, x) /\ ~HookInFlight(n, x)
      /\ \A c \in n.calls : c.run = x => c.at = "wait"
  BY DEF Held, Announcing, Announces, HookInFlight
<1>4. Guarded(n, tl, x)
  BY <1>1, <1>2, <1>3 DEF Guarded, Announcing, Announces, Unused, Present
<1>5. Hooked(n, em, x)
  BY <1>1, <1>3 DEF Hooked, Unused
<1>6. Moving(n, x)
  BY <1>1 DEF Moving, Handling, Waiting, Steered, Ended
<1>7. Told(n, em, x)
  BY <1>1, <1>2 DEF Told
<1> QED BY <1>4, <1>5, <1>6, <1>7 DEF Good

\* A run that is registered keeps the invariant.
LEMMA RegisterRunStep ==
  ASSUME IInv, NEW r \in Runs, RegisterRun(r)
  PROVE  IInv'
<1>1. PICK cleanup \in Cleanups :
        BecomeAndSave(WithCall([reg EXCEPT !.runs[r] = NewRecord(cleanup)], r, "wait", "wait"))
  BY DEF RegisterRun
<1> DEFINE f == NewRecord(cleanup)
           m == PutIn(reg, r, f)
           at == "wait"
           n == WithCall(m, r, at, at)
           z == [run |-> r, at |-> at, by |-> at]
<1>2. cleanup \in {"keep", "delete"} /\ reg \in Mem /\ emitted \in [Runs -> Nat] /\ Unused(reg, r)
  BY RegistryAssumption DEF IInv, Types, RegisterRun
<1>3. f \in Rec /\ f.fate = "here"
  BY <1>2, NewRecordFacts
<1>4. Become(n) /\ Save(n)
  <2>1. [reg EXCEPT !.runs[r] = NewRecord(cleanup)] = m
    BY DEF PutIn
  <2> HIDE DEF m
  <2>2. BecomeAndSave(n)
    BY <1>1, <2>1
  <2> HIDE DEF n
  <2> QED BY <2>2 DEF BecomeAndSave
<1> HIDE DEF f
<1>5. /\ m \in Mem /\ m.runs[r] = f /\ \A q \in Runs \ {r} : m.runs[q] = reg.runs[q]
      /\ m.marks = reg.marks /\ m.timers = reg.timers /\ m.calls = reg.calls
  BY <1>2, <1>3, PutInFacts
<1> HIDE DEF m
<1>6. at \in Stages /\ at \in Causes /\ at # "woken"
  BY DEF Stages, Causes
<1>7. z.run = r /\ z.at = "wait"
  OBVIOUS
<1> HIDE DEF at
<1>8. /\ n \in Mem /\ n.runs = m.runs /\ n.marks = m.marks /\ n.timers = m.timers
      /\ z \in Call /\ n.calls = m.calls \cup {z}
  BY <1>5, <1>6, CallFrame
<1> HIDE DEF n, z
<1>9. \A q \in Runs \ {r} : Same(reg, n, q) /\ Moved(reg, n, q)
  <2>1. \A q \in Runs \ {r} : Same(reg, n, q)
    BY <1>5, <1>7, <1>8 DEF Same
  <2> QED BY <1>2, <1>8, <2>1, SameMoved
<1>10. WakeInv(n)
  <2>1. \A c \in n.calls : c.at = "woken" => c.run \notin WakeRuns
    BY <1>5, <1>7, <1>8 DEF WakeInv, IInv
  <2>2. ASSUME NEW w \in WakeRuns \cap Tame, NEW g \in FirstRuns,
               SessionOf[w] = SessionOf[g], ~Unused(n, w)
        PROVE  ~Unused(n, g) /\ ~Present(n, g)
    <3>1. w \in Runs /\ g \in Runs /\ w # r
      BY <2>2, RegistryAssumption DEF RegisterRun
    <3>2. ~Unused(reg, w)
      BY <1>5, <1>8, <2>2, <3>1 DEF Unused
    <3>3. ~Unused(reg, g) /\ ~Present(reg, g)
      BY <2>2, <3>2 DEF WakeInv, IInv
    <3>4. g # r
      BY <1>2, <3>3
    <3> QED BY <1>5, <1>8, <3>1, <3>3, <3>4 DEF Unused, Present
  <2> QED BY <2>1, <2>2 DEF WakeInv
<1>11. Rest' /\ cut' = cut /\ told' = told
  BY ConstantTypes DEF RegisterRun, IInv, Types, Rest
<1> DEFINE X == {r}
<1>12. ASSUME NEW q \in X \cap Tame
       PROVE  Good(n, told', emitted', cut, q) /\ disk'[q] = Saved(n)[q]
  <2>1. q = r /\ r \in Tame
    BY <1>12
  <2>2. told[r] = 0 /\ ~Held(reg, r) /\ emitted[r] = 0
    BY <1>2, <2>1 DEF IInv, GoodRuns, Good, Guarded, Hooked
  <2>3. ~Held(n, r) /\ NewHooks(n, r) = {}
    BY <1>5, <1>7, <1>8, <2>2 DEF Held, NewHooks
  <2>4. emitted'[r] = 0
    BY <1>2, <1>4, <1>8, <2>2, <2>3, HooksCount
  <2>5. Good(n, told', emitted', cut, r)
    BY <1>2, <1>5, <1>8, <1>11, <2>2, <2>3, <2>4, FreshGood DEF f
  <2>6. n.runs[r] # reg.runs[r]
    BY <1>2, <1>3, <1>5, <1>8 DEF Unused
  <2>7. disk'[r] = Saved(n)[r]
    BY <1>4, <1>8, <2>6, SaveWrites DEF IInv
  <2> QED BY <2>1, <2>5, <2>7
<1>13. Written(n, X)
  BY <1>4, <1>8, SaveWrites DEF IInv
<1>14. X \in SUBSET Runs
  OBVIOUS
<1>15. \A q \in Runs \ X : Moved(reg, n, q) /\ told'[q] = told[q]
  BY <1>9, <1>11
<1> HIDE DEF X
<1> QED BY <1>4, <1>8, <1>10, <1>11, <1>12, <1>13, <1>14, <1>15, StepInv

\* The run x is resumed in m, a memory that differs from the state's in x.
LEMMA ResumedStep ==
  ASSUME IInv, NEW m \in Mem, NEW x \in Runs, Local(reg, m, x), SameHooks(m, x),
         Become(Resume(m, {x})), Save(Resume(m, {x})), Rest', cut' = cut, told' = told,
         m.runs[x] = reg.runs[x] \/ m.runs[x].quiet # reg.runs[x].quiet,
         Announcing(m, x) => Announcing(reg, x),
         x \in Tame => /\ Guarded(m, told, x) /\ Hooked(m, emitted, x)
                       /\ Expects(x) /\ x \notin cut =>
                            /\ Told(m, emitted, x)
                            /\ Present(m, x) => Handling(m, x) /\ Steered(m, x)
                            /\ Present(Resume(m, {x}), x) => Waiting(Resume(m, {x}), x)
  PROVE  IInv'
<1> DEFINE Q == {x}
           n == Resume(m, Q)
<1>1. reg \in Mem /\ emitted \in [Runs -> Nat] /\ Q \in SUBSET Runs /\ x \in Q
  BY DEF IInv, Types
<1>2. \A r \in Runs : r # x => r \notin Q
  OBVIOUS
<1>3. Become(n) /\ Save(n) /\ n = Resume(m, {x})
  OBVIOUS
<1> HIDE DEF Q
<1>4. /\ n \in Mem /\ \A r \in Runs : Moved(m, n, r)
  BY <1>1, Resumed
<1> HIDE DEF n
<1>5. Frame(m, n, x)
  <2>1. (Unused(n, x) <=> Unused(m, x)) /\ (Present(n, x) => Present(m, x))
    BY <1>4 DEF Moved, Unused, Present
  <2>2. ASSUME NEW c \in n.calls, c.run = x, c.at = "woken", c \notin m.calls
        PROVE  FALSE
    <3>1. c = [run |-> x, at |-> "announce", by |-> "cleanup"]
      BY <1>4, <2>2 DEF Moved
    <3> QED BY <2>2, <3>1
  <2> QED BY <1>4, <2>1, <2>2 DEF Frame
<1>6. Frame(reg, n, x)
  BY <1>1, <1>5, LocalFrame, FrameFrame
<1>7. x \in Tame => NewHooks(n, x) = {} /\ emitted'[x] = emitted[x]
  <2>1. SUFFICES ASSUME x \in Tame
                 PROVE  NewHooks(n, x) = {} /\ emitted'[x] = emitted[x]
    OBVIOUS
  <2>2. \A c \in n.calls : c.run = x /\ c.at = "hook" => c \in m.calls
    BY <1>4, <2>1, MovedHooked
  <2>3. NewHooks(n, x) = {}
    BY <1>4, <2>2, SameHooksNone
  <2> QED BY <1>1, <1>3, <1>4, <2>3, HooksCount
<1>8. ASSUME x \in Tame
      PROVE  Good(n, told', emitted', cut, x)
  <2>1. Guarded(n, told, x) /\ Hooked(n, emitted, x)
    BY <1>4, <1>8, MovedGuarded, MovedHooked
  <2>2. ASSUME Expects(x), x \notin cut
        PROVE  Moving(n, x) /\ Told(n, emitted, x)
    <3>1. Told(n, emitted, x)
      BY <1>4, <1>8, <2>2, MovedTold DEF Guarded
    <3>2. ASSUME Present(n, x)
          PROVE  Handling(n, x) /\ Waiting(n, x) /\ Steered(n, x)
      BY <1>3, <1>4, <1>8, <2>2, <3>2, MovedParts
    <3> QED BY <3>1, <3>2 DEF Moving
  <2> QED BY <1>7, <1>8, <2>1, <2>2 DEF Good, Guarded, Hooked, Told
<1>9. n.runs[x] = reg.runs[x] => (Announcing(n, x) => Announcing(reg, x))
  <2>1. SUFFICES ASSUME n.runs[x] = reg.runs[x], Announcing(n, x)
                 PROVE  Announcing(m, x)
    OBVIOUS
  <2>2. n.runs[x].quiet = m.runs[x].quiet
    BY <1>4 DEF Moved
  <2>3. m.runs[x] = n.runs[x]
    BY <2>1, <2>2
  <2>4. PICK c \in n.calls : Announces(c, x)
    BY <2>1 DEF Announcing
  <2>5. ASSUME c \notin m.calls
        PROVE  FALSE
    <3>1. Present(m, x) /\ ~m.runs[x].handled /\ (Present(n, x) => n.runs[x].handled)
      BY <1>4, <2>4, <2>5 DEF Moved, Announces
    <3> QED BY <2>3, <3>1 DEF Present
  <2> QED BY <2>4, <2>5 DEF Announcing
<1> QED BY <1>3, <1>6, <1>8, <1>9, SavedStep

Cleared(m, x) == [m EXCEPT !.runs[x].quiet = "no", !.marks = @ \ {x}]

\* What clearSubagentRunSteerRestart sets before it resumes.
LEMMA ClearedFacts ==
  ASSUME NEW m \in Mem, NEW x \in Runs
  PROVE  LET o == Cleared(m, x)
             e == m.runs[x]
             f == o.runs[x]
         IN /\ o \in Mem /\ Local(m, o, x)
            /\ f.fate = e.fate /\ f.ended = e.ended /\ f.handled = e.handled
            /\ f.done = e.done /\ f.quiet = "no" /\ f.hooked = e.hooked /\ f.tries = e.tries
            /\ x \notin o.marks /\ o.timers = m.timers /\ o.calls = m.calls
<1> DEFINE e == m.runs[x]
           f == SetQuiet(e, "no")
           p == PutIn(m, x, f)
           o == Cleared(m, x)
<1>1. e \in Rec
  BY MemFacts
<1>2. o = [p EXCEPT !.marks = @ \ {x}]
  BY DEF Cleared, PutIn, SetQuiet, Mem
<1> HIDE DEF e, o
<1>3. /\ f \in Rec /\ f.fate = e.fate /\ f.ended = e.ended /\ f.handled = e.handled
      /\ f.done = e.done /\ f.quiet = "no" /\ f.hooked = e.hooked /\ f.tries = e.tries
  BY <1>1 DEF Rec, SetQuiet
<1> HIDE DEF f
<1>4. /\ p \in Mem /\ p.runs[x] = f /\ \A r \in Runs \ {x} : p.runs[r] = m.runs[r]
      /\ p.marks = m.marks /\ p.timers = m.timers /\ p.calls = m.calls
  BY <1>3, PutInFacts
<1> HIDE DEF p
<1>5. /\ o \in Mem /\ o.runs = p.runs /\ o.marks = p.marks \ {x} /\ o.timers = p.timers
      /\ o.calls = p.calls
  BY <1>2, <1>4 DEF Mem
<1>6. Local(m, o, x)
  BY <1>3, <1>4, <1>5 DEF Local, Same, e
<1> QED BY <1>3, <1>4, <1>5, <1>6 DEF e, o

\* The steer is refused: a run that has ended meanwhile is resumed.
LEMMA SteerFailsStep ==
  ASSUME IInv, NEW c \in reg.calls, SteerFails(c)
  PROVE  IInv'
<1> DEFINE x == c.run
           m == [reg EXCEPT !.calls = @ \ {c}]
           clear == Cleared(m, x)
           n == IF ~Present(m, x) \/ m.runs[x].quiet # "steer" THEN m
                ELSE IF Ended(m, x) /\ ~m.runs[x].done THEN Resume(clear, {x})
                ELSE clear
<1>1. c.at = "steer" /\ BecomeAndSave(n)
  BY DEF SteerFails, Cleared
<1>2. Become(n) /\ Save(n)
  <2> HIDE DEF n
  <2> QED BY <1>1 DEF BecomeAndSave
<1>3. reg \in Mem /\ c \in Call /\ emitted \in [Runs -> Nat]
  BY MemFacts DEF IInv, Types
<1>4. x \in Runs
  BY <1>3 DEF Call
<1>5. /\ Local(reg, m, x)
      /\ m \in Mem /\ m.runs = reg.runs /\ m.marks = reg.marks /\ m.timers = reg.timers
      /\ m.calls = reg.calls \ {c}
  BY <1>3, Without
<1>6. ASSUME x \in Tame
      PROVE  /\ Guarded(m, told, x) /\ Hooked(m, emitted, x) /\ SameHooks(m, x)
             /\ Announcing(m, x) <=> Announcing(reg, x)
             /\ Expects(x) /\ x \notin cut =>
                  Told(m, emitted, x) /\ (Present(m, x) => Handling(m, x) /\ Waiting(m, x))
  BY <1>1, <1>6, WithoutGood
<1>7. SameHooks(m, x) /\ (Announcing(m, x) => Announcing(reg, x))
  BY <1>1, <1>5 DEF SameHooks, Announcing
<1>8. Rest' /\ cut' = cut /\ told' = told
  BY DEF SteerFails, IInv, Types, Rest
<1> HIDE DEF m, x
<1>9. CASE ~Present(m, x) \/ m.runs[x].quiet # "steer"
  <2>1. n = m
    BY <1>9
  <2>2. Frame(reg, m, x)
    BY <1>3, <1>4, <1>5, LocalFrame
  <2>3. NewHooks(m, x) = {}
    BY <1>5 DEF NewHooks
  <2>4. emitted'[x] = emitted[x]
    BY <1>2, <1>3, <1>4, <1>5, <2>1, <2>3, HooksCount
  <2>5. ASSUME x \in Tame
        PROVE  Good(m, told', emitted', cut, x)
    <3>1. Present(m, x) => Steered(m, x)
      BY <1>9 DEF Steered
    <3>2. Good(m, told, emitted, cut, x)
      BY <1>6, <2>5, <3>1 DEF Good, Moving
    <3> QED BY <1>8, <2>4, <3>2 DEF Good, Guarded, Hooked, Told
  <2> HIDE DEF n
  <2> QED BY <1>2, <1>4, <1>7, <1>8, <2>1, <2>2, <2>5, SavedStep
<1>10. CASE ~(~Present(m, x) \/ m.runs[x].quiet # "steer")
  <2> DEFINE e == m.runs[x]
             f == clear.runs[x]
  <2>1. /\ clear \in Mem /\ Local(m, clear, x)
        /\ f.fate = e.fate /\ f.ended = e.ended /\ f.handled = e.handled
        /\ f.done = e.done /\ f.quiet = "no" /\ f.hooked = e.hooked /\ f.tries = e.tries
        /\ x \notin clear.marks /\ clear.timers = m.timers /\ clear.calls = m.calls
    BY <1>4, <1>5, ClearedFacts
  <2>2. n = IF Ended(m, x) /\ ~m.runs[x].done THEN Resume(clear, {x}) ELSE clear
    BY <1>10
  <2> HIDE DEF n, clear
  <2>3. Local(reg, clear, x) /\ SameHooks(clear, x)
        /\ (Announcing(clear, x) => Announcing(reg, x)) /\ f.quiet # reg.runs[x].quiet
    BY <1>3, <1>4, <1>5, <1>7, <1>10, <2>1, LocalLocal DEF SameHooks, Announcing
  <2>4. /\ Present(clear, x) /\ (Ended(clear, x) <=> Ended(m, x)) /\ ~Unused(clear, x)
        /\ Announcing(clear, x) <=> Announcing(m, x)
        /\ HookInFlight(clear, x) <=> HookInFlight(m, x)
        /\ Held(clear, x) <=> Held(m, x)
        /\ Present(m, x)
    BY <1>10, <2>1 DEF Present, Ended, Unused, Announcing, HookInFlight, Held
  <2>5. ASSUME x \in Tame
        PROVE  /\ Guarded(clear, told, x) /\ Hooked(clear, emitted, x)
               /\ Expects(x) /\ x \notin cut =>
                    Told(clear, emitted, x) /\ Handling(clear, x) /\ Steered(clear, x)
    <3>1. Guarded(clear, told, x)
      BY <1>6, <2>1, <2>4, <2>5 DEF Guarded
    <3>2. Hooked(clear, emitted, x)
      BY <1>6, <2>1, <2>4, <2>5 DEF Hooked
    <3>3. Expects(x) /\ x \notin cut =>
            Told(clear, emitted, x) /\ Handling(clear, x) /\ Steered(clear, x)
      BY <1>6, <2>1, <2>4, <2>5 DEF Told, Handling, Steered, Present
    <3> QED BY <3>1, <3>2, <3>3
  <2>6. CASE Ended(m, x) /\ ~m.runs[x].done
    <3> DEFINE Q == {x}
               o == Resume(clear, Q)
    <3>1. n = o
      BY <2>2, <2>6
    <3>2. Q \in SUBSET Runs /\ x \in Q
      BY <1>4
    <3> HIDE DEF Q
    <3>3. TakenUp(clear, o, x) /\ Moved(clear, o, x)
      BY <1>4, <2>1, <3>2, Resumed
    <3> HIDE DEF o
    <3>4. ASSUME Expects(x), Present(o, x)
          PROVE  Waiting(o, x)
      <4>1. o.runs[x].quiet = "no"
        BY <2>1, <3>3 DEF Moved
      <4> QED BY <2>1, <3>3, <3>4, <4>1 DEF TakenUp, Waiting
    <3>5. Become(o) /\ Save(o)
      BY <1>2, <3>1
    <3> QED BY <1>4, <1>8, <2>1, <2>3, <2>5, <3>4, <3>5, ResumedStep DEF o, Q
  <2>7. CASE ~(Ended(m, x) /\ ~m.runs[x].done)
    <3>1. n = clear
      BY <2>2, <2>7
    <3>2. Frame(reg, clear, x)
      BY <1>3, <1>4, <2>3, LocalFrame
    <3>3. NewHooks(clear, x) = {}
      BY <1>5, <2>1 DEF NewHooks
    <3>4. emitted'[x] = emitted[x]
      BY <1>2, <1>3, <1>4, <2>1, <3>1, <3>3, HooksCount
    <3>5. ASSUME x \in Tame
          PROVE  Good(clear, told', emitted', cut, x)
      <4>1. Waiting(clear, x)
        BY <2>1, <2>4, <2>7 DEF Waiting
      <4>2. Good(clear, told, emitted, cut, x)
        BY <2>5, <3>5, <4>1 DEF Good, Moving
      <4> QED BY <1>8, <3>4, <4>2 DEF Good, Guarded, Hooked, Told
    <3> QED BY <1>2, <1>4, <1>8, <2>3, <3>1, <3>2, <3>5, SavedStep
  <2> QED BY <2>6, <2>7
<1> QED BY <1>9, <1>10

\* A retry or back-off timer fires.
LEMMA TimerFiresStep ==
  ASSUME IInv, NEW r \in Runs, NEW kind, TimerFires(r, kind)
  PROVE  IInv'
<1> DEFINE marks == IF kind = "backoff" THEN reg.marks \ {r} ELSE reg.marks
           m == [reg EXCEPT !.timers = @ \ {<<r, kind>>},
                            !.marks = IF kind = "backoff" THEN @ \ {r} ELSE @]
           Q == {r}
           n == Resume(m, Q)
<1>1. /\ reg \in Mem /\ emitted \in [Runs -> Nat]
      /\ <<r, kind>> \in reg.timers /\ kind \in {"retry", "backoff"}
  BY DEF IInv, Types, TimerFires
<1>2. /\ m \in Mem /\ m.runs = reg.runs /\ m.calls = reg.calls /\ m.marks = marks
      /\ m.timers = reg.timers \ {<<r, kind>>}
  BY <1>1 DEF Mem
<1>3. Become(Resume(m, {r})) /\ Save(Resume(m, {r}))
  BY DEF TimerFires, BecomeAndSave
<1>4. marks \subseteq reg.marks /\ reg.marks \ {r} \subseteq marks
      /\ (kind = "backoff" => r \notin marks) /\ (kind = "retry" => marks = reg.marks)
  BY <1>1
<1> HIDE DEF m, marks
<1>5. Local(reg, m, r)
  <2>1. \A q \in Runs \ {r} : Same(reg, m, q)
    BY <1>2, <1>4 DEF Same
  <2> QED BY <1>2, <2>1 DEF Local
<1>6. SameHooks(m, r) /\ (Announcing(m, r) => Announcing(reg, r))
  BY <1>2 DEF SameHooks, Announcing
<1>7. Rest' /\ cut' = cut /\ told' = told
  BY DEF TimerFires, IInv, Types, Rest
<1>8. Q \in SUBSET Runs /\ r \in Q
  OBVIOUS
<1>9. ASSUME r \in Tame
      PROVE  /\ Guarded(m, told, r) /\ Hooked(m, emitted, r)
             /\ Expects(r) /\ r \notin cut =>
                  /\ Told(m, emitted, r)
                  /\ Present(m, r) => Handling(m, r) /\ Steered(m, r)
                  /\ Present(n, r) => Waiting(n, r)
  <2>1. Good(reg, told, emitted, cut, r)
    BY <1>9 DEF IInv, GoodRuns
  <2>2. Guarded(m, told, r) /\ Hooked(m, emitted, r)
    BY <1>2, <2>1 DEF Good, Guarded, Hooked, Present, Ended, Unused, Announcing, Held, HookInFlight
  <2>3. ASSUME Expects(r), r \notin cut
        PROVE  /\ Told(m, emitted, r)
               /\ Present(m, r) => Handling(m, r) /\ Steered(m, r)
               /\ Present(n, r) => Waiting(n, r)
    <3>1. Moving(reg, r) /\ Told(reg, emitted, r)
      BY <2>1, <2>3 DEF Good
    <3>2. Told(m, emitted, r) /\ (Present(m, r) => Handling(m, r) /\ Steered(m, r))
      BY <1>2, <3>1 DEF Told, Moving, Handling, Steered, Present, Announcing
    <3> HIDE DEF Q
    <3>3. TakenUp(m, n, r) /\ Moved(m, n, r) /\ m.calls \subseteq n.calls
      BY <1>2, <1>8, Resumed
    <3> HIDE DEF n
    <3>4. ASSUME Present(n, r), Ended(n, r), ~n.runs[r].done, ~n.runs[r].handled,
                 n.runs[r].quiet # "steer", ~\E c \in n.calls : c.run = r /\ c.at = "freeze"
          PROVE  <<r, "backoff">> \in n.timers
      <4>1. /\ Present(reg, r) /\ Ended(reg, r) /\ ~reg.runs[r].done /\ ~reg.runs[r].handled
            /\ reg.runs[r].quiet # "steer"
            /\ ~\E c \in reg.calls : c.run = r /\ c.at = "freeze"
        <5>1. /\ Present(m, r) /\ Ended(m, r) /\ ~m.runs[r].done /\ ~m.runs[r].handled
              /\ m.runs[r].quiet # "steer"
          BY <3>3, <3>4 DEF Moved, Present, Ended
        <5> QED BY <1>2, <3>3, <3>4, <5>1 DEF Present, Ended
      <4>2. <<r, "backoff">> \in reg.timers \/ r \notin reg.marks
        BY <3>1, <4>1 DEF Moving, Waiting
      <4>3. CASE r \notin m.marks
        BY <2>3, <3>3, <3>4, <4>3 DEF TakenUp
      <4>4. CASE r \in m.marks
        <5>1. kind = "retry" /\ r \in reg.marks
          BY <1>1, <1>2, <1>4, <4>4
        <5>2. <<r, "backoff">> \in m.timers
          BY <1>2, <4>2, <5>1
        <5> QED BY <3>3, <5>2 DEF Moved
      <4> QED BY <4>3, <4>4
    <3> QED BY <3>2, <3>4 DEF Waiting
  <2> QED BY <2>2, <2>3
<1> QED BY <1>2, <1>3, <1>5, <1>6, <1>7, <1>9, ResumedStep

\* The run n begins where others were: their records may be replaced, and n has a
\* fresh one.
Begun(m, o, n) ==
  /\ o \in Mem
  /\ \A r \in Runs \ {n} : Moved(m, o, r)
  /\ \E cleanup \in {"keep", "delete"} : o.runs[n] = NewRecord(cleanup)
  /\ m.calls \subseteq o.calls
  /\ \A c \in o.calls : c \notin m.calls => c.run = n /\ c.at = "wait"

\* The new run may be begun twice: by the reactivation, and by the answer.
LEMMA BegunTwice ==
  ASSUME NEW m \in Mem, NEW o, NEW p, NEW n \in Runs, Begun(m, o, n), Begun(o, p, n)
  PROVE  Begun(m, p, n)
<1>1. o \in Mem /\ p \in Mem
  BY DEF Begun
<1>2. \A r \in Runs \ {n} : Moved(m, p, r)
  <2> SUFFICES ASSUME NEW r \in Runs \ {n}
               PROVE  Moved(m, p, r)
    OBVIOUS
  <2>1. Moved(m, o, r) /\ Moved(o, p, r) /\ r \in Runs
    BY DEF Begun
  <2> QED BY <1>1, <2>1, MovedMoved
<1> QED BY <1>1, <1>2 DEF Begun

Replaced(e) == [e EXCEPT !.fate = IF @ = "here" THEN "replaced" ELSE @]

\* A replaced record is gone, and keeps its other fields.
LEMMA ReplacedFacts ==
  ASSUME NEW e \in Rec
  PROVE  LET f == Replaced(e)
         IN /\ f \in Rec /\ f.fate # "here" /\ (f.fate = e.fate \/ (e.fate = "here" /\ f.fate = "replaced"))
            /\ f.ended = e.ended /\ f.handled = e.handled /\ f.done = e.done /\ f.quiet = e.quiet
            /\ f.tries = e.tries /\ f.hooked = e.hooked
<1> DEFINE a == IF e.fate = "here" THEN "replaced" ELSE e.fate
           f == [e EXCEPT !.fate = a]
<1>1. a \in Fates /\ a # "here" /\ (a = e.fate \/ (e.fate = "here" /\ a = "replaced"))
  <2>1. e.fate \in Fates
    BY DEF Rec
  <2>2. CASE e.fate = "here"
    BY <2>2 DEF Fates
  <2>3. CASE e.fate # "here"
    <3>1. a = e.fate
      BY <2>3
    <3> HIDE DEF a
    <3> QED BY <2>1, <2>3, <3>1, Zenon
  <2> QED BY <2>2, <2>3
<1>2. f = Replaced(e)
  BY DEF Replaced
<1> HIDE DEF a
<1>3. /\ f \in Rec /\ f.fate = a
      /\ f.ended = e.ended /\ f.handled = e.handled /\ f.done = e.done /\ f.quiet = e.quiet
      /\ f.tries = e.tries /\ f.hooked = e.hooked
  BY <1>1 DEF Rec
<1> HIDE DEF f
<1> QED BY <1>1, <1>2, <1>3

\* Marks and error timer of q are dropped.
Dropped(m, q) == [m EXCEPT !.timers = @ \ {<<q, "grace">>}, !.marks = @ \ {q}]

\* Dropping them changes no record, no call and no retry.
LEMMA DroppedFacts ==
  ASSUME NEW m \in Mem, NEW q \in Runs
  PROVE  LET o == Dropped(m, q)
         IN /\ o \in Mem /\ o.runs = m.runs /\ o.calls = m.calls /\ o.marks = m.marks \ {q}
            /\ \A r : \A k \in {"retry", "backoff"} : <<r, k>> \in o.timers <=> <<r, k>> \in m.timers
<1> DEFINE o == Dropped(m, q)
<1>1. /\ o \in Mem /\ o.runs = m.runs /\ o.calls = m.calls /\ o.marks = m.marks \ {q}
      /\ o.timers = m.timers \ {<<q, "grace">>}
  BY DEF Dropped, Mem
<1> HIDE DEF o
<1>2. \A r : \A k \in {"retry", "backoff"} : <<r, k>> \in o.timers <=> <<r, k>> \in m.timers
  BY <1>1
<1> QED BY <1>1, <1>2 DEF o

\* replaceSubagentRunAfterSteer puts the old record away and begins the new one.
LEMMA ReplaceFacts ==
  ASSUME NEW m \in Mem, NEW q \in Runs, NEW n \in Runs, q # n
  PROVE  LET o == Replace(m, q, n)
         IN Begun(m, o, n) /\ ~Present(o, q)
<1> DEFINE e == m.runs[q]
           f == Replaced(e)
           cleanup == e.cleanup
           g == NewRecord(cleanup)
           p == PutIn(m, q, f)
           s == PutIn(p, n, g)
           d == Dropped(s, q)
           at == "wait"
           o == WithCall(d, n, at, at)
           z == [run |-> n, at |-> at, by |-> at]
<1>1. e \in Rec /\ m.runs \in [Runs -> Rec]
  BY MemFacts
<1>2. o = Replace(m, q, n)
  <2>1. [m EXCEPT !.runs[q].fate = IF @ = "here" THEN "replaced" ELSE @,
                  !.runs[n] = NewRecord(m.runs[q].cleanup),
                  !.timers = @ \ {<<q, "grace">>},
                  !.marks = @ \ {q}] = d
    BY <1>1 DEF Replaced, PutIn, Dropped, Mem
  <2> HIDE DEF d
  <2> QED BY <2>1 DEF Replace
<1>3. cleanup \in {"keep", "delete"}
  BY <1>1 DEF Rec
<1> HIDE DEF e
<1>4. /\ f \in Rec /\ f.fate # "here" /\ (f.fate = e.fate \/ (e.fate = "here" /\ f.fate = "replaced"))
      /\ f.quiet = e.quiet /\ f.tries = e.tries /\ f.hooked = e.hooked
  BY <1>1, ReplacedFacts
<1> HIDE DEF f, cleanup
<1>5. g \in Rec
  BY <1>3, NewRecordFacts
<1>6. g = NewRecord(cleanup)
  OBVIOUS
<1> HIDE DEF g
<1>7. /\ p \in Mem /\ p.runs[q] = f /\ \A r \in Runs \ {q} : p.runs[r] = m.runs[r]
      /\ p.marks = m.marks /\ p.timers = m.timers /\ p.calls = m.calls
  BY <1>4, PutInFacts
<1> HIDE DEF p
<1>8. /\ s \in Mem /\ s.runs[n] = g /\ \A r \in Runs \ {n} : s.runs[r] = p.runs[r]
      /\ s.marks = p.marks /\ s.timers = p.timers /\ s.calls = p.calls
  BY <1>5, <1>7, PutInFacts
<1> HIDE DEF s
<1>9. /\ d \in Mem /\ d.runs = s.runs /\ d.calls = s.calls /\ d.marks = s.marks \ {q}
      /\ \A r : \A k \in {"retry", "backoff"} : <<r, k>> \in d.timers <=> <<r, k>> \in s.timers
  BY <1>8, DroppedFacts
<1> HIDE DEF d
<1>10. at \in Stages /\ at \in Causes /\ at # "woken" /\ z.run = n /\ z.at = "wait"
  BY DEF Stages, Causes
<1> HIDE DEF at
<1>11. /\ o \in Mem /\ o.runs = d.runs /\ o.marks = d.marks /\ o.timers = d.timers
       /\ z \in Call /\ o.calls = d.calls \cup {z}
  BY <1>9, <1>10, CallFrame
<1> HIDE DEF o, z
<1>12. ASSUME NEW r \in Runs \ {n}, r # q
       PROVE  Moved(m, o, r)
  <2>1. Same(m, o, r)
    BY <1>7, <1>8, <1>9, <1>10, <1>11, <1>12 DEF Same
  <2> QED BY <1>11, <2>1, SameMoved
<1>13. o.runs[q] = f
  BY <1>7, <1>8, <1>9, <1>11
<1>14. Moved(m, o, q)
  <2>1. \A c \in o.calls : c.run = q => c \in m.calls
    BY <1>7, <1>8, <1>9, <1>10, <1>11
  <2>2. m.calls \subseteq o.calls
    BY <1>7, <1>8, <1>9, <1>11
  <2>3. \A k \in {"retry", "backoff"} : <<q, k>> \in m.timers => <<q, k>> \in o.timers
    BY <1>7, <1>8, <1>9, <1>11
  <2> QED BY <1>4, <1>13, <2>1, <2>2, <2>3 DEF Moved, Present, e
<1>15. Begun(m, o, n)
  <2>1. o.runs[n] = NewRecord(cleanup)
    BY <1>6, <1>8, <1>9, <1>11
  <2>2. m.calls \subseteq o.calls /\ \A c \in o.calls : c \notin m.calls => c.run = n /\ c.at = "wait"
    BY <1>7, <1>8, <1>9, <1>10, <1>11
  <2>3. \A r \in Runs \ {n} : Moved(m, o, r)
    BY <1>12, <1>14
  <2> QED BY <1>3, <1>11, <2>1, <2>2, <2>3 DEF Begun
<1>16. ~Present(o, q)
  BY <1>4, <1>13 DEF Present
<1> QED BY <1>2, <1>15, <1>16

\* The handler of an accepted "agent" call.
LEMMA Reactivation ==
  ASSUME NEW m \in Mem, NEW n \in Runs, Unused(m, n), NEW o \in Reactivated(m, n)
  PROVE  \/ o = m /\ ~\E q \in Runs : Latest(m, q) /\ SessionOf[q] = SessionOf[n] /\ Ended(m, q)
         \/ \E q \in Runs : /\ Latest(m, q) /\ SessionOf[q] = SessionOf[n] /\ Ended(m, q)
                            /\ o = Replace(m, q, n) /\ Begun(m, o, n) /\ ~Present(o, q)
<1> DEFINE old == {q \in Runs : Latest(m, q) /\ SessionOf[q] = SessionOf[n] /\ Ended(m, q)}
<1>1. o \in IF old = {} THEN {m} ELSE {Replace(m, q, n) : q \in old}
  BY DEF Reactivated
<1>2. CASE old = {}
  BY <1>1, <1>2
<1>3. CASE old # {}
  <2>1. PICK q \in old : o = Replace(m, q, n)
    BY <1>1, <1>3
  <2>2. q # n
    BY <2>1 DEF Latest, Present, Unused
  <2>3. Begun(m, o, n) /\ ~Present(o, q)
    BY <2>1, <2>2, ReplaceFacts
  <2> QED BY <2>1, <2>3
<1> QED BY <1>2, <1>3

\* The run n begins, after a step that changed nothing but calls of the run x.
LEMMA BegunStep ==
  ASSUME IInv, NEW m \in Mem, NEW x \in Runs, NEW n \in Runs, x # n, NEW o, Begun(m, o, n),
         m.runs = reg.runs, m.marks = reg.marks, m.timers = reg.timers,
         \A c \in Call : c.run # x => (c \in m.calls <=> c \in reg.calls),
         \A c \in m.calls : c.at = "hook" => c \in reg.calls,
         \A c \in m.calls : c.at = "woken" => c.run \notin WakeRuns,
         Become(o), Save(o), Rest', cut' = cut, told' = told,
         n \notin FirstRuns, n \in Tame => Unused(reg, n),
         n \in WakeRuns \cap Tame =>
           \A f \in FirstRuns : SessionOf[f] = SessionOf[n] => ~Unused(o, f) /\ ~Present(o, f),
         x \in Tame => Good(o, told, emitted, cut, x) /\ (Announcing(m, x) => Announcing(reg, x))
  PROVE  IInv'
<1> DEFINE X == {x, n}
<1>1. /\ reg \in Mem /\ emitted \in [Runs -> Nat] /\ o \in Mem /\ Types /\ OnDisk
      /\ FirstRuns \subseteq Runs /\ WakeRuns \subseteq Runs
  BY RegistryAssumption DEF IInv, Types, Begun
<1>2. \A r \in Runs \ {n} : Moved(m, o, r)
  BY DEF Begun
<1>3. \A r \in Runs \ X : Moved(reg, o, r) /\ told'[r] = told[r]
  <2> SUFFICES ASSUME NEW r \in Runs \ X
               PROVE  Moved(reg, o, r)
    OBVIOUS
  <2>1. r \in Runs /\ r # x /\ r # n
    OBVIOUS
  <2>2. Same(reg, m, r)
    BY <2>1 DEF Same
  <2> QED BY <1>1, <1>2, <2>1, <2>2, SameMoved, MovedMoved
<1>4. \A r \in Runs : NewHooks(o, r) = {}
  BY DEF NewHooks, Begun
<1>5. \A r \in Runs : emitted'[r] = emitted[r]
  BY <1>1, <1>4, HooksCount
<1>6. WakeInv(o)
  <2>1. \A c \in o.calls : c.at = "woken" => c.run \notin WakeRuns
    BY DEF Begun
  <2>2. ASSUME NEW w \in WakeRuns \cap Tame, NEW f \in FirstRuns,
               SessionOf[w] = SessionOf[f], ~Unused(o, w)
        PROVE  ~Unused(o, f) /\ ~Present(o, f)
    <3>1. CASE w = n
      BY <2>2, <3>1
    <3>2. CASE w # n
      <4>1. Moved(m, o, w) /\ Moved(m, o, f)
        BY <1>1, <1>2, <3>2
      <4>2. ~Unused(reg, w)
        BY <2>2, <4>1 DEF Moved, Unused, Present
      <4>3. ~Unused(reg, f) /\ ~Present(reg, f)
        BY <2>2, <4>2 DEF WakeInv, IInv
      <4> QED BY <4>1, <4>3 DEF Moved, Unused, Present
    <3> QED BY <3>1, <3>2
  <2> QED BY <2>1, <2>2 DEF WakeInv
<1>7. /\ Written(o, X)
      /\ \A r \in Runs : \/ disk'[r] = Saved(o)[r]
                         \/ disk'[r] = disk[r] /\ o.runs[r] = reg.runs[r]
  BY <1>1, SaveWrites
<1>8. ASSUME n \in Tame
      PROVE  Good(o, told', emitted', cut, n) /\ disk'[n] = Saved(o)[n]
  <2>1. Unused(reg, n)
    BY <1>8
  <2>2. told[n] = 0 /\ ~Held(reg, n) /\ emitted[n] = 0
    BY <1>8, <2>1 DEF IInv, GoodRuns, Good, Guarded, Hooked
  <2>3. ~Held(o, n)
    BY <1>1, <2>2, MemFacts DEF Held, Begun
  <2>4. PICK cleanup \in {"keep", "delete"} : o.runs[n] = NewRecord(cleanup)
    BY DEF Begun
  <2>5. o.runs[n].fate = "here"
    BY <2>4, NewRecordFacts
  <2>6. o.runs[n] # reg.runs[n]
    BY <2>1, <2>5 DEF Unused
  <2>7. Good(o, told', emitted', cut, n)
    BY <1>1, <1>5, <2>2, <2>3, <2>4, FreshGood
  <2> QED BY <1>7, <2>6, <2>7
<1>9. ASSUME x \in Tame
      PROVE  /\ Good(o, told', emitted', cut, x)
             /\ disk'[x] = Saved(o)[x] \/ Stored(disk'[x], o, told', emitted', cut, x)
  <2>1. Good(o, told', emitted', cut, x)
    BY <1>5, <1>9 DEF Good, Guarded, Hooked, Told
  <2>2. Moved(m, o, x)
    BY <1>2
  <2>3. Present(o, x) => Present(reg, x) /\ o.runs[x].hooked = reg.runs[x].hooked
    BY <2>2 DEF Moved, Present
  <2>4. Announcing(o, x) => Announcing(reg, x)
    <3>1. Announcing(o, x) => Announcing(m, x)
      BY DEF Begun, Announcing, Announces
    <3> QED BY <1>9, <3>1
  <2>5. Stored(disk[x], o, told', emitted', cut, x)
    BY <1>1, <1>9, <2>1, <2>3, <2>4, StoredKept
  <2> QED BY <1>7, <2>1, <2>5
<1>10. \A r \in X \cap Tame :
           /\ Good(o, told', emitted', cut, r)
           /\ disk'[r] = Saved(o)[r] \/ Stored(disk'[r], o, told', emitted', cut, r)
  BY <1>8, <1>9
<1>11. X \in SUBSET Runs
  OBVIOUS
<1> HIDE DEF X
<1> QED BY <1>1, <1>3, <1>6, <1>7, <1>10, <1>11, StepInv

\* A run whose record was replaced while a call held it.
LEMMA ReplacedGood ==
  ASSUME IInv, NEW c \in reg.calls, c.at \in {"steer", "woken"}, c.run \in Tame, NEW o \in Mem,
         Moved([reg EXCEPT !.calls = @ \ {c}], o, c.run), ~Present(o, c.run)
  PROVE  Good(o, told, emitted, cut, c.run)
<1> DEFINE x == c.run
           m == [reg EXCEPT !.calls = @ \ {c}]
<1>1. /\ Guarded(m, told, x) /\ Hooked(m, emitted, x)
      /\ Expects(x) /\ x \notin cut => Told(m, emitted, x)
  <2>1. c.at # "hook" /\ c.at # "wait"
    OBVIOUS
  <2> QED BY <2>1, WithoutGood
<1>2. reg \in Mem /\ x \in Runs
  BY DEF IInv, Types, Tame
<1>3. m \in Mem
  BY <1>2, Without
<1> HIDE DEF m
<1>4. Moved(m, o, x)
  BY DEF m
<1> HIDE DEF x
<1>5. ~Present(o, x)
  BY DEF x
<1>6. Guarded(o, told, x) /\ Hooked(o, emitted, x)
  BY <1>1, <1>2, <1>3, <1>4, MovedGuarded, MovedHooked
<1>7. Expects(x) /\ x \notin cut => Told(o, emitted, x)
  BY <1>1, <1>2, <1>3, <1>4, MovedTold DEF Guarded
<1>8. Moving(o, x)
  BY <1>5 DEF Moving
<1> QED BY <1>6, <1>7, <1>8 DEF Good, x

\* What a call of x that is over leaves of the memory, for BegunStep.
LEMMA OverFacts ==
  ASSUME IInv, NEW c \in reg.calls
  PROVE  LET m == [reg EXCEPT !.calls = @ \ {c}]
         IN /\ c \in Call /\ c.run \in Runs /\ m \in Mem
            /\ m.runs = reg.runs /\ m.marks = reg.marks /\ m.timers = reg.timers
            /\ m.calls \subseteq reg.calls
            /\ \A d \in Call : d.run # c.run => (d \in m.calls <=> d \in reg.calls)
            /\ \A d \in m.calls : d.at = "woken" => d.run \notin WakeRuns
            /\ Announcing(m, c.run) => Announcing(reg, c.run)
<1> DEFINE m == [reg EXCEPT !.calls = @ \ {c}]
<1>1. reg \in Mem /\ c \in Call
  BY MemFacts DEF IInv, Types
<1>2. /\ m \in Mem /\ m.runs = reg.runs /\ m.marks = reg.marks /\ m.timers = reg.timers
      /\ m.calls = reg.calls \ {c}
  BY <1>1, Without
<1> HIDE DEF m
<1>3. c.run \in Runs
  BY <1>1 DEF Call
<1>4. \A d \in m.calls : d.at = "woken" => d.run \notin WakeRuns
  BY <1>2 DEF IInv, WakeInv
<1>5. Announcing(m, c.run) => Announcing(reg, c.run)
  BY <1>2 DEF Announcing
<1> QED BY <1>1, <1>2, <1>3, <1>4, <1>5 DEF m

\* The steer is accepted: the run's record moves to the new run.
LEMMA SteerSucceedsStep ==
  ASSUME IInv, NEW c \in reg.calls, NEW n \in Runs, SteerSucceeds(c, n)
  PROVE  IInv'
<1> DEFINE x == c.run
           m == [reg EXCEPT !.calls = @ \ {c}]
<1>1. PICK p \in Reactivated(m, n) : BecomeAndSave(Replace(p, x, n))
  BY DEF SteerSucceeds
<1> DEFINE o == Replace(p, x, n)
<1>2. /\ c.at = "steer" /\ Unused(reg, n) /\ n \notin FirstRuns \cup WakeRuns
  BY DEF SteerSucceeds, Follows
<1>3. /\ x \in Runs /\ m \in Mem
      /\ m.runs = reg.runs /\ m.marks = reg.marks /\ m.timers = reg.timers
      /\ m.calls \subseteq reg.calls
      /\ \A d \in Call : d.run # x => (d \in m.calls <=> d \in reg.calls)
      /\ \A d \in m.calls : d.at = "woken" => d.run \notin WakeRuns
      /\ Announcing(m, x) => Announcing(reg, x)
  BY OverFacts
<1>4. x # n
  <2>1. n \in Tame
    BY <1>2 DEF Tame
  <2>2. ~Held(reg, n)
    BY <1>2, <2>1 DEF IInv, GoodRuns, Good, Guarded
  <2> QED BY <1>2, <2>2 DEF Held
<1>5. Unused(m, n)
  BY <1>2, <1>3 DEF Unused
<1>6. m = [reg EXCEPT !.calls = @ \ {c}]
  OBVIOUS
<1> HIDE DEF m
<1>7. p \in Mem /\ (p = m \/ Begun(m, p, n))
  BY <1>1, <1>3, <1>5, Reactivation DEF Begun
<1>8. Begun(p, o, n) /\ ~Present(o, x)
  BY <1>3, <1>4, <1>7, ReplaceFacts
<1>9. Become(o) /\ Save(o)
  <2> HIDE DEF o
  <2>1. BecomeAndSave(o)
    BY <1>1 DEF o
  <2> QED BY <2>1 DEF BecomeAndSave
<1> HIDE DEF o
<1>10. Begun(m, o, n)
  BY <1>3, <1>7, <1>8, BegunTwice
<1>11. Rest' /\ cut' = cut /\ told' = told
  BY DEF SteerSucceeds, IInv, Types, Rest
<1>12. ASSUME x \in Tame
       PROVE  Good(o, told, emitted, cut, x)
  <2>1. o \in Mem /\ Moved(m, o, x)
    BY <1>3, <1>4, <1>10 DEF Begun
  <2> QED BY <1>2, <1>6, <1>8, <1>12, <2>1, ReplacedGood
<1>13. \A d \in m.calls : d.at = "hook" => d \in reg.calls
  BY <1>3
<1> HIDE DEF x
<1> QED BY <1>2, <1>3, <1>4, <1>9, <1>10, <1>11, <1>12, <1>13, BegunStep

\* The run n begins where r was, and nothing else happens.
LEMMA SucceededStep ==
  ASSUME IInv, NEW r \in Runs, NEW n \in Runs, Follows(r, n), r # n, NEW o, Begun(reg, o, n),
         Become(o), Save(o), Rest', cut' = cut, told' = told
  PROVE  IInv'
<1>1. /\ reg \in Mem /\ Unused(reg, n) /\ n \notin FirstRuns \cup WakeRuns
      /\ \A d \in reg.calls : d.at = "woken" => d.run \notin WakeRuns
  BY DEF IInv, Types, WakeInv, Follows
<1>2. ASSUME r \in Tame
      PROVE  Good(o, told, emitted, cut, r)
  <2>1. o \in Mem /\ Moved(reg, o, r)
    BY DEF Begun
  <2> QED BY <1>1, <1>2, <2>1, MovedGood DEF IInv, GoodRuns
<1> QED BY <1>1, <1>2, BegunStep

\* A message that reactivates an ended session keeps the invariant.
LEMMA ReactivateStep ==
  ASSUME IInv, NEW r \in Runs, NEW n \in Runs, Reactivate(r, n)
  PROVE  IInv'
<1>1. PICK o \in Reactivated(reg, n) : BecomeAndSave(o)
  BY DEF Reactivate
<1>2. /\ reg \in Mem /\ Follows(r, n) /\ Unused(reg, n) /\ SessionOf[n] = SessionOf[r]
      /\ Latest(reg, r) /\ Ended(reg, r)
  BY DEF IInv, Types, Reactivate, Follows
<1>3. r # n
  BY <1>2 DEF Latest, Present, Unused
<1>4. Begun(reg, o, n)
  BY <1>1, <1>2, Reactivation
<1>5. Rest' /\ cut' = cut /\ told' = told
  <2>1. incidents' \in 0..MaxIncidents
    BY RegistryAssumption DEF IInv, Types, Rest, Reactivate, Incident
  <2> QED BY <2>1 DEF Reactivate, IInv, Types, Rest
<1>6. Become(o) /\ Save(o)
  BY <1>1 DEF BecomeAndSave
<1> QED BY <1>2, <1>3, <1>4, <1>5, <1>6, SucceededStep

\* The recovery of an orphaned session keeps the invariant.
LEMMA RecoverOrphanStep ==
  ASSUME IInv, NEW r \in Runs, NEW n \in Runs, RecoverOrphan(r, n)
  PROVE  IInv'
<1> DEFINE o == Replace(reg, r, n)
<1>1. BecomeAndSave(o)
  BY DEF RecoverOrphan
<1>2. reg \in Mem /\ Follows(r, n) /\ Unused(reg, n) /\ Present(reg, r)
  BY DEF IInv, Types, RecoverOrphan, Follows
<1>3. r # n
  BY <1>2 DEF Present, Unused
<1>4. Begun(reg, o, n)
  BY <1>2, <1>3, ReplaceFacts
<1>5. Rest' /\ cut' = cut /\ told' = told
  BY DEF RecoverOrphan, IInv, Types, Rest
<1> HIDE DEF o
<1>6. Become(o) /\ Save(o)
  BY <1>1 DEF BecomeAndSave
<1> QED BY <1>2, <1>3, <1>4, <1>5, <1>6, SucceededStep

\* In the session of a tame wake continuation there is one other run that is no wake.
LEMMA OnlyFirst ==
  ASSUME NEW w \in WakeRuns, w \in Tame, NEW x \in Runs, x \notin WakeRuns, SessionOf[x] = SessionOf[w]
  PROVE  /\ x \in FirstRuns /\ x \in Tame
         /\ \A f \in FirstRuns : SessionOf[f] = SessionOf[w] => f = x
         /\ \A q \in Runs : SessionOf[q] = SessionOf[w] => q = x \/ q \in WakeRuns \cap Tame
<1>1. x \in FirstRuns /\ x \in Tame
  BY DEF Tame
<1>2. \A f \in FirstRuns : SessionOf[f] = SessionOf[w] => f = x
  BY <1>1, RegistryAssumption
<1>3. ASSUME NEW q \in Runs, SessionOf[q] = SessionOf[w]
      PROVE  q = x \/ q \in WakeRuns \cap Tame
  BY <1>2, <1>3 DEF Tame
<1> QED BY <1>1, <1>2, <1>3

\* The "agent" call of a wake is accepted.
LEMMA WakeAcceptedStep ==
  ASSUME IInv, NEW c \in reg.calls, NEW w \in Runs, WakeAccepted(c, w)
  PROVE  IInv'
<1> DEFINE x == c.run
           at == "woken"
           m == Staged(reg, c, at)
<1>1. PICK o \in Reactivated(m, w) : BecomeAndSave(o)
  BY DEF WakeAccepted, Staged
<1>2. /\ c.at = "announce" /\ w \in WakeRuns /\ Unused(reg, w) /\ SessionOf[w] = SessionOf[x]
      /\ x \notin WakeRuns /\ reg \in Mem /\ c \in Call /\ x \in Runs /\ c.at # at
  BY MemFacts DEF WakeAccepted, IInv, Types, Call
<1>3. at \in {"woken", "deliver"} /\ at = "woken" /\ c.at \in {"announce", "woken"}
  BY <1>2
<1>4. m = [reg EXCEPT !.calls = (@ \ {c}) \cup {[c EXCEPT !.at = at]}]
  BY DEF Staged
<1> HIDE DEF m, at
<1>5. /\ m \in Mem /\ m.runs = reg.runs /\ m.marks = reg.marks /\ m.timers = reg.timers
      /\ \A r \in Runs \ {x} : Same(reg, m, r)
      /\ \A d \in m.calls : d \notin reg.calls => d.run = x /\ d.at = at
      /\ x \in Tame => Good(m, told, emitted, cut, x) /\ Announcing(reg, x)
      /\ WakeInv(m)
  BY <1>2, <1>3, <1>4, StageFacts
<1>6. Become(o) /\ Save(o)
  BY <1>1 DEF BecomeAndSave
<1>7. Rest' /\ cut' = cut /\ told' = told
  BY DEF WakeAccepted, IInv, Types, Rest
<1>8. Unused(m, w)
  BY <1>2, <1>5 DEF Unused
<1>9. CASE o = m
  <2>1. UNCHANGED disk
    BY <1>5, <1>6, <1>9 DEF Save
  <2>2. Become(Staged(reg, c, at))
    BY <1>6, <1>9 DEF m
  <2> QED BY <1>2, <1>3, <1>7, <2>1, <2>2, StageStep
<1>10. ASSUME NEW q \in Runs, Latest(m, q), SessionOf[q] = SessionOf[w], o = Replace(m, q, w),
              Begun(m, o, w), ~Present(o, q)
       PROVE  IInv'
  <2>1. x # w
    BY <1>2
  <2>2. Moved(m, o, x)
    BY <1>2, <1>10, <2>1 DEF Begun
  <2>3. \A d \in Call : d.run # x => (d \in m.calls <=> d \in reg.calls)
    <3>1. m.calls = (reg.calls \ {c}) \cup {[c EXCEPT !.at = at]}
      BY <1>2, <1>4 DEF Mem
    <3>2. [c EXCEPT !.at = at].run = x
      BY <1>2 DEF Call
    <3> QED BY <3>1, <3>2
  <2>4. \A d \in m.calls : d.at = "hook" => d \in reg.calls
    BY <1>3, <1>5
  <2>5. \A d \in m.calls : d.at = "woken" => d.run \notin WakeRuns
    BY <1>5 DEF WakeInv
  <2>6. w \notin FirstRuns /\ (w \in Tame => Unused(reg, w))
    BY <1>2, RegistryAssumption
  <2>7. ASSUME w \in WakeRuns \cap Tame, NEW f \in FirstRuns, SessionOf[f] = SessionOf[w]
        PROVE  ~Unused(o, f) /\ ~Present(o, f)
    <3>1. /\ x \in FirstRuns /\ x \in Tame /\ f = x
          /\ q = x \/ q \in WakeRuns \cap Tame
      BY <1>2, <1>10, <2>7, OnlyFirst
    <3>2. ~Unused(reg, x)
      BY <1>5, <3>1 DEF IInv, GoodRuns, Good, Guarded, Announcing, Announces, Held
    <3>3. ~Unused(o, x)
      BY <1>5, <2>2, <3>2 DEF Moved, Unused, Present
    <3>4. CASE q = x
      BY <1>10, <3>1, <3>3, <3>4
    <3>5. CASE q \in WakeRuns \cap Tame
      <4>1. ~Unused(reg, q)
        BY <1>5, <1>10 DEF Latest, Present, Unused
      <4>2. ~Present(reg, x)
        BY <1>2, <1>10, <3>1, <3>5, <4>1 DEF IInv, WakeInv
      <4> QED BY <1>5, <2>2, <3>1, <3>3, <4>2 DEF Moved, Present
    <3> QED BY <3>1, <3>4, <3>5
  <2>8. ASSUME x \in Tame
        PROVE  Good(o, told, emitted, cut, x) /\ (Announcing(m, x) => Announcing(reg, x))
    <3>1. o \in Mem
      BY <1>10 DEF Begun
    <3> QED BY <1>2, <1>5, <2>2, <2>8, <3>1, MovedGood
  <2>9. Begun(m, o, w)
    BY <1>10
  <2> HIDE DEF x
  <2> QED BY <1>2, <1>5, <1>6, <1>7, <2>1, <2>3, <2>4, <2>5, <2>6, <2>7, <2>8, <2>9, BegunStep
<1>11. \/ o = m
       \/ \E q \in Runs : /\ Latest(m, q) /\ SessionOf[q] = SessionOf[w] /\ o = Replace(m, q, w)
                          /\ Begun(m, o, w) /\ ~Present(o, q)
  BY <1>1, <1>5, <1>8, Reactivation
<1> QED BY <1>9, <1>10, <1>11

\* The answer to it.
LEMMA WakeAnswersStep ==
  ASSUME IInv, NEW c \in reg.calls, NEW w \in Runs, WakeAnswers(c, w)
  PROVE  IInv'
<1> DEFINE x == c.run
           m == [reg EXCEPT !.calls = @ \ {c}]
           o == Replace(m, x, w)
<1>1. /\ c.at = "woken" /\ w \in WakeRuns /\ SessionOf[w] = SessionOf[x]
      /\ x \notin WakeRuns
  BY DEF WakeAnswers, IInv, WakeInv
<1>2. Rest' /\ cut' = cut /\ told' = told
  BY DEF WakeAnswers, IInv, Types, Rest
<1>3. CASE ~Present(reg, x)
  <2>1. Become(BeginDelivery(reg, c)) /\ UNCHANGED disk
    BY <1>3 DEF WakeAnswers
  <2>2. c.at \in {"announce", "woken"}
    BY <1>1
  <2> QED BY <1>2, <2>1, <2>2, DeliveryBegins
<1>4. CASE Present(reg, x)
  <2>1. BecomeAndSave(o)
    BY <1>4 DEF WakeAnswers
  <2>2. /\ x \in Runs /\ m \in Mem
        /\ m.runs = reg.runs /\ m.marks = reg.marks /\ m.timers = reg.timers
        /\ m.calls \subseteq reg.calls
        /\ \A d \in Call : d.run # x => (d \in m.calls <=> d \in reg.calls)
        /\ \A d \in m.calls : d.at = "woken" => d.run \notin WakeRuns
        /\ Announcing(m, x) => Announcing(reg, x)
    BY OverFacts
  <2>3. m = [reg EXCEPT !.calls = @ \ {c}]
    OBVIOUS
  <2>4. x # w
    BY <1>1
  <2> HIDE DEF m
  <2>5. Begun(m, o, w) /\ ~Present(o, x)
    BY <2>2, <2>4, ReplaceFacts
  <2> HIDE DEF o
  <2>6. Become(o) /\ Save(o)
    BY <2>1 DEF BecomeAndSave
  <2>7. o \in Mem /\ Moved(m, o, x)
    BY <2>2, <2>4, <2>5 DEF Begun
  <2>8. ASSUME x \in Tame
        PROVE  Good(o, told, emitted, cut, x)
    BY <1>1, <2>3, <2>5, <2>7, <2>8, ReplacedGood
  <2>9. w \notin FirstRuns
    BY <1>1, RegistryAssumption
  <2>10. ASSUME w \in Tame
         PROVE  Unused(reg, w)
    <3>1. x \in FirstRuns
      BY <1>1, <2>2, <2>10, OnlyFirst
    <3> QED BY <1>1, <1>4, <2>10, <3>1 DEF IInv, WakeInv
  <2>11. ASSUME w \in WakeRuns \cap Tame, NEW f \in FirstRuns, SessionOf[f] = SessionOf[w]
         PROVE  ~Unused(o, f) /\ ~Present(o, f)
    <3>1. f = x
      BY <1>1, <2>2, <2>11, OnlyFirst
    <3>2. ~Unused(o, x)
      BY <1>4, <2>2, <2>7 DEF Moved, Present, Unused
    <3> QED BY <2>5, <3>1, <3>2
  <2>12. \A d \in m.calls : d.at = "hook" => d \in reg.calls
    BY <2>2
  <2> HIDE DEF x
  <2> QED BY <1>2, <2>2, <2>4, <2>5, <2>6, <2>8, <2>9, <2>10, <2>11, <2>12, BegunStep
<1> QED BY <1>3, <1>4

\* What a restart reads: the saved records, and the fates of those that were not saved.
ReadBack ==
  [runs |-> [r \in Runs |-> IF disk[r].fate = "here" THEN disk[r] ELSE reg.runs[r]],
   marks |-> {}, timers |-> {}, calls |-> {}]

\* What is read back has the records of the same runs.
LEMMA ReadFacts ==
  ASSUME IInv
  PROVE  /\ ReadBack \in Mem /\ ReadBack.calls = {} /\ ReadBack.marks = {}
         /\ \A r \in Runs : /\ Present(ReadBack, r) <=> Present(reg, r)
                            /\ Unused(ReadBack, r) <=> Unused(reg, r)
                            /\ Present(reg, r) => ReadBack.runs[r] = disk[r]
                            /\ ~Present(reg, r) => ReadBack.runs[r] = reg.runs[r]
<1> DEFINE f == [r \in Runs |-> IF disk[r].fate = "here" THEN disk[r] ELSE reg.runs[r]]
<1>1. reg \in Mem /\ disk \in [Runs -> Rec]
  BY DEF IInv, Types
<1>2. \A r \in Runs : /\ Present(reg, r) => f[r] = disk[r]
                      /\ ~Present(reg, r) => f[r] = reg.runs[r]
  BY DEF IInv, OnDisk
<1>3. \A r \in Runs : f[r] \in Rec
  BY <1>1, <1>2, MemFacts
<1>4. f = [r \in Runs |-> f[r]]
  OBVIOUS
<1>5. ReadBack = [runs |-> f, marks |-> {}, timers |-> {}, calls |-> {}]
  BY DEF ReadBack
<1> HIDE DEF f
<1>6. f \in [Runs -> Rec]
  BY <1>3, <1>4
<1>7. /\ ReadBack \in Mem /\ ReadBack.calls = {} /\ ReadBack.marks = {} /\ ReadBack.runs = f
  BY <1>5, <1>6 DEF Mem
<1>8. ASSUME NEW r \in Runs
      PROVE  /\ Present(ReadBack, r) <=> Present(reg, r)
             /\ Unused(ReadBack, r) <=> Unused(reg, r)
  <2>1. disk[r].fate = "here" <=> Present(reg, r)
    BY DEF IInv, OnDisk
  <2> QED BY <1>2, <1>7, <2>1 DEF Present, Unused
<1> QED BY <1>2, <1>7, <1>8

\* A run that is read back is not hooked or announced again, and one that no call was
\* needed for is taken up.
LEMMA RestartGood ==
  ASSUME IInv, NEW m \in Mem, NEW em, NEW ct, NEW r \in Tame,
         Moved(ReadBack, m, r), Present(ReadBack, r) => TakenUp(ReadBack, m, r),
         em[r] = IF HookInFlight(reg, r) THEN emitted[r] - 1 ELSE emitted[r],
         r \notin ct => /\ r \notin cut /\ ~HookInFlight(reg, r)
                        /\ Present(m, r) => ~(disk[r].handled /\ ~disk[r].done) /\ disk[r].quiet # "steer"
  PROVE  Good(m, told, em, ct, r)
<1> DEFINE d == disk[r]
           b == ReadBack
<1>1. /\ r \in Runs /\ reg \in Mem /\ Good(reg, told, emitted, cut, r)
      /\ Stored(d, reg, told, emitted, cut, r)
  BY DEF Tame, IInv, Types, GoodRuns
<1>2. /\ b \in Mem /\ b.calls = {} /\ b.marks = {}
      /\ Present(b, r) <=> Present(reg, r)
      /\ Unused(b, r) <=> Unused(reg, r)
      /\ Present(reg, r) => b.runs[r] = d
      /\ ~Present(reg, r) => b.runs[r] = reg.runs[r]
  BY <1>1, ReadFacts
<1> HIDE DEF d, b
<1>3. ~Announcing(b, r) /\ ~Held(b, r) /\ ~HookInFlight(b, r)
  BY <1>2 DEF Announcing, Held, HookInFlight
<1>4. Guarded(b, told, r)
  <2>1. Guarded(reg, told, r)
    BY <1>1 DEF Good
  <2>2. CASE Present(reg, r)
    BY <1>1, <1>2, <1>3, <2>1, <2>2 DEF Guarded, Stored, Ended
  <2>3. CASE ~Present(reg, r)
    BY <1>2, <1>3, <2>1, <2>3 DEF Guarded
  <2> QED BY <2>2, <2>3
<1>5. Hooked(reg, emitted, r)
  BY <1>1 DEF Good
<1>6. Hooked(b, em, r)
  <2>1. b.runs[r].hooked = reg.runs[r].hooked
    BY <1>1, <1>2 DEF Stored
  <2>2. CASE HookInFlight(reg, r)
    <3>1. em[r] = 0 /\ ~b.runs[r].hooked
      BY <1>5, <2>1, <2>2 DEF Hooked
    <3>2. \A c \in b.calls : FALSE
      BY <1>2
    <3>3. em[r] \in {0, 1} /\ em[r] # 1
      <4>1. em[r] = 0
        BY <3>1, Zenon
      <4>2. 0 \in {0, 1} /\ 0 # 1
        OBVIOUS
      <4> QED BY <4>1, <4>2, Zenon
    <3>4. b.runs[r].hooked => em[r] = 1
      BY <3>1, Zenon
    <3> QED BY <1>3, <3>2, <3>3, <3>4 DEF Hooked
  <2>3. CASE ~HookInFlight(reg, r)
    <3>1. em[r] = emitted[r]
      BY <2>3
    <3>2. b.runs[r].hooked <=> reg.runs[r].hooked
      BY <2>1
    <3>3. em[r] = 1 /\ Present(b, r) => b.runs[r].hooked
      BY <1>2, <1>5, <2>3, <3>1, <3>2 DEF Hooked
    <3>4. (b.runs[r].hooked => em[r] = 1) /\ em[r] \in {0, 1}
      BY <1>5, <3>1, <3>2 DEF Hooked
    <3>5. Unused(b, r) => em[r] = 0
      BY <1>2, <1>5, <3>1 DEF Hooked
    <3> QED BY <1>2, <1>3, <3>3, <3>4, <3>5 DEF Hooked
  <2> QED BY <2>2, <2>3
<1>7. Moved(b, m, r)
  BY DEF b
<1>8. Guarded(m, told, r) /\ Hooked(m, em, r)
  BY <1>1, <1>2, <1>4, <1>6, <1>7, MovedGuarded, MovedHooked
<1>9. ASSUME Expects(r), r \notin ct
      PROVE  Moving(m, r) /\ Told(m, em, r)
  <2>1. Told(reg, emitted, r) /\ r \notin cut /\ em[r] = emitted[r]
    BY <1>1, <1>9 DEF Good
  <2>2. Told(b, em, r)
    <3>1. CASE Present(reg, r)
      BY <1>1, <1>2, <1>9, <2>1, <3>1 DEF Told, Stored, Present
    <3>2. CASE ~Present(reg, r)
      BY <1>2, <2>1, <3>2 DEF Told, Present
    <3> QED BY <3>1, <3>2
  <2>3. Told(m, em, r)
    BY <1>1, <1>2, <1>4, <1>7, <1>9, <2>2, MovedTold DEF Guarded
  <2>4. ASSUME Present(m, r)
        PROVE  Handling(m, r) /\ Waiting(m, r) /\ Steered(m, r)
    <3>1. Present(b, r) /\ Present(reg, r) /\ b.runs[r] = d /\ m.runs[r].quiet = d.quiet
      BY <1>2, <1>7, <2>4 DEF Moved, Present
    <3>2. ~(d.handled /\ ~d.done) /\ d.quiet # "steer"
      BY <1>9, <2>4 DEF d
    <3>3. Handling(m, r)
      BY <1>7, <2>4, <3>1, <3>2 DEF Moved, Handling
    <3>4. Waiting(m, r)
      <4>1. TakenUp(b, m, r)
        BY <3>1 DEF b
      <4> QED BY <1>2, <1>9, <2>4, <3>1, <3>2, <4>1 DEF TakenUp, Waiting
    <3>5. Steered(m, r)
      BY <3>1, <3>2 DEF Steered
    <3> QED BY <3>3, <3>4, <3>5
  <2> QED BY <2>3, <2>4 DEF Moving
<1> QED BY <1>8, <1>9 DEF Good

\* A restart keeps the invariant.
LEMMA RestartStep ==
  ASSUME IInv, Restart
  PROVE  IInv'
<1> DEFINE b == ReadBack
           Q == {r \in Runs : Present(b, r)}
           m == Resume(b, Q)
<1>1. /\ reg' = Tidy(m) /\ disk' = Saved(m)
      /\ cut' = cut \cup {r \in Runs :
             \/ Present(m, r) /\ disk[r].handled /\ ~disk[r].done
             \/ Present(m, r) /\ disk[r].quiet = "steer"
             \/ HookInFlight(reg, r)}
      /\ emitted' = [r \in Runs |-> IF HookInFlight(reg, r) THEN emitted[r] - 1 ELSE emitted[r]]
      /\ told' = told
  BY DEF Restart, ReadBack
<1>2. /\ b \in Mem /\ b.calls = {} /\ b.marks = {}
      /\ \A r \in Runs : (Present(b, r) <=> Present(reg, r)) /\ (Unused(b, r) <=> Unused(reg, r))
  BY ReadFacts
<1>3. Q \in SUBSET Runs /\ \A r \in Runs : Present(b, r) => r \in Q
  OBVIOUS
<1> HIDE DEF b, Q
<1>4. m \in Mem /\ \A r \in Runs : Moved(b, m, r) /\ (r \in Q => TakenUp(b, m, r))
  <2>1. m \in Mem
    BY <1>2, <1>3, ResumeTypes
  <2> QED BY <1>2, <1>3, <2>1, Resumed
<1> HIDE DEF m
<1>5. ASSUME NEW c \in m.calls
      PROVE  c.at \in {"wait", "announce"}
  <2>1. c \in Call
    BY <1>4, MemFacts
  <2>2. c.run \in Runs
    BY <2>1 DEF Call
  <2>3. ASSUME c.at # "wait"
        PROVE  c.at = "announce"
    <3>1. c = [run |-> c.run, at |-> "announce", by |-> "cleanup"]
      BY <1>2, <1>4, <2>2, <2>3 DEF Moved
    <3> QED BY <3>1
  <2> QED BY <2>3
<1>6. /\ reg' \in Mem /\ reg'.calls \subseteq m.calls
      /\ \A r \in Runs : reg'.runs[r].fate = m.runs[r].fate
  <2> DEFINE n == Tidy(m)
  <2>1. \A r \in Runs : n \in Mem /\ n.calls \subseteq m.calls /\ n.runs[r].fate = m.runs[r].fate
    BY <1>4, Tidied
  <2>2. n \in Mem /\ n.calls \subseteq m.calls
    BY <1>4, TidyTypes
  <2> HIDE DEF n
  <2>3. reg' = n
    BY <1>1 DEF n
  <2> QED BY <2>1, <2>2, <2>3
<1>7. Types'
  <2>1. \A r \in Runs : HookInFlight(reg, r) => emitted[r] >= 1
    BY DEF IInv, HooksCounted
  <2>2. emitted' \in [Runs -> Nat]
    <3>1. emitted \in [Runs -> Nat]
      BY DEF IInv, Types
    <3>2. ASSUME NEW r \in Runs
          PROVE  emitted'[r] \in Nat
      <4>1. CASE HookInFlight(reg, r)
        <5>1. emitted[r] \in Nat /\ emitted[r] >= 1 /\ emitted'[r] = emitted[r] - 1
          BY <1>1, <2>1, <3>1, <4>1
        <5> QED BY <5>1
      <4>2. CASE ~HookInFlight(reg, r)
        BY <1>1, <3>1, <4>2
      <4> QED BY <4>1, <4>2
    <3>3. emitted' = [r \in Runs |-> emitted'[r]]
      BY <1>1
    <3> QED BY <3>2, <3>3
  <2>3. cut' \subseteq Runs
    BY <1>1 DEF IInv, Types
  <2>4. Rest'
    <3>1. incidents' \in 0..MaxIncidents
      BY RegistryAssumption DEF IInv, Types, Rest, Restart, Incident
    <3> QED BY <3>1 DEF Restart, IInv, Types, Rest
  <2>5. disk' \in [Runs -> Rec]
    BY <1>1, <1>4, SavedTypes
  <2> QED BY <1>6, <2>2, <2>3, <2>4, <2>5 DEF Types
<1>8. OnDisk'
  <2>1. \A r \in Runs : Present(reg, r)' <=> Present(m, r)
    BY <1>6 DEF Present
  <2> QED BY <1>1, <1>4, <2>1, SavedTypes DEF OnDisk
<1>9. HooksCounted'
  BY <1>5, <1>6 DEF HooksCounted, HookInFlight
<1>10. WakeInv(reg)'
  <2>1. \A c \in reg'.calls : c.at # "woken"
    BY <1>5, <1>6
  <2>2. ASSUME NEW w \in WakeRuns \cap Tame, NEW f \in FirstRuns,
               SessionOf[w] = SessionOf[f], ~Unused(reg', w)
        PROVE  ~Unused(reg', f) /\ ~Present(reg', f)
    <3>1. w \in Runs /\ f \in Runs
      BY RegistryAssumption
    <3>2. ~Unused(b, w)
      BY <1>4, <1>6, <2>2, <3>1 DEF Moved, Unused, Present
    <3>3. ~Unused(reg, f) /\ ~Present(reg, f)
      BY <1>2, <2>2, <3>1, <3>2 DEF WakeInv, IInv
    <3>4. ~Unused(b, f) /\ ~Present(b, f)
      BY <1>2, <3>1, <3>3
    <3> QED BY <1>4, <1>6, <3>1, <3>4 DEF Moved, Unused, Present
  <2> QED BY <2>1, <2>2 DEF WakeInv
<1>11. GoodRuns'
  <2> SUFFICES ASSUME NEW r \in Tame
               PROVE  /\ Good(reg', told', emitted', cut', r)
                      /\ Stored(disk'[r], reg', told', emitted', cut', r)
    BY DEF GoodRuns
  <2>1. r \in Runs /\ Moved(b, m, r) /\ (Present(b, r) => TakenUp(b, m, r))
    BY <1>3, <1>4 DEF Tame
  <2>2. emitted'[r] = IF HookInFlight(reg, r) THEN emitted[r] - 1 ELSE emitted[r]
    BY <1>1, <2>1
  <2>3. r \notin cut' =>
          /\ r \notin cut /\ ~HookInFlight(reg, r)
          /\ Present(m, r) => ~(disk[r].handled /\ ~disk[r].done) /\ disk[r].quiet # "steer"
    BY <1>1, <2>1
  <2> DEFINE em == emitted'
             ct == cut'
  <2> HIDE DEF em, ct
  <2>4. Good(m, told, em, ct, r)
    BY <1>4, <2>1, <2>2, <2>3, RestartGood DEF b, em, ct
  <2>5. Good(Tidy(m), told, em, ct, r)
    BY <1>4, <2>1, <2>4, TidyGood
  <2>6. Stored(Saved(m)[r], m, told, em, ct, r)
    BY <1>4, <2>1, <2>4, SavedStored
  <2>7. Stored(Saved(m)[r], Tidy(m), told, em, ct, r)
    BY <1>4, <2>1, <2>6, TidyStored
  <2> QED BY <1>1, <2>5, <2>7 DEF em, ct
<1> QED BY <1>7, <1>8, <1>9, <1>10, <1>11 DEF IInv

-----------------------------------------------------------------------------
(* The invariant holds *)

\* The invariant holds at first.
LEMMA InitInv ==
  ASSUME Init
  PROVE  IInv
<1>1. NoRecord \in Rec /\ NoRecord.fate = "none" /\ NoRecord.tries = 0 /\ NoRecord.hooked = FALSE
  BY DEF NoRecord, Rec, Fates
<1> DEFINE f == [r \in Runs |-> NoRecord]
<1>2. f \in [Runs -> Rec] /\ \A r \in Runs : f[r] = NoRecord
  BY <1>1
<1>3. /\ reg = [runs |-> f, marks |-> {}, timers |-> {}, calls |-> {}] /\ disk = f
      /\ emitted = [r \in Runs |-> 0] /\ told = [r \in Runs |-> 0]
  BY DEF Init
<1> HIDE DEF f
<1>4. reg \in Mem /\ reg.runs = f /\ reg.calls = {} /\ reg.marks = {}
  <2> DEFINE z == [runs |-> f, marks |-> {}, timers |-> {}, calls |-> {}]
  <2>1. z \in Mem /\ z.runs = f /\ z.calls = {} /\ z.marks = {}
    BY <1>2 DEF Mem
  <2> HIDE DEF z
  <2>2. reg = z
    BY <1>3 DEF z
  <2> QED BY <2>1, <2>2
<1>5. Types
  <2>1. Rest
    <3>1. told \in [Runs -> Nat]
      BY DEF Init
    <3>2. incidents \in 0..MaxIncidents
      BY RegistryAssumption DEF Init
    <3> QED BY <3>1, <3>2 DEF Init, Rest
  <2>2. emitted \in [Runs -> Nat] /\ cut \subseteq Runs
    BY DEF Init
  <2>3. disk \in [Runs -> Rec]
    BY <1>2, <1>3
  <2> QED BY <1>4, <2>1, <2>2, <2>3 DEF Types
<1>6. \A r \in Runs : Unused(reg, r) /\ ~Present(reg, r) /\ ~HookInFlight(reg, r) /\ ~Held(reg, r)
                      /\ ~Announcing(reg, r)
  BY <1>1, <1>2, <1>4 DEF Unused, Present, HookInFlight, Held, Announcing
<1>7. OnDisk /\ HooksCounted
  BY <1>1, <1>2, <1>3, <1>6 DEF OnDisk, HooksCounted
<1>8. WakeInv(reg)
  BY <1>4, <1>6, RegistryAssumption DEF WakeInv
<1>9. GoodRuns
  <2> SUFFICES ASSUME NEW r \in Tame
               PROVE  Good(reg, told, emitted, cut, r) /\ Stored(disk[r], reg, told, emitted, cut, r)
    BY DEF GoodRuns
  <2>1. r \in Runs /\ told[r] = 0 /\ emitted[r] = 0
    BY <1>3 DEF Tame
  <2>2. reg.runs[r] = NoRecord /\ disk[r] = NoRecord
    BY <1>2, <1>3, <1>4, <2>1
  <2>3. Guarded(reg, told, r)
    BY <1>1, <1>4, <1>6, <2>1, <2>2, ConstantTypes DEF Guarded
  <2>4. Hooked(reg, emitted, r)
    BY <1>1, <1>4, <1>6, <2>1, <2>2 DEF Hooked
  <2>5. Moving(reg, r) /\ Told(reg, emitted, r)
    BY <1>1, <1>6, <2>1, <2>2 DEF Moving, Told
  <2>6. Stored(disk[r], reg, told, emitted, cut, r)
    BY <1>1, <1>6, <2>1, <2>2, ConstantTypes DEF Stored
  <2> QED BY <2>3, <2>4, <2>5, <2>6 DEF Good
<1> QED BY <1>5, <1>7, <1>8, <1>9 DEF IInv

\* A step that changes nothing.
LEMMA StutterInv ==
  ASSUME IInv, UNCHANGED vars
  PROVE  IInv'
BY DEF vars, IInv, Types, Rest, OnDisk, HooksCounted, HookInFlight, Present, WakeInv, Unused, GoodRuns

\* Every step keeps the invariant.
LEMMA NextInv ==
  ASSUME IInv, Next
  PROVE  IInv'
<1>1. ASSUME NEW r \in Runs,
             \/ RegisterRun(r) \/ LifecycleEnd(r) \/ LifecycleError(r) \/ LifecycleStart(r)
             \/ GraceEnds(r) \/ MarkTerminated(r) \/ MarkForSteer(r) \/ Archive(r)
             \/ Cool(r) \/ Expire(r)
      PROVE  IInv'
  <2>1. CASE LifecycleEnd(r) \/ LifecycleError(r) \/ LifecycleStart(r) \/ GraceEnds(r)
    BY <2>1, ListenerSteps
  <2>2. CASE RegisterRun(r)
    BY <2>2, RegisterRunStep
  <2>3. CASE MarkTerminated(r)
    BY <2>3, MarkTerminatedStep
  <2>4. CASE MarkForSteer(r)
    BY <2>4, MarkForSteerStep
  <2>5. CASE Archive(r)
    BY <2>5, ArchiveStep
  <2>6. CASE Cool(r)
    BY <2>6, CoolStep
  <2>7. CASE Expire(r)
    BY <2>7, ExpireStep
  <2> QED BY <1>1, <2>1, <2>2, <2>3, <2>4, <2>5, <2>6, <2>7
<1>2. ASSUME NEW c \in reg.calls,
             \/ \E reason \in {"complete", "error"} : WaitAnswers(c, reason)
             \/ WaitFails(c) \/ Frozen(c) \/ HookDone(c)
             \/ AnnounceWaits(c) \/ AnnounceSkips(c) \/ AnnounceDelivers(c)
             \/ \E ok \in BOOLEAN : DeliveryAnswers(c, ok)
             \/ SteerFails(c)
      PROVE  IInv'
  <2>1. CASE \E reason \in {"complete", "error"} : WaitAnswers(c, reason)
    BY <2>1, WaitAnswersStep
  <2>2. CASE WaitFails(c)
    BY <2>2, WaitFailsStep
  <2>3. CASE Frozen(c)
    BY <2>3, FrozenStep
  <2>4. CASE HookDone(c)
    BY <2>4, HookDoneStep
  <2>5. CASE AnnounceWaits(c) \/ AnnounceSkips(c) \/ \E ok \in BOOLEAN : DeliveryAnswers(c, ok)
    BY <2>5, AnnounceSteps
  <2>6. CASE AnnounceDelivers(c)
    BY <2>6, AnnounceDeliversStep
  <2>7. CASE SteerFails(c)
    BY <2>7, SteerFailsStep
  <2> QED BY <1>2, <2>1, <2>2, <2>3, <2>4, <2>5, <2>6, <2>7
<1>3. ASSUME NEW c \in reg.calls, NEW n \in Runs,
             WakeAccepted(c, n) \/ WakeAnswers(c, n) \/ SteerSucceeds(c, n)
      PROVE  IInv'
  BY <1>3, WakeAcceptedStep, WakeAnswersStep, SteerSucceedsStep
<1>4. ASSUME NEW r \in Runs, NEW n \in Runs, Reactivate(r, n) \/ RecoverOrphan(r, n)
      PROVE  IInv'
  BY <1>4, ReactivateStep, RecoverOrphanStep
<1>5. ASSUME NEW r \in Runs, NEW kind \in Timers, TimerFires(r, kind)
      PROVE  IInv'
  BY <1>5, TimerFiresStep
<1>6. CASE Restart
  BY <1>6, RestartStep
<1> QED BY <1>1, <1>2, <1>3, <1>4, <1>5, <1>6 DEF Next

\* The invariant IInv, on memory, disk and what was told to whom, holds in every state
\* that the handlers of the registry reach.
THEOREM Invariance == SafetySpec => []IInv
<1>1. Init => IInv
  BY InitInv
<1>2. IInv /\ [Next]_vars => IInv'
  BY NextInv, StutterInv
<1> QED BY <1>1, <1>2, PTL DEF SafetySpec

-----------------------------------------------------------------------------
(* The properties: first what they say of one run *)

Announcements == {"announce", "woken", "deliver"}

\* No run is hooked or told of more than once, and no two announcements of one are
\* in flight together.
LEMMA OnceOfTame ==
  ASSUME IInv, NEW r \in Tame
  PROVE  /\ emitted[r] <= 1
         /\ told[r] <= 1 /\ Cardinality(InFlight(r, Announcements)) <= 1
<1>1. Guarded(reg, told, r) /\ Hooked(reg, emitted, r)
  BY DEF IInv, GoodRuns, Good
<1>2. emitted[r] <= 1 /\ told[r] <= 1
  BY <1>1 DEF Guarded, Hooked
<1> DEFINE S == InFlight(r, Announcements)
<1>3. ASSUME NEW c \in S, NEW d \in S
      PROVE  c = d
  <2>1. c \in reg.calls /\ d \in reg.calls /\ Announces(c, r) /\ Announces(d, r)
    BY DEF InFlight, Announces, Announcements
  <2> QED BY <1>1, <2>1 DEF Guarded
<1> HIDE DEF S
<1>4. Cardinality(S) <= 1
  <2>1. CASE S = {}
    BY <2>1, FS_EmptySet
  <2>2. CASE S # {}
    <3>1. PICK c : c \in S
      BY <2>2
    <3>2. S = {c}
      BY <1>3, <3>1
    <3>3. Cardinality({c}) = 1
      BY FS_Singleton
    <3> QED BY <3>2, <3>3
  <2> QED BY <2>1, <2>2
<1> QED BY <1>2, <1>4 DEF S

\* An ended completion-mode run is in the hands of a call, a timer or a steer.
LEMMA MotionOfTame ==
  ASSUME IInv, NEW r \in Tame \ cut, Present(reg, r), Ended(reg, r), Expects(r), ~reg.runs[r].done
  PROVE  \/ InFlight(r, Stages \ {"wait"}) # {}
         \/ <<r, "retry">> \in reg.timers \/ <<r, "backoff">> \in reg.timers
<1>1. Handling(reg, r) /\ Waiting(reg, r) /\ Steered(reg, r)
  BY DEF IInv, GoodRuns, Good, Moving
<1>2. ASSUME NEW c \in reg.calls, c.run = r, c.at # "wait"
      PROVE  InFlight(r, Stages \ {"wait"}) # {}
  <2>1. c.at \in Stages
    BY MemFacts DEF IInv, Types, Call
  <2>2. c \in InFlight(r, Stages \ {"wait"})
    BY <1>2, <2>1 DEF InFlight
  <2> QED BY <2>2
<1>3. CASE reg.runs[r].handled
  <2>1. PICK c \in reg.calls : c.run = r /\ c.at # "wait"
    BY <1>1, <1>3 DEF Handling, Announcing, Announces
  <2> QED BY <1>2, <2>1
<1>4. CASE ~reg.runs[r].handled
  <2>1. \/ \E c \in reg.calls : c.run = r /\ c.at # "wait"
        \/ <<r, "retry">> \in reg.timers \/ <<r, "backoff">> \in reg.timers
    BY <1>1, <1>4 DEF Waiting, Steered
  <2> QED BY <1>2, <2>1
<1> QED BY <1>3, <1>4

\* A completion-mode run is not settled before its hook.
LEMMA SettledOfTame ==
  ASSUME IInv, NEW r \in Tame \ cut, Expects(r),
         reg.runs[r].fate = "settled" \/ (Present(reg, r) /\ reg.runs[r].done)
  PROVE  emitted[r] = 1
BY DEF IInv, GoodRuns, Good, Told

-----------------------------------------------------------------------------
(* The theorems *)

\* For any constants: a run that is not a wake continuation, or is one in a session that
\* is not also steered, messaged or recovered, is hooked once, told of once, never left
\* lying when it has ended, and not settled before its hook.
RunIsSafe(r) ==
  /\ emitted[r] <= 1
  /\ told[r] <= 1 /\ Cardinality(InFlight(r, Announcements)) <= 1
  /\ r \notin cut /\ Present(reg, r) /\ Ended(reg, r) /\ Expects(r) /\ ~reg.runs[r].done =>
       \/ InFlight(r, Stages \ {"wait"}) # {}
       \/ <<r, "retry">> \in reg.timers \/ <<r, "backoff">> \in reg.timers
  /\ r \notin cut /\ Expects(r)
     /\ (reg.runs[r].fate = "settled" \/ (Present(reg, r) /\ reg.runs[r].done)) => emitted[r] = 1

\* What the invariant says of a tame run, in one.
LEMMA TameIsSafe ==
  ASSUME IInv, NEW r \in Tame
  PROVE  RunIsSafe(r)
BY OnceOfTame, MotionOfTame, SettledOfTame DEF RunIsSafe

\* The same for all the tame runs of any registry: an overtaken steer, a lost wait or a
\* restart elsewhere does not disturb a run.
THEOREM TameRunsAreSafe == SafetySpec => [](\A r \in Tame : RunIsSafe(r))
<1>1. IInv => \A r \in Tame : RunIsSafe(r)
  BY TameIsSafe
<1> QED BY <1>1, Invariance, PTL

\* Every variable keeps its type; announceRetryCount does not pass
\* MAX_ANNOUNCE_RETRY_COUNT, in whatever order retries, steers and restarts come.
THEOREM TypeCorrect ==
  ASSUME Tame = Runs
  PROVE  SafetySpec => []TypeOK
<1>1. ASSUME IInv
      PROVE  TypeOK
  <2>1. reg \in Mem /\ disk \in [Runs -> Rec] /\ emitted \in [Runs -> Nat] /\ cut \subseteq Runs /\ Rest
    BY <1>1 DEF IInv, Types
  <2>2. ASSUME NEW e \in Rec, e.tries <= MaxTries
        PROVE  e \in Record
    <3>1. e.tries \in 0..MaxTries
      BY <2>2, ConstantTypes DEF Rec
    <3> QED BY <3>1 DEF Rec, Record
  <2>3. \A r \in Runs : reg.runs[r].tries <= MaxTries /\ disk[r].tries <= MaxTries
    BY <1>1 DEF IInv, GoodRuns, Good, Guarded, Stored
  <2>4. reg.runs \in [Runs -> Record]
    <3>1. reg.runs \in [Runs -> Rec]
      BY <2>1, MemFacts
    <3>2. \A r \in Runs : reg.runs[r] \in Record
      BY <2>2, <2>3, <3>1
    <3> QED BY <3>1, <3>2
  <2>5. disk \in [Runs -> Record]
    <3>1. \A r \in Runs : disk[r] \in Record
      BY <2>1, <2>2, <2>3
    <3> QED BY <2>1, <3>1
  <2>6. reg \in Memory
    BY <2>1, <2>4 DEF Mem, Memory
  <2> QED BY <2>1, <2>5, <2>6 DEF TypeOK, Rest
<1> QED BY <1>1, Invariance, PTL

\* subagent_ended is emitted at most once for a run, by whichever of listener, wait,
\* grace timer, kill, clean-up and restart its end is heard from.
THEOREM EndedHookOnce ==
  ASSUME Tame = Runs
  PROVE  SafetySpec => []HookOnce
<1>1. IInv => HookOnce
  BY OnceOfTame DEF HookOnce
<1> QED BY <1>1, Invariance, PTL

\* The requester hears of a run at most once, and cleanupHandled lets one announcement
\* at a time through.
THEOREM RequesterToldOnce ==
  ASSUME Tame = Runs
  PROVE  SafetySpec => []ToldOnce
<1>1. IInv => ToldOnce
  BY OnceOfTame DEF ToldOnce, Announcements
<1> QED BY <1>1, Invariance, PTL

\* An ended completion-mode run whose clean-up is not complete is in the hands of a
\* call, a timer or a steer, unless a crash has cut it off.
THEOREM EndedRunsMove ==
  ASSUME Tame = Runs
  PROVE  SafetySpec => []InMotion
<1>1. IInv => InMotion
  BY MotionOfTame DEF InMotion
<1> QED BY <1>1, Invariance, PTL

\* A completion-mode run is not settled before its deferred hook has begun, also when it
\* is given up, unless a crash has cut it off.
THEOREM SettledHaveHooked ==
  ASSUME Tame = Runs
  PROVE  SafetySpec => []SettledAfterHook
<1>1. IInv => SettledAfterHook
  BY SettledOfTame DEF SettledAfterHook
<1> QED BY <1>1, Invariance, PTL
=============================================================================
