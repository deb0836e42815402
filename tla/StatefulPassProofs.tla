------------------------- MODULE StatefulPassProofs -------------------------
(***************************************************************************)
(* What concurrent passes over one directory never lose, for any number of *)
(* processes, units and failures.                                          *)
(***************************************************************************)
EXTENDS StatefulPass, TLAPS

Pass == [phase : {"Idle", "Failed", "Down", "Loading", "Taking", "Opening", "Writing"},
         time : Nat, todo : SUBSET Unit, loaded : SUBSET Hash, store : SUBSET Hash,
         queue : Seq(Hash)]

\* A pass between the existence check and the end of the write has a unit in
\* hand.
Shape ==
    /\ clock \in Nat
    /\ file \in [Unit -> {"Absent", "Partial", "Whole"}]
    /\ cut \subseteq Unit
    /\ proc \in [Proc -> Pass]
    /\ reported \in [Proc -> [loaded : SUBSET Hash, store : SUBSET Hash, time : Nat]]
    /\ present \in [Proc -> SUBSET Unit]
    /\ \A p \in Proc : proc[p].phase \in {"Opening", "Writing"} =>
          proc[p].queue # <<>> /\ Head(proc[p].queue) \in Unit

\* Somebody is writing the unit at this moment.
BeingWritten(u) == \E q \in Proc : proc[q].phase = "Writing" /\ Head(proc[q].queue) = u

Secured(u) == file[u] = "Whole" \/ u \in cut \/ BeingWritten(u)

\* No file is partial without a reason, and what a process has taken in, or
\* judged, is secured: by itself, or by whoever it saw writing the same unit.
Securing ==
    /\ \A u \in Unit : file[u] = "Partial" => Secured(u)
    /\ \A p \in Proc : \A u \in Unit :
          u \in proc[p].store \/ u \in reported[p].store => Secured(u)

\* A pass under way has read, or has yet to read, what was whole at its start.
Reading ==
    \A p \in Proc :
        /\ proc[p].phase = "Loading" => present[p] \subseteq proc[p].store \cup proc[p].todo
        /\ proc[p].phase \in {"Taking", "Opening", "Writing"} => present[p] \subseteq proc[p].store

IInv == Shape /\ Securing /\ Reading

LEMMA InitInv == Init => IInv
BY PassAssumption DEF Init, IInv, Shape, Securing, Reading, NoPass, Pass, Secured

-----------------------------------------------------------------------------
\* One process moves, the others stay.
LEMMA BecomesOK ==
    ASSUME proc \in [Proc -> Pass], NEW p \in Proc, NEW pass \in Pass, Becomes(p, pass)
    PROVE  /\ proc' \in [Proc -> Pass] /\ proc'[p] = pass
           /\ \A q \in Proc \ {p} : proc'[q] = proc[q]
BY DEF Becomes

LEMMA RestOK ==
    ASSUME proc \in [Proc -> Pass], NEW p \in Proc, NEW phase \in {"Idle", "Failed", "Down"},
           Rest(p, phase)
    PROVE  /\ proc' \in [Proc -> Pass]
           /\ proc'[p].phase = phase /\ proc'[p].store = {}
           /\ \A q \in Proc \ {p} : proc'[q] = proc[q]
<1>1. <<>> \in Seq(Hash)
  OBVIOUS
<1>2. NoPass(phase) \in Pass /\ NoPass(phase).phase = phase /\ NoPass(phase).store = {}
  BY <1>1 DEF NoPass, Pass
<1> QED  BY <1>1, <1>2, BecomesOK DEF Rest

LEMMA TakenOK ==
    ASSUME proc \in [Proc -> Pass], NEW p \in Proc, proc[p].queue # <<>>, Taken(p)
    PROVE  /\ proc' \in [Proc -> Pass]
           /\ proc'[p].phase = "Taking"
           /\ proc'[p].store = proc[p].store \cup {Head(proc[p].queue)}
           /\ \A q \in Proc \ {p} : proc'[q] = proc[q]
<1> DEFINE pass == [proc[p] EXCEPT !.phase = "Taking", !.store = @ \cup {Head(proc[p].queue)},
                                   !.queue = Tail(@)]
<1>1. Head(proc[p].queue) \in Hash /\ Tail(proc[p].queue) \in Seq(Hash)
  BY DEF Pass
<1>2. /\ pass \in Pass /\ pass.phase = "Taking"
      /\ pass.store = proc[p].store \cup {Head(proc[p].queue)}
  BY <1>1 DEF Pass
<1> HIDE DEF pass
<1> QED  BY <1>2, BecomesOK DEF Taken, pass

\* Securing and Reading, for a step that writes no file and cuts none short, where
\* p ends up with no more in store than secured units and no longer writes.
LEMMA Unwritten ==
    ASSUME IInv, NEW p \in Proc, proc' \in [Proc -> Pass],
           \A q \in Proc \ {p} : proc'[q] = proc[q],
           proc[p].phase # "Writing", proc'[p].phase # "Writing",
           \A u \in Unit : u \in proc'[p].store => Secured(u),
           UNCHANGED <<file, cut>>,
           \A q \in Proc : \A u \in Unit :
              u \in reported'[q].store => u \in reported[q].store \/ u \in proc[q].store
    PROVE  Securing'
<1>1. \A u : BeingWritten(u) => BeingWritten(u)'
  BY DEF BeingWritten
<1>2. \A u : Secured(u) => Secured(u)'
  BY <1>1 DEF Secured
<1> QED  BY <1>2 DEF IInv, Securing

LEMMA BeginInv ==
    ASSUME IInv, NEW p \in Proc, NEW list \in Offered[p],
           Start(p, list) \/ Relaunch(p, list)
    PROVE  IInv'
<1> USE DEF IInv, Shape
<1>0. Begin(p, list) /\ proc[p].phase # "Writing"
  BY DEF Start, Relaunch, Resting, Down
<1> DEFINE pass == [phase |-> "Loading", time |-> clock,
                    todo |-> {u \in Unit : file[u] # "Absent"},
                    loaded |-> {}, store |-> {}, queue |-> list]
<1>1. list \in Seq(Hash)
  BY PassAssumption
<1>2. /\ pass \in Pass /\ pass.phase = "Loading" /\ pass.store = {}
      /\ pass.todo = {u \in Unit : file[u] # "Absent"}
  BY <1>1 DEF Pass
<1> HIDE DEF pass
<1>3. Becomes(p, pass)
  BY <1>0 DEF Begin, pass
<1>4. /\ proc' \in [Proc -> Pass] /\ proc'[p] = pass
      /\ \A q \in Proc \ {p} : proc'[q] = proc[q]
  BY <1>2, <1>3, BecomesOK
<1>5. present' \in [Proc -> SUBSET Unit] /\ present'[p] \subseteq pass.todo
      /\ \A q \in Proc \ {p} : present'[q] = present[q]
  BY <1>0, <1>2 DEF Begin
<1>6. Shape'
  BY <1>0, <1>2, <1>4, <1>5 DEF Begin
<1>7. Securing'
  BY <1>0, <1>2, <1>4, Unwritten DEF Begin
<1>8. Reading'
  BY <1>2, <1>4, <1>5 DEF Reading
<1> QED  BY <1>6, <1>7, <1>8

\* A pass that ends without a write in hand.
LEMMA RestInv ==
    ASSUME IInv, NEW p \in Proc, NEW phase \in {"Idle", "Failed", "Down"}, Rest(p, phase),
           proc[p].phase # "Writing", UNCHANGED <<clock, file, reported, present, cut>>
    PROVE  IInv'
<1> USE DEF IInv, Shape
<1>1. /\ proc' \in [Proc -> Pass]
      /\ proc'[p].phase = phase /\ proc'[p].store = {}
      /\ \A q \in Proc \ {p} : proc'[q] = proc[q]
  BY RestOK
<1>2. Shape'
  BY <1>1
<1>3. Securing'
  BY <1>1, Unwritten
<1>4. Reading'
  BY <1>1 DEF Reading
<1> QED  BY <1>2, <1>3, <1>4

LEMMA LoadInv ==
    ASSUME IInv, NEW p \in Proc, NEW u \in Unit, LoadUnit(p, u)
    PROVE  IInv'
<1> USE DEF IInv, Shape
<1>1. CASE file[u] = "Whole"
  <2> DEFINE pass == [proc[p] EXCEPT !.todo = @ \ {u}, !.store = @ \cup {u}]
  <2>1. u \in Hash
    BY DEF Unit
  <2>2. /\ pass \in Pass /\ pass.phase = "Loading"
        /\ pass.store = proc[p].store \cup {u} /\ pass.todo = proc[p].todo \ {u}
    BY <2>1 DEF Pass, LoadUnit, Unread
  <2> HIDE DEF pass
  <2>3. Becomes(p, pass)
    BY <1>1 DEF LoadUnit, pass
  <2>4. /\ proc' \in [Proc -> Pass] /\ proc'[p] = pass
        /\ \A q \in Proc \ {p} : proc'[q] = proc[q]
    BY <2>2, <2>3, BecomesOK
  <2>5. Shape'
    BY <2>2, <2>4 DEF LoadUnit
  <2>6. \A v \in Unit : v \in proc'[p].store => Secured(v)
    BY <1>1, <2>2, <2>4 DEF Securing, Secured
  <2>7. Securing'
    BY <2>2, <2>4, <2>6, Unwritten DEF LoadUnit, Unread
  <2>8. Reading'
    BY <2>2, <2>4 DEF LoadUnit, Unread, Reading
  <2> QED  BY <2>5, <2>7, <2>8
<1>2. CASE file[u] # "Whole"
  BY <1>2, RestInv DEF LoadUnit, Unread
<1> QED  BY <1>1, <1>2

LEMMA PhaseOK ==
    ASSUME NEW x \in Pass, NEW phase \in {"Opening", "Writing"}
    PROVE  LET pass == [x EXCEPT !.phase = phase]
           IN  /\ pass \in Pass /\ pass.phase = phase
               /\ pass.store = x.store /\ pass.queue = x.queue
BY DEF Pass

LEMMA GatheredOK ==
    ASSUME NEW x \in Pass, NEW queue \in Seq(Hash)
    PROVE  LET pass == [x EXCEPT !.phase = "Taking", !.loaded = x.store, !.queue = queue]
           IN  pass \in Pass /\ pass.phase = "Taking" /\ pass.store = x.store
BY DEF Pass

LEMMA GatherInv ==
    ASSUME IInv, NEW p \in Proc, Gather(p)
    PROVE  IInv'
<1> USE DEF IInv, Shape
<1>1. CASE Fail(p)
  BY <1>1, RestInv DEF Gather, Fail
<1>2. ASSUME NEW answer \in {<<>>} \cup {<<f>> : f \in Served},
             Becomes(p, [proc[p] EXCEPT !.phase = "Taking", !.loaded = proc[p].store,
                                        !.queue = @ \o answer])
      PROVE  IInv'
  <2> DEFINE pass == [proc[p] EXCEPT !.phase = "Taking", !.loaded = proc[p].store,
                                     !.queue = @ \o answer]
  <2>1. answer \in Seq(Hash)
    <3>1. \A f \in Served : f \in Hash
      BY PassAssumption DEF OfKind, Hash
    <3>2. ASSUME NEW f \in Hash  PROVE <<f>> \in Seq(Hash)
      OBVIOUS
    <3>3. <<>> \in Seq(Hash)
      OBVIOUS
    <3>4. CASE answer = <<>>
      BY <3>3, <3>4
    <3>5. CASE answer \in {<<f>> : f \in Served}
      BY <3>1, <3>2, <3>5
    <3> QED  BY <1>2, <3>4, <3>5
  <2>2. proc[p].queue \o answer \in Seq(Hash)
    BY <2>1 DEF Pass
  <2>3. /\ pass \in Pass /\ pass.phase = "Taking"
        /\ pass.store = proc[p].store
    BY <2>2, GatheredOK
  <2> HIDE DEF pass
  <2>4. Becomes(p, pass)
    BY <1>2 DEF pass
  <2>5. /\ proc' \in [Proc -> Pass] /\ proc'[p] = pass
        /\ \A q \in Proc \ {p} : proc'[q] = proc[q]
    BY <2>3, <2>4, BecomesOK
  <2>6. Shape'
    BY <2>3, <2>5 DEF Gather
  <2>7. \A u \in Unit : u \in proc'[p].store => Secured(u)
    BY <2>3, <2>5 DEF Securing
  <2>8. Securing'
    BY <2>3, <2>5, <2>7, Unwritten DEF Gather
  <2>9. Reading'
    BY <2>3, <2>5 DEF Gather, Reading
  <2> QED  BY <2>6, <2>8, <2>9
<1> QED  BY <1>1, <1>2 DEF Gather

LEMMA CheckInv ==
    ASSUME IInv, NEW p \in Proc, Check(p)
    PROVE  IInv'
<1> USE DEF IInv, Shape
<1> DEFINE u == Head(proc[p].queue)
<1>1. u \in Hash /\ proc[p].queue # <<>>
  BY DEF Check, Pass
<1>2. CASE HasFile(u) /\ file[u] = "Absent"
  <2> DEFINE pass == [proc[p] EXCEPT !.phase = "Opening"]
  <2>1. u \in Unit
    BY <1>1, <1>2 DEF HasFile, Unit
  <2>2. /\ pass \in Pass /\ pass.phase = "Opening"
        /\ pass.store = proc[p].store /\ pass.queue = proc[p].queue
    BY PhaseOK
  <2>3. Becomes(p, pass)
    BY <1>2 DEF Check
  <2> HIDE DEF pass
  <2>4. /\ proc' \in [Proc -> Pass] /\ proc'[p] = pass
        /\ \A q \in Proc \ {p} : proc'[q] = proc[q]
    BY <2>2, <2>3, BecomesOK
  <2>5. Shape'
    BY <1>1, <2>1, <2>2, <2>4 DEF Check
  <2>6. \A v \in Unit : v \in proc'[p].store => Secured(v)
    BY <2>2, <2>4 DEF Securing
  <2>7. Securing'
    BY <2>2, <2>4, <2>6, Unwritten DEF Check
  <2>8. Reading'
    BY <2>2, <2>4 DEF Check, Reading
  <2> QED  BY <2>5, <2>7, <2>8
<1>3. CASE ~(HasFile(u) /\ file[u] = "Absent")
  <2>1. Taken(p)
    BY <1>3 DEF Check
  <2>2. /\ proc' \in [Proc -> Pass] /\ proc'[p].phase = "Taking"
        /\ proc'[p].store = proc[p].store \cup {u}
        /\ \A q \in Proc \ {p} : proc'[q] = proc[q]
    BY <1>1, <2>1, TakenOK
  <2>3. Shape'
    BY <2>2 DEF Check
  <2>4. u \in Unit => Secured(u)
    <3>1. u \in Unit => HasFile(u)
      BY <1>1, ContentAssumption DEF HasFile, Unit
    <3>2. u \in Unit => file[u] \in {"Partial", "Whole"}
      BY <1>3, <3>1
    <3> QED  BY <3>2 DEF Securing, Secured
  <2>5. \A v \in Unit : v \in proc'[p].store => Secured(v)
    BY <2>2, <2>4 DEF Securing
  <2>6. Securing'
    BY <2>2, <2>5, Unwritten DEF Check
  <2>7. Reading'
    BY <2>2 DEF Check, Reading
  <2> QED  BY <2>3, <2>6, <2>7
<1> QED  BY <1>2, <1>3

LEMMA FinishInv ==
    ASSUME IInv, NEW p \in Proc, Finish(p)
    PROVE  IInv'
<1> USE DEF IInv, Shape
<1>1. /\ proc' \in [Proc -> Pass]
      /\ proc'[p].phase = "Idle" /\ proc'[p].store = {}
      /\ \A q \in Proc \ {p} : proc'[q] = proc[q]
  BY RestOK DEF Finish
<1>2. /\ reported' \in [Proc -> [loaded : SUBSET Hash, store : SUBSET Hash, time : Nat]]
      /\ reported'[p].store = proc[p].store
      /\ \A q \in Proc \ {p} : reported'[q] = reported[q]
  BY DEF Finish, Pass
<1>3. Shape'
  BY <1>1, <1>2 DEF Finish
<1>4. \A q \in Proc : \A u \in Unit :
         u \in reported'[q].store => u \in reported[q].store \/ u \in proc[q].store
  BY <1>2
<1>5. Securing'
  BY <1>1, <1>4, Unwritten DEF Finish
<1>6. Reading'
  BY <1>1 DEF Finish, Reading
<1> QED  BY <1>3, <1>5, <1>6

\* The steps that touch u's file: u is secured after them, and every other unit
\* is as secured as before.
LEMMA Written ==
    ASSUME IInv, NEW p \in Proc, proc' \in [Proc -> Pass],
           \A q \in Proc \ {p} : proc'[q] = proc[q],
           NEW u, proc[p].phase = "Writing" => u = Head(proc[p].queue),
           Secured(u)', cut \subseteq cut', \A v \in Unit \ {u} : file'[v] = file[v],
           \A v \in Unit : v \in proc'[p].store => v \in proc[p].store \/ v = u,
           UNCHANGED reported
    PROVE  Securing'
<1>1. ASSUME NEW v, v # u, BeingWritten(v)  PROVE BeingWritten(v)'
  BY <1>1 DEF BeingWritten
<1>2. \A v \in Unit : Secured(v) => Secured(v)'
  BY <1>1 DEF Secured
<1>3. \A v \in Unit : file'[v] = "Partial" => Secured(v)'
  BY <1>2 DEF IInv, Securing
<1>4. ASSUME NEW q \in Proc, NEW v \in Unit, v \in proc'[q].store \/ v \in reported'[q].store
      PROVE  Secured(v)'
  BY <1>2, <1>4 DEF IInv, Securing
<1> QED  BY <1>3, <1>4 DEF Securing

LEMMA TruncateInv ==
    ASSUME IInv, NEW p \in Proc, Truncate(p)
    PROVE  IInv'
<1> USE DEF IInv, Shape
<1> PICK u : u = Head(proc[p].queue)
  OBVIOUS
<1>1. proc[p].phase = "Opening" /\ proc[p].queue # <<>> /\ u \in Unit
  BY DEF Truncate
<1>2. CASE Fail(p) /\ UNCHANGED file
  BY <1>1, <1>2, RestInv DEF Truncate, Fail
<1>3. CASE /\ file' = [file EXCEPT ![u] = "Partial"]
           /\ Becomes(p, [proc[p] EXCEPT !.phase = "Writing"])
  <2> DEFINE pass == [proc[p] EXCEPT !.phase = "Writing"]
  <2>1. /\ pass \in Pass /\ pass.phase = "Writing"
        /\ pass.store = proc[p].store /\ pass.queue = proc[p].queue
    BY PhaseOK
  <2>2. Becomes(p, pass)
    BY <1>3
  <2> HIDE DEF pass
  <2>3. /\ proc' \in [Proc -> Pass] /\ proc'[p] = pass
        /\ \A q \in Proc \ {p} : proc'[q] = proc[q]
    BY <2>1, <2>2, BecomesOK
  <2>4. Shape'
    BY <1>1, <1>3, <2>1, <2>3 DEF Truncate
  <2>5. Secured(u)'
    BY <2>1, <2>3 DEF Secured, BeingWritten
  <2>6. Securing'
    BY <1>1, <1>3, <2>1, <2>3, <2>5, Written DEF Truncate
  <2>7. Reading'
    BY <1>1, <2>1, <2>3 DEF Truncate, Reading
  <2> QED  BY <2>4, <2>6, <2>7
<1> QED  BY <1>2, <1>3 DEF Truncate

LEMMA WriteInv ==
    ASSUME IInv, NEW p \in Proc, Write(p)
    PROVE  IInv'
<1> USE DEF IInv, Shape
<1> PICK u : u = Head(proc[p].queue)
  OBVIOUS
<1>1. proc[p].phase = "Writing" /\ proc[p].queue # <<>> /\ u \in Unit
  BY DEF Write
<1>2. CASE file' = [file EXCEPT ![u] = "Whole"] /\ Taken(p) /\ UNCHANGED <<cut, failures>>
  <2>1. /\ proc' \in [Proc -> Pass] /\ proc'[p].phase = "Taking"
        /\ proc'[p].store = proc[p].store \cup {u}
        /\ \A q \in Proc \ {p} : proc'[q] = proc[q]
    BY <1>1, <1>2, TakenOK
  <2>2. Shape'
    <3>1. file' \in [Unit -> {"Absent", "Partial", "Whole"}]
      BY <1>2
    <3>2. \A q \in Proc : proc'[q].phase \in {"Opening", "Writing"} =>
            proc'[q].queue # <<>> /\ Head(proc'[q].queue) \in Unit
      BY <2>1
    <3>3. UNCHANGED <<clock, cut, reported, present>>
      BY <1>2 DEF Write
    <3> QED  BY <2>1, <3>1, <3>2, <3>3
  <2>3. Secured(u)'
    BY <1>1, <1>2 DEF Secured
  <2>4. Securing'
    BY <1>1, <1>2, <2>1, <2>3, Written DEF Write
  <2>5. Reading'
    BY <1>1, <2>1 DEF Write, Reading
  <2> QED  BY <2>2, <2>4, <2>5
<1>3. CASE Fail(p) /\ cut' = cut \cup {u} /\ UNCHANGED file
  <2>1. /\ proc' \in [Proc -> Pass]
        /\ proc'[p].phase = "Failed" /\ proc'[p].store = {}
        /\ \A q \in Proc \ {p} : proc'[q] = proc[q]
    BY <1>3, RestOK DEF Fail
  <2>2. Shape'
    BY <1>1, <1>3, <2>1 DEF Write
  <2>3. Secured(u)'
    BY <1>3 DEF Secured
  <2>4. Securing'
    BY <1>1, <1>3, <2>1, <2>3, Written DEF Write
  <2>5. Reading'
    BY <2>1 DEF Write, Reading
  <2> QED  BY <2>2, <2>4, <2>5
<1> QED  BY <1>2, <1>3 DEF Write

LEMMA CrashInv ==
    ASSUME IInv, NEW p \in Proc, Crash(p)
    PROVE  IInv'
<1> USE DEF IInv, Shape
<1> PICK u : u = Head(proc[p].queue)
  OBVIOUS
<1>1. CASE proc[p].phase # "Writing"
  <2>1. UNCHANGED cut
    BY <1>1 DEF Crash
  <2> QED  BY <1>1, <2>1, RestInv DEF Crash
<1>2. CASE proc[p].phase = "Writing"
  <2>1. /\ proc' \in [Proc -> Pass]
        /\ proc'[p].phase = "Down" /\ proc'[p].store = {}
        /\ \A q \in Proc \ {p} : proc'[q] = proc[q]
    BY RestOK DEF Crash
  <2>2. cut' = cut \cup {u} /\ u \in Unit
    BY <1>2 DEF Crash
  <2>3. Shape'
    BY <2>1, <2>2 DEF Crash
  <2>4. Secured(u)'
    BY <2>2 DEF Secured
  <2>5. Securing'
    BY <1>2, <2>1, <2>2, <2>4, Written DEF Crash
  <2>6. Reading'
    BY <2>1 DEF Crash, Reading
  <2> QED  BY <2>3, <2>5, <2>6
<1> QED  BY <1>1, <1>2

LEMMA NextInv == IInv /\ [Next]_vars => IInv'
<1> SUFFICES ASSUME IInv, [Next]_vars  PROVE IInv'
  OBVIOUS
<1>1. CASE Tick
  <2>1. Shape'
    BY <1>1 DEF IInv, Shape, Tick
  <2>2. Securing' /\ Reading'
    BY <1>1 DEF IInv, Securing, Secured, BeingWritten, Reading, Tick
  <2> QED  BY <2>1, <2>2 DEF IInv
<1>2. CASE UNCHANGED vars
  BY <1>2 DEF IInv, Shape, Securing, Secured, BeingWritten, Reading, vars
<1> QED  BY <1>1, <1>2, BeginInv, LoadInv, GatherInv, CheckInv, TruncateInv, WriteInv,
            FinishInv, CrashInv DEF Next, Work

LEMMA Invariance == Spec => []IInv
BY InitInv, NextInv, PTL DEF Spec

-----------------------------------------------------------------------------
\* What any completed pass judged is whole on disk, except where a crash or an
\* error cut a write of it short, or somebody is truncating and writing it anew
\* at that moment (store_dir.rs, persist: the check for the file's existence
\* and its write are two steps).
THEOREM JudgedIsSecured == Spec => []NothingForgotten
<1>1. IInv => NothingForgotten
  BY DEF IInv, Securing, Secured, BeingWritten, NothingForgotten
<1> QED  BY <1>1, Invariance, PTL

\* A completed pass has judged every unit whose file was whole when it began,
\* whatever truncated, rewrote or crashed in the meantime: load fails rather
\* than skip a file (store_dir.rs, load).
THEOREM EvidenceNeverSkipped == Spec => NeverSkipsEvidence
<1>1. ASSUME IInv, Next, NEW p \in Proc, Finished(p)
      PROVE  present[p] \subseteq reported'[p].store
  <2>1. proc[p].phase = "Taking" /\ proc'[p].phase = "Idle" /\ proc \in [Proc -> Pass]
    BY <1>1 DEF Finished, IInv, Shape
  <2>2. ~Tick
    BY <2>1 DEF Tick
  <2>3. ASSUME NEW q \in Proc, NEW list \in Offered[q], Begin(q, list)  PROVE FALSE
    BY <2>1, <2>3 DEF Begin, Becomes
  <2>4. ASSUME NEW q \in Proc, Crash(q)  PROVE FALSE
    BY <2>1, <2>4, RestOK DEF Crash
  <2>5. ASSUME NEW q \in Proc, Fail(q)  PROVE FALSE
    BY <2>1, <2>5, RestOK DEF Fail
  <2>6. ASSUME NEW q \in Proc, NEW u \in Unit, LoadUnit(q, u)  PROVE FALSE
    BY <2>1, <2>6, RestOK DEF LoadUnit, Unread, Becomes
  <2>7. ASSUME NEW q \in Proc, Taken(q)  PROVE FALSE
    BY <2>1, <2>7 DEF Taken, Becomes, Pass
  <2>8. ASSUME NEW q \in Proc, Gather(q)  PROVE FALSE
    BY <2>1, <2>5, <2>8 DEF Gather, Becomes
  <2>9. ASSUME NEW q \in Proc, Check(q)  PROVE FALSE
    BY <2>1, <2>7, <2>9 DEF Check, Becomes, Pass
  <2>10. ASSUME NEW q \in Proc, Truncate(q)  PROVE FALSE
    BY <2>1, <2>5, <2>10 DEF Truncate, Becomes, Pass
  <2>11. ASSUME NEW q \in Proc, Write(q)  PROVE FALSE
    BY <2>5, <2>7, <2>11 DEF Write
  <2>12. ASSUME NEW q \in Proc, Finish(q)  PROVE q = p
    BY <2>1, <2>12, RestOK DEF Finish
  <2>13. Finish(p)
    BY <1>1, <2>2, <2>3, <2>4, <2>6, <2>8, <2>9, <2>10, <2>11, <2>12
    DEF Next, Work, Start, Relaunch
  <2>14. reported'[p].store = proc[p].store
    BY <1>1, <2>13 DEF Finish, IInv, Shape
  <2> QED  BY <1>1, <2>1, <2>14 DEF IInv, Reading
<1>2. IInv /\ [Next]_vars =>
         [\A p \in Proc : Finished(p) => present[p] \subseteq reported'[p].store]_vars
  BY <1>1
<1> QED  BY <1>2, Invariance, PTL DEF Spec, NeverSkipsEvidence
=============================================================================
