---------------------------- MODULE StatefulPass ----------------------------
(***************************************************************************)
(* The onomancer command line: stateful passes over one store directory,   *)
(* run in a loop by watch and on demand by resolve, concurrently. A pass   *)
(* reads the clock, loads every unit file, takes in offered units and the  *)
(* live zone, persists and inserts them one by one, and prints what        *)
(* changed between the loaded store and the final one. There are no        *)
(* decisions and no pins here.                                             *)
(*                                                                         *)
(* A unit file is written by truncating it and then writing it whole, in   *)
(* one call; crashes and write errors may leave it partial. MaxFailures    *)
(* bounds crashes and errors, MaxTime the clock.                           *)
(***************************************************************************)
EXTENDS Derivation, Surfacing

CONSTANTS
    Host,
    Proc,        \* the processes at work on the directory
    Looping,     \* those that run passes for ever, as watch does
    Offered,     \* [process -> the unit lists its command line may offer]
    Served,      \* the refreshes that the live zone may serve
    StartTime, MaxTime,
    MaxFailures

ASSUME PassAssumption ==
    /\ Looping \subseteq Proc
    /\ \A p \in Proc : Offered[p] \subseteq Seq(Hash)
    /\ Served \subseteq OfKind("ChainRefresh")
    /\ StartTime \in Nat /\ MaxTime \in Nat /\ MaxFailures \in Nat

VARIABLES
    clock,
    file,       \* [unit -> "Absent" | "Partial" | "Whole"], the directory
    proc,       \* [process -> its pass]
    reported,   \* [process -> what its last completed pass judged]
    present,    \* history: the units that were whole when a pass began
    cut,        \* history: the units whose writing was cut short
    failures

vars == <<clock, file, proc, reported, present, cut, failures>>

\* Mutant: successor statements have no file extension.
HasFileUnlessSuccessor(i) == Content[i].kind \in {"Record", "Rotation"}

\* persist's match: a refresh has no unit encoding.
HasFile(i) == Content[i].kind \in {"Record", "Rotation", "Successor"}

Unit == {i \in Hash : Content[i].kind # "ChainRefresh"}

NoPass(phase) ==
    [phase |-> phase, time |-> 0, todo |-> {}, loaded |-> {}, store |-> {}, queue |-> <<>>]

Init ==
    /\ clock = StartTime /\ failures = 0 /\ cut = {}
    /\ file = [u \in Unit |-> "Absent"]
    /\ proc = [p \in Proc |-> NoPass("Idle")]
    /\ reported = [p \in Proc |-> [loaded |-> {}, store |-> {}, time |-> StartTime]]
    /\ present = [p \in Proc |-> {}]

Tick == clock < MaxTime /\ clock' = clock + 1
        /\ UNCHANGED <<file, proc, reported, present, cut, failures>>

\* Mutant: an error ends the watch.
RestingUnlessFailed(p) ==
    \/ proc[p].phase = "Idle"
    \/ proc[p].phase = "Failed" /\ p \notin Looping

\* Between two passes, whatever became of the last one: a loop sleeps.
Resting(p) == proc[p].phase \in {"Idle", "Failed"}

\* Killed, and not started again since.
Down(p) == proc[p].phase = "Down"

UnderWay(p) == ~Resting(p) /\ ~Down(p)

Becomes(p, pass) == proc' = [proc EXCEPT ![p] = pass]

\* The pass is over, well or not; a process keeps nothing between passes.
Rest(p, phase) == Becomes(p, NoPass(phase))

Fail(p) == failures < MaxFailures /\ failures' = failures + 1 /\ Rest(p, "Failed")

-----------------------------------------------------------------------------
\* stateful_pass, from the clock reading and the directory listing on. list
\* is the pass's offered units, from the command line. (The code takes the zone's
\* answer in before an offered certificate, here it comes last: it has no file, and
\* a store is a set, so its place shows nowhere.)
Begin(p, list) ==
    /\ Becomes(p, [phase |-> "Loading", time |-> clock,
                   todo |-> {u \in Unit : file[u] # "Absent"},
                   loaded |-> {}, store |-> {}, queue |-> list])
    /\ present' = [present EXCEPT ![p] = {u \in Unit : file[u] = "Whole"}]
    /\ UNCHANGED <<clock, file, reported, cut, failures>>

\* The next round of a loop, or a user's next command.
Start(p, list) == Resting(p) /\ Begin(p, list)

\* Somebody runs a killed program again.
Relaunch(p, list) == Down(p) /\ Begin(p, list)

\* A listed file is yet to be read; one that appears during the listing may be
\* listed too.
Unread(p, u) == proc[p].phase = "Loading" /\ file[u] # "Absent" /\ u \notin proc[p].store

\* Mutant: a file that does not decode is skipped.
LoadUnitLeniently(p, u) ==
    /\ Unread(p, u)
    /\ Becomes(p, [proc[p] EXCEPT !.todo = @ \ {u},
                                 !.store = @ \cup {x \in {u} : file[u] = "Whole"}])
    /\ UNCHANGED <<clock, file, reported, present, cut, failures>>

\* Mutant: only certificate files are loaded.
LoadUnitCertificates(p, u) ==
    /\ Unread(p, u)
    /\ Becomes(p, [proc[p] EXCEPT !.todo = @ \ {u},
                                 !.store = @ \cup {x \in {u} : Content[u].kind = "Record"}])
    /\ UNCHANGED <<clock, file, reported, present, cut, failures>>

\* load: a file with a unit's extension that does not decode is an error.
LoadUnit(p, u) ==
    /\ Unread(p, u)
    /\ \/ /\ file[u] = "Whole"
          /\ Becomes(p, [proc[p] EXCEPT !.todo = @ \ {u}, !.store = @ \cup {u}])
       \/ file[u] = "Partial" /\ Rest(p, "Failed")
    /\ UNCHANGED <<clock, file, reported, present, cut, failures>>

\* The store is judged as loaded; then the offered units decode, or none of
\* the pass happens, and the zone answers, or does not.
Gather(p) ==
    /\ proc[p].phase = "Loading" /\ proc[p].todo = {}
    /\ \/ \E answer \in {<<>>} \cup {<<f>> : f \in Served} :
             /\ Becomes(p, [proc[p] EXCEPT !.phase = "Taking", !.loaded = proc[p].store,
                                          !.queue = @ \o answer])
             /\ UNCHANGED failures
       \/ Fail(p)
    /\ UNCHANGED <<clock, file, reported, present, cut>>

Taken(p) ==
    Becomes(p, [proc[p] EXCEPT !.phase = "Taking", !.store = @ \cup {Head(proc[p].queue)},
                               !.queue = Tail(@)])

\* persist, up to the check for the file's existence.
Check(p) ==
    /\ proc[p].phase = "Taking" /\ proc[p].queue # <<>>
    /\ IF HasFile(Head(proc[p].queue)) /\ file[Head(proc[p].queue)] = "Absent"
       THEN Becomes(p, [proc[p] EXCEPT !.phase = "Opening"])
       ELSE Taken(p)
    /\ UNCHANGED <<clock, file, reported, present, cut, failures>>

\* fs::write creates or truncates the file, then writes it.
Truncate(p) ==
    /\ proc[p].phase = "Opening"
    /\ \/ /\ file' = [file EXCEPT ![Head(proc[p].queue)] = "Partial"]
          /\ Becomes(p, [proc[p] EXCEPT !.phase = "Writing"])
          /\ UNCHANGED failures
       \/ Fail(p) /\ UNCHANGED file
    /\ UNCHANGED <<clock, reported, present, cut>>

Write(p) ==
    /\ proc[p].phase = "Writing"
    /\ \/ /\ file' = [file EXCEPT ![Head(proc[p].queue)] = "Whole"]
          /\ Taken(p)
          /\ UNCHANGED <<cut, failures>>
       \/ /\ Fail(p)
          /\ cut' = cut \cup {Head(proc[p].queue)}
          /\ UNCHANGED file
    /\ UNCHANGED <<clock, reported, present>>

\* Everything is taken in: judge again and print the difference.
Finish(p) ==
    /\ proc[p].phase = "Taking" /\ proc[p].queue = <<>>
    /\ reported' = [reported EXCEPT ![p] = [loaded |-> proc[p].loaded, store |-> proc[p].store,
                                            time |-> proc[p].time]]
    /\ Rest(p, "Idle")
    /\ UNCHANGED <<clock, file, present, cut, failures>>

\* A process is killed, a loop in its sleep too.
Crash(p) ==
    /\ UnderWay(p) \/ (p \in Looping /\ Resting(p))
    /\ failures < MaxFailures /\ failures' = failures + 1
    /\ Rest(p, "Down")
    /\ cut' = cut \cup {u \in Unit : proc[p].phase = "Writing" /\ u = Head(proc[p].queue)}
    /\ UNCHANGED <<clock, file, reported, present>>

Work(p) ==
    \/ \E u \in Unit : LoadUnit(p, u)
    \/ Gather(p) \/ Check(p) \/ Truncate(p) \/ Write(p) \/ Finish(p)

Next ==
    \/ Tick
    \/ \E p \in Proc : \E list \in Offered[p] : Start(p, list) \/ Relaunch(p, list)
    \/ \E p \in Proc : Work(p) \/ Crash(p)

\* Every pass that began goes on unless its process is killed, and a loop begins one after
\* another as long as it lives: nothing starts a killed one again.
Fairness ==
    /\ \A p \in Proc : WF_vars(Work(p))
    /\ \A p \in Looping : WF_vars(\E list \in Offered[p] : Start(p, list))

Spec == Init /\ [][Next]_vars
FairSpec == Spec /\ Fairness

-----------------------------------------------------------------------------
NoDecisions ==
    [acceptances |-> [h \in Host |-> {}], claims |-> [h \in Host |-> {}],
     resets |-> [h \in Host |-> {}]]

StateOf(h, items, time) == Derive(h, Extract(items), time, NoDecisions, {})

\* The events a completed pass printed for a hostname.
Events(h, r) == HostDiff(StateOf(h, r.loaded, r.time), StateOf(h, r.store, r.time))

Finished(p) == proc[p].phase = "Taking" /\ proc'[p].phase = "Idle"

\* diff.rs: "when a store update or the passage of time changes the output,
\* implementations MUST surface the difference": what a pass derives differs
\* from what the previous one did only by printed events. The code compares
\* with the stored units at the new clock reading instead.
EveryChangeSurfaced ==
    [][\A p \in Proc, h \in Host :
          Finished(p) =>
              HostDiff(StateOf(h, reported[p].store, reported[p].time),
                       StateOf(h, reported'[p].store, reported'[p].time))
                 \subseteq Events(h, reported'[p])]_vars

\* Held evidence is never skipped: a completed pass judged every unit that was
\* on disk when it began, however writers and crashes interleave with its
\* loading (store_dir.rs: "a loud error, never skipped evidence").
NeverSkipsEvidence ==
    [][\A p \in Proc : Finished(p) => present[p] \subseteq reported'[p].store]_vars

\* Nothing judged is forgotten: a unit that some completed pass judged is whole
\* on disk, unless somebody is writing it anew at this moment or was once cut
\* short writing it (persist precedes insert; the existence check and the
\* write are not atomic).
NothingForgotten ==
    \A p \in Proc : \A u \in reported[p].store \cap Unit :
        \/ file[u] = "Whole"
        \/ u \in cut
        \/ \E q \in Proc : proc[q].phase = "Writing" /\ Head(proc[q].queue) = u

\* The loop outlives whatever fails short of its process: as long as it is not killed and
\* no file stays torn, a unit that is on disk is eventually part of what it judged. (After a
\* relaunch the same holds anew.)
EvidenceSpreads ==
    \A p \in Looping, u \in Unit :
        file[u] = "Whole" ~> (u \in reported[p].store \/ cut # {} \/ Down(p))

\* No pass hangs, and the loop begins another one after whatever became of the last
\* (watch.rs: "Errors are reported and the loop continues"), unless its process is killed.
LoopNeverStops ==
    \A p \in Looping :
        /\ []<>(Resting(p) \/ Down(p))
        /\ []<>(UnderWay(p) \/ Down(p))
=============================================================================
