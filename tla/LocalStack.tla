----------------------------- MODULE LocalStack -----------------------------
(***************************************************************************)
(* run_local_stack.py: a launcher that starts the services one after the   *)
(* other, waits for each to answer its health check, seeds the portfolio,  *)
(* starts what the options ask for, and stops its children on Ctrl-C; run  *)
(* several times on the same ports and the same data directory.            *)
(*                                                                         *)
(* The launcher can be interrupted at any step, also while it shuts down,  *)
(* and it can be killed, which leaves its children to later runs.          *)
(***************************************************************************)
EXTENDS Naturals, SequencesExt

CONSTANTS
  Services,    \* the services with a health gate, in the order of their start
  Seeded,      \* the one that takes the portfolio
  Options,     \* the sets of extras that a run may be started with
  MaxRuns,     \* bound: runs of the launcher
  MaxDeaths,   \* bound: children that die on their own
  MaxKills     \* bound: times the launcher is killed or interrupted twice

Extras   == {"iot_bridge", "publisher", "dashboard"}
Programs == ToSet(Services) \union Extras

ASSUME ServicesAssumption ==
  /\ Services \in Seq(ToSet(Services)) /\ Seeded \in ToSet(Services)
  /\ ToSet(Services) \cap Extras = {}
ASSUME OptionsAssumption == Options \subseteq SUBSET Extras
ASSUME RunsAssumption == MaxRuns \in Nat /\ MaxDeaths \in Nat /\ MaxKills \in Nat

VARIABLES
  phase,      \* of the launcher: "off", "try", "term" and "reap" (the finally block)
  rest,       \* steps left of the try block; none: it sleeps
  processes,  \* the list of children, as the launcher knows it
  queue,      \* children the loop of the finally block still has to visit
  run,        \* runs so far
  procs,      \* the processes that exist, of whatever run
  data,       \* data/runtime: what the state of each service goes back to
  foreign,    \* observer: whether a health check was not answered by the run's own child
  abandoned,  \* observer: whether a run has ended without its shutdown
  deaths, kills

launcher  == <<phase, rest, processes, queue, run>>
observers == <<foreign, abandoned>>
bounds    == <<deaths, kills>>
stackVars      == <<launcher, procs, data, observers, bounds>>

\* A process; old: what it has in memory goes back to before the last reset.
Process == [prog : Programs, run : 1..MaxRuns, old : BOOLEAN,
            st : {"starting", "serving", "terminating"}]

Own(p) == {q \in procs : q.prog = p /\ q.run = run}

\* publish_simulation.py listens on no port.
PortTaken(p) == p # "publisher" /\ \E q \in procs : q.prog = p /\ q.st = "serving"

\* A step of the try block.
TryStep == [do : {"popen", "append", "health", "seed"}, prog : Programs]

\* Popen returns before the list has its result.
LaunchSteps(p) == <<[do |-> "popen", prog |-> p], [do |-> "append", prog |-> p]>>
HealthStep(p) == <<[do |-> "health", prog |-> p]>>

\* The loop over the services: these three steps for each of them.
ServiceSteps ==
  [k \in 1..(3 * Len(Services)) |->
     [do   |-> <<"popen", "append", "health">>[1 + ((k - 1) % 3)],
      prog |-> Services[1 + ((k - 1) \div 3)]]]

\* The try block of main, for the options given.
MainSteps(options) ==
  ServiceSteps
    \o (IF "iot_bridge" \in options
        THEN LaunchSteps("iot_bridge") \o HealthStep("iot_bridge") ELSE << >>)
    \o <<[do |-> "seed", prog |-> Seeded]>>
    \o (IF "publisher" \in options THEN LaunchSteps("publisher") ELSE << >>)
    \o (IF "dashboard" \in options THEN LaunchSteps("dashboard") ELSE << >>)

-----------------------------------------------------------------------------
StackInit ==
  /\ phase = "off" /\ rest = << >> /\ processes = << >> /\ queue = << >> /\ run = 0
  /\ procs = {}
  /\ data \in [ToSet(Services) -> {"new", "none"}]
  /\ foreign = FALSE /\ abandoned = FALSE
  /\ deaths = 0 /\ kills = 0

-----------------------------------------------------------------------------
(* The launcher.                                                           *)

\* Mutant: the directory removed is not the one the services write to.
ResetState_OtherDirectory ==
  /\ data' = [p \in ToSet(Services) |-> IF data[p] = "none" THEN "none" ELSE "old"]
  /\ procs' = {[q EXCEPT !.old = TRUE] : q \in procs}

\* --reset-state removes the data directory before anything is started; what
\* still runs keeps what it has in memory.
ResetState ==
  /\ data' = [p \in ToSet(Services) |-> "none"]
  /\ procs' = {[q EXCEPT !.old = TRUE] : q \in procs}

\* main, up to the try block
Main ==
  /\ phase = "off" /\ run < MaxRuns
  /\ run' = run + 1
  /\ phase' = "try"
  /\ \E options \in Options : rest' = MainSteps(options)
  /\ processes' = << >>
  /\ ResetState \/ UNCHANGED <<data, procs>>
  /\ UNCHANGED <<queue, foreign, abandoned, bounds>>

Do(step) == phase = "try" /\ rest # << >> /\ Head(rest).do = step

Popen ==
  /\ Do("popen")
  /\ procs' = procs \union
       {[prog |-> Head(rest).prog, run |-> run, old |-> FALSE, st |-> "starting"]}
  /\ rest' = Tail(rest)
  /\ UNCHANGED <<phase, processes, queue, run, data, observers, bounds>>

AppendProcess ==
  /\ Do("append")
  /\ processes' = Append(processes, Head(rest).prog)
  /\ rest' = Tail(rest)
  /\ UNCHANGED <<phase, queue, run, procs, data, observers, bounds>>

\* wait_for_health: whoever listens on the port has answered 200.
HealthOk ==
  LET p == Head(rest).prog
  IN  /\ Do("health")
      /\ PortTaken(p)
      /\ rest' = Tail(rest)
      /\ foreign' = (foreign \/ ~ \E q \in Own(p) : q.st = "serving")
      /\ UNCHANGED <<phase, processes, queue, run, procs, data, abandoned, bounds>>

\* The finally block begins.
Leave ==
  /\ phase' = "term"
  /\ rest' = << >>
  /\ queue' = Reverse(processes)
  /\ UNCHANGED <<processes, run>>

\* There is no such program: an OSError that nobody catches.
PopenFails ==
  /\ Do("popen")
  /\ Leave
  /\ UNCHANGED <<procs, data, observers, bounds>>

\* The deadline passes: RuntimeError, which only the bridge's caller catches.
HealthFails ==
  /\ Do("health")
  /\ IF Head(rest).prog = "iot_bridge"
     THEN rest' = Tail(rest) /\ UNCHANGED <<phase, processes, queue, run>>
     ELSE Leave
  /\ UNCHANGED <<procs, data, observers, bounds>>

\* POST /risk/portfolio
Seed ==
  /\ Do("seed")
  /\ \/ /\ PortTaken(Seeded)
        /\ rest' = Tail(rest)
        /\ UNCHANGED <<phase, processes, queue, run>>
     \/ Leave
  /\ UNCHANGED <<procs, data, observers, bounds>>

\* Ctrl-C during the try block; from a terminal the children get it as well.
Interrupt ==
  /\ phase = "try"
  /\ Leave
  /\ \/ UNCHANGED procs
     \/ procs' = {IF q.run = run THEN [q EXCEPT !.st = "terminating"] ELSE q : q \in procs}
  /\ abandoned' = (abandoned \/ Do("append"))
  /\ UNCHANGED <<data, foreign, bounds>>

\* First loop of the finally block: poll, then SIGTERM.
Term ==
  /\ phase = "term" /\ queue # << >>
  /\ LET alive == Own(Head(queue))
     IN  procs' = (procs \ alive) \union {[q EXCEPT !.st = "terminating"] : q \in alive}
  /\ queue' = Tail(queue)
  /\ UNCHANGED <<phase, rest, processes, run, data, observers, bounds>>

TermEnds ==
  /\ phase = "term" /\ queue = << >>
  /\ phase' = "reap" /\ queue' = Reverse(processes)
  /\ UNCHANGED <<rest, processes, run, procs, data, observers, bounds>>

\* Mutant: wait without a timeout.
Reap_NoTimeout ==
  /\ phase = "reap" /\ queue # << >> /\ Own(Head(queue)) = {}
  /\ queue' = Tail(queue)
  /\ UNCHANGED <<phase, rest, processes, run, procs, data, observers, bounds>>

\* Mutant: after the timeout the next child is waited for.
Reap_NoKill ==
  /\ phase = "reap" /\ queue # << >>
  /\ queue' = Tail(queue)
  /\ UNCHANGED <<phase, rest, processes, run, procs, data, observers, bounds>>

\* Second loop: the child is gone, or five seconds pass and it is killed.
Reap ==
  /\ phase = "reap" /\ queue # << >>
  /\ procs' = procs \ Own(Head(queue))
  /\ queue' = Tail(queue)
  /\ UNCHANGED <<phase, rest, processes, run, data, observers, bounds>>

Exit ==
  /\ phase = "reap" /\ queue = << >>
  /\ phase' = "off"
  /\ UNCHANGED <<rest, processes, queue, run, procs, data, observers, bounds>>

\* The launcher is killed, or interrupted a second time in the finally block.
Abandon ==
  /\ phase # "off" /\ kills < MaxKills
  /\ kills' = kills + 1
  /\ phase' = "off" /\ rest' = << >> /\ queue' = << >>
  /\ abandoned' = TRUE
  /\ UNCHANGED <<processes, run, procs, data, foreign, deaths>>

-----------------------------------------------------------------------------
(* The processes.                                                          *)

\* The service loads its state and listens, or finds its port taken and exits.
Listen(q) ==
  /\ q.st = "starting"
  /\ procs' = (procs \ {q}) \union
       (IF PortTaken(q.prog) THEN {}
        ELSE {[q EXCEPT !.st = "serving",
                        !.old = q.prog \in DOMAIN data /\ data[q.prog] = "old"]})
  /\ UNCHANGED <<launcher, data, observers, bounds>>

\* _save_state of a service
Save(q) ==
  /\ q.st # "starting" /\ q.prog \in DOMAIN data
  /\ data' = [data EXCEPT ![q.prog] = IF q.old THEN "old" ELSE "new"]
  /\ UNCHANGED <<launcher, procs, observers, bounds>>

\* SIGTERM takes effect, at once or after a graceful shutdown.
Stop(q) ==
  /\ q.st = "terminating"
  /\ procs' = procs \ {q}
  /\ UNCHANGED <<launcher, data, observers, bounds>>

\* A child dies on its own; the publisher does when its cycles are over.
Die(q) ==
  /\ q.st # "terminating"
  /\ IF q.prog = "publisher" THEN UNCHANGED deaths
                             ELSE deaths < MaxDeaths /\ deaths' = deaths + 1
  /\ procs' = procs \ {q}
  /\ UNCHANGED <<launcher, data, observers, kills>>

-----------------------------------------------------------------------------
LauncherStep ==
  \/ Popen \/ PopenFails \/ AppendProcess \/ HealthOk \/ HealthFails \/ Seed
  \/ Term \/ TermEnds \/ Reap \/ Exit

StackNext ==
  \/ Main
  \/ LauncherStep
  \/ Interrupt
  \/ Abandon
  \/ \E q \in procs : Listen(q) \/ Save(q) \/ Stop(q) \/ Die(q)

StackSpec == StackInit /\ [][StackNext]_stackVars

\* The launcher goes on: every wait of it has a deadline.
FairStackSpec == StackSpec /\ WF_stackVars(LauncherStep)

-----------------------------------------------------------------------------
(* Properties.                                                             *)

\* Type invariant.
StackTypes ==
  /\ phase \in {"off", "try", "term", "reap"} /\ rest \in Seq(TryStep)
  /\ procs \subseteq Process /\ run \in 0..MaxRuns
  /\ processes \in Seq(Programs) /\ queue \in Seq(Programs)
  /\ data \in [ToSet(Services) -> {"none", "new", "old"}]
  /\ foreign \in BOOLEAN /\ abandoned \in BOOLEAN

\* A launcher that went through its finally block leaves no child behind: none
\* that was still starting, none that hangs, and none that it forgot.
NothingLeft == (phase = "off" /\ ~abandoned) => procs = {}

\* What answers a health check is the child that was started for it, unless an
\* earlier run was cut short and left the port taken.
HealthIsOwn == foreign => abandoned

\* The step after the start of a child enters it in the list of children.
ListedNext(steps) ==
  \A i \in DOMAIN steps : steps[i].do = "popen" =>
    i < Len(steps) /\ steps[i + 1] = [do |-> "append", prog |-> steps[i].prog]

\* A launcher that nothing has cut short knows every process that exists: as a
\* child in its list, as the one it is about to enter there, or, once it waits
\* for the end of its children, as one it has not come to yet.
ChildrenKnown ==
  /\ phase # "off" => run \in 1..MaxRuns
  /\ ~abandoned => \A q \in procs :
       /\ q.run = run
       /\ phase = "try" => \/ q.prog \in ToSet(processes)
                           \/ rest # << >> /\ Head(rest) = [do |-> "append", prog |-> q.prog]
       /\ phase = "term" => q.prog \in ToSet(processes)
       /\ phase = "reap" => q.prog \in ToSet(queue)

\* The types, that a shutdown leaves nothing and whose health is checked, with
\* what makes it inductive.
StackInv == StackTypes /\ NothingLeft /\ HealthIsOwn /\ ListedNext(rest) /\ ChildrenKnown

\* With --reset-state no service works with data from before the reset, neither in
\* memory nor on disk, unless an earlier run was cut short and its services write on.
ResetIsClean ==
  ~abandoned => (\A q \in procs : ~q.old) /\ (\A p \in DOMAIN data : data[p] # "old")

\* The shutdown ends, although a child may ignore SIGTERM.
ShutdownEnds == phase = "term" ~> phase = "off"
=============================================================================
