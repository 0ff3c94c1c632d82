----------------------------- MODULE PktCounters -----------------------------
(***************************************************************************)
(* The packet counters agent: CounterRecorder of pktCountersAgent.py and   *)
(* Counters of pktcounters.py.  Once per period the agent reads the rules  *)
(* of the kernel, deletes all of them, sets the default ones again and     *)
(* stores what it read.  Its methods run one at a time, but packets pass   *)
(* between any two steps.                                                  *)
(*                                                                         *)
(* A flow is a direction of an interface, and stands for the name of its   *)
(* default counter, "in-eth0".                                             *)
(***************************************************************************)
EXTENDS Integers, SequencesExt

CONSTANTS
  Intf,        \* the interfaces of the node
  Odd,         \* names of counters that name no direction and interface
  Extra,       \* other names that do, of direction "in", as "inweb-eth0"
  Filters,     \* the counters of the configuration
  MaxPackets,  \* bound: packets that pass
  MaxHandle    \* bound: handles that are given

Flow == {"in", "out"} \X Intf
Custom == Odd \cup Extra
Name == Flow \cup Custom
Total(d) == <<"total", d>>
Record == Name \cup {Total("in"), Total("out")}

ASSUME CountersAssumption ==
  /\ MaxPackets \in Nat /\ MaxHandle \in Nat \ {0}
  /\ Odd \cap Extra = {} /\ Odd \cap Flow = {} /\ Filters \subseteq Custom
  /\ IsFiniteSet(Intf) /\ IsFiniteSet(Filters)
  /\ {<<"ip", i>> : i \in Intf} \cap Intf = {}   \* no address is the name of an interface

VARIABLES
  active,
  mark2type,      \* from handle to the name of the counter
  handlecounter,
  rules,          \* the kernel: from handle to the flow and the packets counted
  step,           \* what runs: "idle", a method that adds counters ("set", "start"),
                  \* periodic after the reading ("loaded"), or after the deletion
                  \* of the counters ("reset")
  todo,           \* the counters that are still to be added, in order
  data,           \* of periodic: from name to packets
  collection,     \* from name, and total, to the packets of its records
  \* history
  passed,         \* the packets of each flow
  missed,         \* those that are not in the records for a known reason
  removing        \* the method that was called last is removeDefaults

counters == <<mark2type, handlecounter, rules>>
vars == <<active, counters, step, todo, data, collection, passed, missed, removing>>

Names == {mark2type[h] : h \in DOMAIN mark2type}
Handle(name) == CHOOSE h \in DOMAIN mark2type : mark2type[h] = name
Counted(name) == IF name \in Names THEN rules[Handle(name)].pkts ELSE 0

Init ==
  /\ active = FALSE
  /\ mark2type = << >> /\ handlecounter = 1 /\ rules = << >>
  /\ step = "idle" /\ todo = << >> /\ data = << >>
  /\ collection = [n \in Record |-> 0]
  /\ passed = [f \in Flow |-> 0] /\ missed = [f \in Flow |-> 0]
  /\ removing = FALSE

-----------------------------------------------------------------------------
(* Counters.                                                               *)

With(f, x, v) == [y \in DOMAIN f \cup {x} |-> IF y = x THEN v ELSE f[y]]
Without(f, x) == [y \in DOMAIN f \ {x} |-> f[y]]

addDataCounter(name, flow) ==
  IF name \in Names THEN UNCHANGED counters
  ELSE /\ mark2type' = With(mark2type, handlecounter, name)
       /\ rules' = With(rules, handlecounter, [flow |-> flow, pkts |-> 0])
       /\ handlecounter' = handlecounter + 1

delDataCounter(name) ==
  /\ IF name \in Names
       THEN /\ rules' = Without(rules, Handle(name))
            /\ mark2type' = Without(mark2type, Handle(name))
       ELSE UNCHANGED <<mark2type, rules>>
  /\ UNCHANGED handlecounter

\* mutant: only the agent forgets its counters.
ClearAgentOnly == mark2type' = << >> /\ UNCHANGED <<rules, handlecounter>>

Clear == rules' = << >> /\ mark2type' = << >> /\ UNCHANGED handlecounter

loadCounters == [n \in Names |-> Counted(n)]

SumPassed == MapThenSumSet(LAMBDA f : passed[f], Flow)

\* A packet passes, and every rule of its flow counts it.
Packet(f) ==
  /\ SumPassed < MaxPackets
  /\ passed' = [passed EXCEPT ![f] = @ + 1]
  /\ rules' = [h \in DOMAIN rules |->
                 IF rules[h].flow = f THEN [rules[h] EXCEPT !.pkts = @ + 1] ELSE rules[h]]
  /\ missed' = IF f \notin Names \/ step = "loaded" THEN [missed EXCEPT ![f] = @ + 1] ELSE missed
  /\ UNCHANGED <<active, mark2type, handlecounter, step, todo, data, collection, removing>>

-----------------------------------------------------------------------------
(* The methods of the agent.                                               *)

Call(method) == step = "idle" /\ removing' = (method = "removeDefaults")

\* What is dropped with the counters of these names.
Drop(names) ==
  missed' = [f \in Flow |-> missed[f] + IF f \in names THEN Counted(f) ELSE 0]

StartCollection ==
  /\ Call("startCollection")
  /\ step' = "start" /\ todo' = SetToSeq(Flow) \o SetToSeq(Filters)
  /\ UNCHANGED <<active, counters, data, collection, passed, missed>>

SetDefaults ==
  /\ Call("setDefaults")
  /\ step' = "set" /\ todo' = SetToSeq(Flow)
  /\ UNCHANGED <<active, counters, data, collection, passed, missed>>

StopCollection ==
  /\ Call("stopCollection")
  /\ active' = FALSE
  /\ UNCHANGED <<counters, step, todo, data, collection, passed, missed>>

AddCounter(name, flow) ==
  /\ Call("addCounter")
  /\ handlecounter < MaxHandle
  /\ name \in Flow => flow = name
  /\ addDataCounter(name, flow)
  /\ UNCHANGED <<active, step, todo, data, collection, passed, missed>>

RemoveCounter(name) ==
  /\ Call("removeCounter")
  /\ delDataCounter(name)
  /\ Drop({name})
  /\ UNCHANGED <<active, step, todo, data, collection, passed>>

ClearCounters ==
  /\ Call("clearCounters")
  /\ Clear
  /\ Drop(Flow)
  /\ UNCHANGED <<active, step, todo, data, collection, passed>>

\* It removes "in-" and "out-" followed by the address of each interface;
\* the defaults have its name.
IpName == {"in", "out"} \X {<<"ip", i>> : i \in Intf}

RemoveDefaults ==
  /\ Call("removeDefaults")
  /\ LET kept == {h \in DOMAIN mark2type : mark2type[h] \notin IpName} IN
       /\ mark2type' = [h \in kept |-> mark2type[h]]
       /\ rules' = [h \in kept |-> rules[h]]
  /\ UNCHANGED <<active, handlecounter, step, todo, data, collection, passed, missed>>

\* One counter of setDefaults, or of the configuration.
AddNext(flow) ==
  /\ step \in {"start", "set", "reset"} /\ todo # << >>
  /\ handlecounter < MaxHandle
  /\ Head(todo) \in Flow => flow = Head(todo)
  /\ addDataCounter(Head(todo), flow)
  /\ todo' = Tail(todo)
  /\ UNCHANGED <<active, step, data, collection, passed, missed, removing>>

\* The old records are removed.
Started ==
  /\ step = "start" /\ todo = << >>
  /\ step' = "idle"
  /\ active' = TRUE
  /\ collection' = [n \in Record |-> 0]
  /\ missed' = [f \in Flow |-> missed[f] + collection[f]]
  /\ UNCHANGED <<counters, todo, data, passed, removing>>

DefaultsSet ==
  /\ step = "set" /\ todo = << >>
  /\ step' = "idle"
  /\ UNCHANGED <<active, counters, todo, data, collection, passed, missed, removing>>

-----------------------------------------------------------------------------
(* periodic.                                                               *)

Load ==
  /\ step = "idle" /\ active
  /\ data' = loadCounters
  /\ step' = "loaded"
  /\ removing' = FALSE
  /\ UNCHANGED <<active, counters, todo, collection, passed, missed>>

\* mutant: the counters that were read go on counting.
ClearLoadedKeeps ==
  /\ step = "loaded"
  /\ step' = "reset" /\ todo' = SetToSeq(Flow)
  /\ UNCHANGED <<active, counters, data, collection, passed, missed, removing>>

ClearLoaded ==
  /\ step = "loaded"
  /\ Clear
  /\ step' = "reset" /\ todo' = SetToSeq(Flow)
  /\ UNCHANGED <<active, data, collection, passed, missed, removing>>

Directed(n, d) == IF n \in Flow THEN n[1] = d ELSE n \in Extra /\ d = "in"
SumOf(names, d, f) == MapThenSumSet(LAMBDA n : f[n], {n \in names : Directed(n, d)})

\* A name that is not odd is stored; the first odd one ends the loop, and
\* what the loop has not come to is lost, the totals too.
Store ==
  /\ step = "reset" /\ todo = << >>
  /\ \E stored \in SUBSET (DOMAIN data \ Odd) :
       /\ (DOMAIN data \cap Odd = {}) => stored = DOMAIN data
       /\ collection' = [n \in Record |-> collection[n] +
            IF n \in stored THEN data[n]
            ELSE IF n \in Name \/ DOMAIN data \cap Odd # {} THEN 0
            ELSE SumOf(DOMAIN data, n[2], data)]
       /\ missed' = [f \in Flow |->
            missed[f] + IF f \in DOMAIN data \ stored THEN data[f] ELSE 0]
  /\ step' = "idle" /\ data' = << >>
  /\ UNCHANGED <<active, counters, todo, passed, removing>>

Next ==
  \/ \E f \in Flow : Packet(f)
  \/ StartCollection \/ StopCollection \/ SetDefaults \/ RemoveDefaults \/ ClearCounters
  \/ \E n \in Name : RemoveCounter(n) \/ \E f \in Flow : AddCounter(n, f)
  \/ \E f \in Flow : AddNext(f)
  \/ Started \/ DefaultsSet
  \/ Load \/ ClearLoaded \/ Store

Spec == Init /\ [][Next]_vars

-----------------------------------------------------------------------------
(* Every variable keeps its type; the agent and the kernel know the same   *)
(* counters, and no two have one name.                                     *)
TypeOK ==
  /\ active \in BOOLEAN
  /\ handlecounter \in 1 .. MaxHandle
  /\ DOMAIN mark2type \subseteq 1 .. handlecounter - 1 /\ Names \subseteq Name
  /\ DOMAIN rules = DOMAIN mark2type /\ Cardinality(Names) = Cardinality(DOMAIN rules)
  /\ \A h \in DOMAIN rules : rules[h] \in [flow : Flow, pkts : 0 .. MaxPackets]
  /\ step \in {"idle", "set", "start", "loaded", "reset"} /\ todo \in Seq(Name)
  /\ DOMAIN data \subseteq Name
  /\ \A n \in DOMAIN data : data[n] \in 0 .. MaxPackets
  /\ collection \in [Record -> Nat]
  /\ passed \in [Flow -> 0 .. MaxPackets] /\ missed \in [Flow -> 0 .. MaxPackets]

(* Every packet is counted once, whenever it passes: it is in the records, *)
(* in what periodic holds, in the kernel, or it passed while its flow had  *)
(* no counter or between the reading and the deletion of its counter, or   *)
(* was dropped with a counter, the old records, or a period that failed.   *)
CountedOnce ==
  \A f \in Flow :
    passed[f] = collection[f] + missed[f]
                + (IF f \in DOMAIN data THEN data[f] ELSE 0)
                + (IF step = "loaded" /\ f \in DOMAIN data THEN 0 ELSE Counted(f))

(* A name that periodic cannot parse costs the records of one period, no   *)
(* more.  Whether the loop over the data raises or not, the counter of the *)
(* name is gone by then, and every default counter counts again, though    *)
(* the experimenter had removed it.  (The counters of the configuration go *)
(* the same way, which is not what the interface file says.)               *)
FailureCostsOnePeriod ==
  [][step = "reset" /\ step' = "idle" => Flow \subseteq Names /\ Names \cap Odd = {}]_vars

(* The comment of removeDefaults: it is a "shortcut to remove default      *)
(* counters".                                                              *)
RemovesDefaults == removing => Names \cap Flow = {}

=============================================================================
