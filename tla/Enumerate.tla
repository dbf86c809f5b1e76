----------------------------- MODULE Enumerate -----------------------------
(***************************************************************************)
(* From a finished trace to the crash states that are tested: the first    *)
(* half of runCampaign.                                                    *)
(*                                                                         *)
(*   parseTrace -> selectCrashPoints -> enumerateCrashStates               *)
(*              -> sampleStates                                            *)
(*                                                                         *)
(* The loops run here as the code runs them, one mask or one prefix at a   *)
(* time, in the order sampleStates relies on; Persistence!StatesAt is the  *)
(* set they are checked against.  unitHash is an arbitrary function of the *)
(* seed, so what it selects is chosen freely: `lucky' are the indices whose*)
(* hash is under nonFsyncSampleRate, and the positions that rank low enough*)
(* are any positions.                                                      *)
(***************************************************************************)
EXTENDS Persistence, FiniteSetsExt

CONSTANTS
    Ops,                       \* the calls a trace is made of
    MaxEvents,                 \* bound on the length of the trace
    FsModels,                  \* the filesystem models swept
    MaxExhaustiveWorkloadOps,  \* bounds.jsonc
    MaxStatesPerCrashPoint     \* bounds.jsonc

ASSUME EnumerateAssumption ==
    /\ \A op \in Ops : op.len \in Nat
    /\ MaxEvents \in Nat
    /\ FsModels \subseteq MODELS
    /\ MaxExhaustiveWorkloadOps \in Nat
    /\ MaxStatesPerCrashPoint \in Nat

VARIABLES
    model,     \* the filesystem model of the run
    events,    \* the trace
    lucky,     \* the crash points the seed samples
    header,    \* the version in the trace's header, 0 if it has none
    phase,     \* the stage the run is in
    points,    \* the selected crash points, ascending
    todo,      \* the crash points this stage has left
    mask,      \* the mask (or prefix length) tried next
    states,    \* what enumerateCrashStates returns
    sampled    \* what sampleStates returns

vars == <<model, events, lucky, header, phase, points, todo, mask, states, sampled>>

Calls == 1..Len(events)

(* The elements of S in the strict order Before: k - 1 of them are before  *)
(* the k-th.                                                               *)
Sorted(S, Before(_, _)) ==
    [k \in 1..Cardinality(S) |->
        CHOOSE x \in S : Cardinality({y \in S : Before(y, x)}) = k - 1]

Ascending(S) == Sorted(S, <)

-----------------------------------------------------------------------------

TRACE_VERSION == 1

Traces == UNION {[1..n -> Ops] : n \in 0..MaxEvents}

Init ==
    /\ model \in FsModels
    /\ events \in Traces
    /\ lucky \in SUBSET Calls
    /\ header \in {0, TRACE_VERSION, TRACE_VERSION + 1}
    /\ phase = "parse"
    /\ points = <<>>
    /\ todo = <<>>
    /\ mask = 0
    /\ states = <<>>
    /\ sampled = <<>>

(* A trace without a header, or of another version, is refused.            *)
ParseTrace ==
    /\ phase = "parse"
    /\ phase' = IF header = TRACE_VERSION THEN "select" ELSE "rejected"
    /\ UNCHANGED <<model, events, lucky, header, points, todo, mask, states, sampled>>

(* Mutant: only the persistence calls themselves are always selected.      *)
SelectedNotAfter ==
    IF Len(events) <= MaxExhaustiveWorkloadOps \/ \A i \in Calls : ~Persists(events[i])
    THEN Calls
    ELSE {i \in Calls : Persists(events[i]) \/ i \in lucky}

(* The length compared with the bound is the number of events.             *)
Selected ==
    IF Len(events) <= MaxExhaustiveWorkloadOps \/ \A i \in Calls : ~Persists(events[i])
    THEN Calls
    ELSE {i \in Calls : \/ Persists(events[i])
                        \/ i > 1 /\ Persists(events[i-1])
                        \/ i \in lucky}

(* Mutant: crash points are handed on with the base of another array.      *)
SelectFromZero ==
    /\ phase = "select"
    /\ phase' = "enumerate"
    /\ points' = Ascending({i - 1 : i \in Selected})
    /\ todo' = points'
    /\ UNCHANGED <<model, events, lucky, header, mask, states, sampled>>

SelectCrashPoints ==
    /\ phase = "select"
    /\ phase' = "enumerate"
    /\ points' = Ascending(Selected)
    /\ todo' = Ascending(Selected)
    /\ UNCHANGED <<model, events, lucky, header, mask, states, sampled>>

PowerOf2[n \in 0..30] == IF n = 0 THEN 1 ELSE 2 * PowerOf2[n - 1]

(* 1 << n on a signed 32-bit integer, and whether m & (1 << b) is not zero *)
(* for an m that is not negative.                                          *)
Shl1(n) == IF n % 32 = 31 THEN (-2147483647) - 1 ELSE PowerOf2[n % 32]

Bit(m, b) == b % 32 # 31 /\ (m \div PowerOf2[b % 32]) % 2 = 1

(* The operations of the window that the mask names.                       *)
Chosen(cp, m) ==
    LET window == Ascending(Window(events, cp))
    IN  {window[b + 1] : b \in {c \in 0..(Len(window) - 1) : Bit(m, c)}}

(* Partial states of one mask: window order, then prefix length.           *)
TornSeq(cp, S) ==
    LET torn == Sorted(TornOf(events, cp, S),
                       LAMBDA v, w : v.op < w.op \/ (v.op = w.op /\ v.bytes < w.bytes))
    IN  [k \in 1..Len(torn) |-> CrashState(cp, S, {torn[k]})]

(* Mutant: the loop stops one mask short.                                  *)
LastMaskShort(cp) == Shl1(Cardinality(Window(events, cp))) - 1

Masks(cp) == Shl1(Cardinality(Window(events, cp)))

(* Mutant: the loop skips an illegal mask without advancing.               *)
TryMaskStuck ==
    LET cp == Head(todo)
        S == AlwaysPresent(events, cp) \cup Chosen(cp, mask)
    IN  /\ phase = "enumerate" /\ todo # <<>>
        /\ ~model.totalOrder
        /\ mask < Masks(cp)
        /\ IF ExistsOnDisk(events, S)
           THEN /\ states' = states \o <<CrashState(cp, S, {})>> \o TornSeq(cp, S)
                /\ mask' = mask + 1
           ELSE UNCHANGED <<states, mask>>
        /\ UNCHANGED <<model, events, lucky, header, phase, points, todo, sampled>>

(* One mask of the subset enumeration.                                     *)
TryMask ==
    LET cp == Head(todo)
        S == AlwaysPresent(events, cp) \cup Chosen(cp, mask)
    IN  /\ phase = "enumerate" /\ todo # <<>>
        /\ ~model.totalOrder
        /\ mask < Masks(cp)
        /\ states' = IF ExistsOnDisk(events, S)
                     THEN states \o <<CrashState(cp, S, {})>> \o TornSeq(cp, S)
                     ELSE states
        /\ mask' = mask + 1
        /\ UNCHANGED <<model, events, lucky, header, phase, points, todo, sampled>>

(* One prefix of the data journaling enumeration.                          *)
TryPrefix ==
    LET cp == Head(todo)
        issued == Ascending(Issued(events, cp))
        S == {issued[k] : k \in 1..mask}
    IN  /\ phase = "enumerate" /\ todo # <<>>
        /\ model.totalOrder
        /\ mask <= Len(issued)
        /\ states' = IF AlwaysPresent(events, cp) \subseteq S
                     THEN Append(states, CrashState(cp, S, {})) ELSE states
        /\ mask' = mask + 1
        /\ UNCHANGED <<model, events, lucky, header, phase, points, todo, sampled>>

FinishCrashPoint ==
    LET cp == Head(todo)
    IN  /\ phase = "enumerate" /\ todo # <<>>
        /\ IF model.totalOrder THEN mask > Cardinality(Issued(events, cp)) ELSE mask >= Masks(cp)
        /\ todo' = Tail(todo)
        /\ mask' = 0
        /\ UNCHANGED <<model, events, lucky, header, phase, points, states, sampled>>

(* The places of a crash point's states, in the order of enumeration.      *)
Group(cp) == Ascending({k \in DOMAIN states : states[k].crashPoint = cp})

(* sampleStates groups what was emitted, so a crash point without a state  *)
(* has no group.                                                           *)
BeginSampling ==
    /\ phase = "enumerate" /\ todo = <<>>
    /\ phase' = "sample"
    /\ todo' = Ascending({states[k].crashPoint : k \in DOMAIN states})
    /\ UNCHANGED <<model, events, lucky, header, points, mask, states, sampled>>

(* Mutant: both ends have to rank low enough like any other position.      *)
KeepsRanked(n) ==
    IF n <= MaxStatesPerCrashPoint THEN {1..n} ELSE kSubset(MaxStatesPerCrashPoint, 1..n)

(* The sets of positions sampleStates may keep out of a group of n: all of *)
(* a small group, else both ends and the lowest ranked until the cap.      *)
Keeps(n) ==
    IF n <= MaxStatesPerCrashPoint THEN {1..n}
    ELSE {{1, n} \cup K : K \in kSubset(Max({0, MaxStatesPerCrashPoint - 2}), 2..(n - 1))}

SampleGroup ==
    /\ phase = "sample" /\ todo # <<>>
    /\ LET group == Group(Head(todo))
       IN  \E K \in Keeps(Len(group)) :
               sampled' = sampled \o [k \in 1..Cardinality(K) |-> states[group[Ascending(K)[k]]]]
    /\ todo' = Tail(todo)
    /\ UNCHANGED <<model, events, lucky, header, phase, points, mask, states>>

Finish ==
    /\ phase = "sample" /\ todo = <<>>
    /\ phase' = "done"
    /\ UNCHANGED <<model, events, lucky, header, points, todo, mask, states, sampled>>

Done ==
    /\ phase \in {"done", "rejected"}
    /\ UNCHANGED vars

Next ==
    \/ ParseTrace
    \/ SelectCrashPoints
    \/ TryMask
    \/ TryPrefix
    \/ FinishCrashPoint
    \/ BeginSampling
    \/ SampleGroup
    \/ Finish
    \/ Done

(* One sequential function: it keeps running.                              *)
Spec == Init /\ [][Next]_vars /\ WF_vars(Next)

-----------------------------------------------------------------------------

State == [crashPoint : Calls, persisted : SUBSET Calls,
          partial : SUBSET [op : Calls, bytes : Nat]]

(* Types, and every emitted state belongs to a selected crash point.       *)
TypeOK ==
    /\ model \in FsModels
    /\ events \in Traces
    /\ header \in 0..2
    /\ phase \in {"parse", "rejected", "select", "enumerate", "sample", "done"}
    /\ points \in Seq(Calls) /\ todo \in Seq(Calls)
    /\ mask \in Nat
    /\ states \in Seq(State) /\ sampled \in Seq(State)
    /\ \A k \in DOMAIN states : states[k].crashPoint \in Selected

Emitted(cp) == {states[k] : k \in {l \in DOMAIN states : states[l].crashPoint = cp}}

(* The mask and prefix loops of enumerateCrashStates emit, for every       *)
(* selected crash point, exactly the legal states, each of them once.      *)
EnumerationExact ==
    phase \in {"sample", "done"} =>
        /\ \A cp \in Selected : Emitted(cp) = StatesAt(events, cp, model)
        /\ MaxUnpersistedWindow > 0 =>
               \A k, l \in DOMAIN states : states[k] = states[l] => k = l

Sample(cp) == {sampled[k] : k \in {l \in DOMAIN sampled : sampled[l].crashPoint = cp}}

(* What is tested is a subsequence of what was enumerated, at most the cap *)
(* (and the two boundaries) per crash point.                               *)
SampleIsSubsequence ==
    /\ \A cp \in Selected : Cardinality(Sample(cp)) <= IF MaxStatesPerCrashPoint > 2
                                                       THEN MaxStatesPerCrashPoint ELSE 2
    /\ LET at(k) == CHOOSE l \in DOMAIN states : states[l] = sampled[k]
       IN  /\ \A k \in DOMAIN sampled : \E l \in DOMAIN states : states[l] = sampled[k]
           /\ \A k, l \in DOMAIN sampled : k < l => at(k) < at(l)

BoundariesTested ==
    \A cp \in Selected :
        /\ CrashState(cp, Issued(events, cp), {}) \in Sample(cp)
        /\ \E low \in Sample(cp) : /\ low.partial = {}
                                   /\ \A st \in Emitted(cp) : low.persisted \subseteq st.persisted

(* sample.ts: "The first and last state of each group are always kept:     *)
(* they are the boundaries of the space, where nothing unpinned persisted  *)
(* and where all of it did."  Whatever the cap and the seed, sampling      *)
(* narrows and never invents or reorders, and every selected crash point   *)
(* is tested with everything it issued on disk and with a state no other   *)
(* state of the crash point is smaller than.                               *)
SamplingIsSound == phase = "done" => SampleIsSubsequence /\ BoundariesTested

(* crash-points.ts: "every bug they reproduced involved a crash right      *)
(* after a persistence point, so those crash points are always selected".  *)
(* Every instant between a persistence call and the call after it is       *)
(* tested, and a trace that never persists is tested everywhere.           *)
PersistencePointsTested ==
    phase = "done" =>
        \A i \in Calls :
            (\/ Persists(events[i])
             \/ i > 1 /\ Persists(events[i-1])
             \/ \A j \in Calls : ~Persists(events[j]))
            => Sample(i) # {}

(* Every trace is analysed to the end or refused.                          *)
Terminates == <>(phase \in {"done", "rejected"})

=============================================================================
