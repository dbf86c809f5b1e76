------------------------------ MODULE TraceFile ------------------------------
(***************************************************************************)
(* The readers of a trace file: parseTrace, which sorts what it reads, and *)
(* tracePrefix of the reproducer, which does not.  A record is an event or *)
(* a marker and carries its submission stamp i.                            *)
(***************************************************************************)
EXTENDS Integers, Sequences, FiniteSets

RecordsOf(recs, rec) == {recs[k] : k \in {l \in DOMAIN recs : recs[l].rec = rec}}

(* How many of a set of records were submitted no later than r.            *)
Place(r, rs) == Cardinality({s \in rs : s.i <= r.i})

(* The events, or the markers, of a file in ascending order of i.          *)
InSubmissionOrder(recs, rec) ==
    LET rs == RecordsOf(recs, rec)
    IN  [n \in 1..Cardinality(rs) |-> CHOOSE r \in rs : Place(r, rs) = n]

(* Mutant: the markers are counted with the events.                        *)
TracePrefixCountsAll(recs, cp) == {k \in DOMAIN recs : recs[k].rec = "event" => k <= cp}

(* The lines of a file that tracePrefix keeps for crash point cp: the      *)
(* first cp events in the order of the file, and every marker.             *)
TracePrefix(recs, cp) ==
    {k \in DOMAIN recs :
        recs[k].rec = "event" => Cardinality({l \in 1..k : recs[l].rec = "event"}) <= cp}

=============================================================================
