------------------------------- MODULE MCShim -------------------------------
(* Instances of Shim: one thread that makes every call, one whose calls    *)
(* may fail or write less, and two that make the four calls that share the *)
(* tables, the store and the counter.                                      *)
EXTENDS Shim

CONSTANTS t1, t2

TwoFiles == {"db", "tmp"}

OneThread == [threads |-> {t1}, calls |-> CALLS, paths |-> TwoFiles, values |-> {"a", "b"},
              most |-> 5, faults |-> {}]
Unlucky == [OneThread EXCEPT !.most = 4, !.values = {"a"}, !.faults = FAULTS]
TwoThreads == [threads |-> {t1, t2}, calls |-> {"open", "write", "fsync", "close"},
               paths |-> {"db"}, values |-> {"a"}, most |-> 4, faults |-> {}]

EveryProgram == {OneThread, Unlucky, TwoThreads}
Threaded == {TwoThreads}
Create == {"O_CREAT"}

=============================================================================
