---------------------------- MODULE MCNekoRuntime ----------------------------
(***************************************************************************)
(* NekoRuntime on small instances.  Two callers are enough for a start that *)
(* probes its provider while another call passes it, and for a duplicate of *)
(* a call in flight.                                                        *)
(***************************************************************************)
EXTENDS NekoRuntime, TLC

CONSTANTS s1, start1, cancel1, write1, write2

Call(i, m, s) == [id |-> i, method |-> m, session |-> s]

\* One session with a call of every method.
OneSession == {Call(start1, "start", s1), Call(cancel1, "cancel", s1),
               Call(write1, "write", s1)}

\* Two lines for a queue of one.
Writes == {Call(start1, "start", s1), Call(write1, "write", s1),
           Call(write2, "write", s1)}

\* Cancellation of one session, against its start and against shutdown.
StartCancel == {Call(start1, "start", s1), Call(cancel1, "cancel", s1)}

\* Callers only differ by the call they execute.
Symmetry == Permutations(Callers)

=============================================================================
