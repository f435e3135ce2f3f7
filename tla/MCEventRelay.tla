---------------------------- MODULE MCEventRelay ----------------------------
(* EventRelay for TLC: workers, and events, are interchangeable.           *)
EXTENDS EventRelay, TLC

WorkersAndEvents == Permutations(Worker) \cup Permutations(Event)
=============================================================================
