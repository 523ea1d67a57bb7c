-------------------------- MODULE MCObservableCache --------------------------
(* ObservableCache with one reader and one subscriber: two callers that may *)
(* miss together, and a ring that laps at the second message.               *)
EXTENDS ObservableCache
=============================================================================
