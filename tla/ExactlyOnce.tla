---------------------------- MODULE ExactlyOnce ----------------------------
(***************************************************************************)
(* What the service promises the sender of a command, with no mention of   *)
(* threads, locks, transactions or crashes: a request takes effect at most *)
(* once, on exactly the revision its sender had seen; its reply is         *)
(* recorded in the same step and never changes; and whoever is answered    *)
(* "done" is given the recorded reply of that very request.                *)
(***************************************************************************)
EXTENDS Naturals, Sequences

CONSTANTS Case,         \* certification cases
          Request,      \* requests: [id, case, command, expected]
          RequestId,    \* request identifiers
          Unanswered    \* no reply is recorded

VARIABLES log,          \* requests that changed a case, in order
          reply,        \* the reply recorded for a request identifier
          done          \* replies that were delivered: [request, reply]

onceVars == <<log, reply, done>>

OnceInit ==
  /\ log = [c \in Case |-> <<>>]
  /\ reply = [i \in RequestId |-> Unanswered]
  /\ done = {}

\* r changes its case; the reply is the revision it made.
Apply(r) ==
  /\ reply[r.id] = Unanswered
  /\ r.expected = Len(log[r.case])
  /\ log' = [log EXCEPT ![r.case] = Append(@, r)]
  /\ reply' = [reply EXCEPT ![r.id] =
        [case |-> r.case, command |-> r.command, revision |-> Len(log[r.case]) + 1]]
  /\ UNCHANGED done

\* r is answered without changing its case.
Note(r) ==
  /\ reply[r.id] = Unanswered
  /\ r.expected = Len(log[r.case])
  /\ reply' = [reply EXCEPT ![r.id] =
        [case |-> r.case, command |-> r.command, revision |-> Len(log[r.case])]]
  /\ UNCHANGED <<log, done>>

\* The sender of r is told that it is done.
Deliver(r) ==
  /\ reply[r.id] # Unanswered
  /\ reply[r.id].case = r.case
  /\ reply[r.id].command = r.command
  /\ done' = done \cup {[request |-> r, reply |-> reply[r.id]]}
  /\ UNCHANGED <<log, reply>>

OnceNext == \E r \in Request : Apply(r) \/ Note(r) \/ Deliver(r)

OnceSpec == OnceInit /\ [][OnceNext]_onceVars
=============================================================================
