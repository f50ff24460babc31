---------------------------- MODULE RequestStates ----------------------------
(***************************************************************************)
(* The sponsorship request state machine of packages/core/src/state.ts:    *)
(* the statuses, the transition table T, and the two classifications every *)
(* other part of the system relies on (terminal statuses, statuses that    *)
(* hold a budget reservation).                                             *)
(***************************************************************************)

\* A row that has not been inserted yet.  Not a status of the program.
ABSENT == "ABSENT"

\* The transition table.  `transition` in packages/db refuses a step that is
\* not in it before it touches the row.
T == [ RECEIVED          |-> {"REJECTED", "RESERVED"},
       RESERVED          |-> {"SPONSORING", "EXPIRED", "SPONSORING_FAILED"},
       SPONSORING        |-> {"SUBMITTED", "SPONSORING_FAILED", "EXPIRED", "RESERVED"},
       SUBMITTED         |-> {"CONFIRMED", "SUBMISSION_FAILED", "TIMEOUT", "EXPIRED"},
       TIMEOUT           |-> {"CONFIRMED", "SUBMISSION_FAILED", "UNKNOWN", "EXPIRED"},
       UNKNOWN           |-> {"CONFIRMED", "SUBMISSION_FAILED", "EXPIRED"},
       REJECTED          |-> {},
       CONFIRMED         |-> {},
       SPONSORING_FAILED |-> {},
       SUBMISSION_FAILED |-> {},
       EXPIRED           |-> {} ]

RequestStatus == DOMAIN T

CanTransition(from, to) == to \in T[from]

TERMINAL == {"REJECTED", "CONFIRMED", "SPONSORING_FAILED", "SUBMISSION_FAILED", "EXPIRED"}

HOLDS_RESERVATION == {"RESERVED", "SPONSORING", "SUBMITTED", "TIMEOUT", "UNKNOWN"}

\* The statuses a row has only once its merged bytes are persisted and may
\* have been handed to the node.
PossiblySubmitted == {"SUBMITTED", "TIMEOUT", "UNKNOWN"}

\* publicStatus: what a client is told.
PublicStatus(s) ==
  CASE s = "RECEIVED"                -> "pending"
    [] s \in {"RESERVED", "SPONSORING"} -> "approved"
    [] s \in {"SUBMITTED", "TIMEOUT"}   -> "submitted"
    [] s = "CONFIRMED"               -> "confirmed"
    [] s = "REJECTED"                -> "rejected"
    [] s \in {"SPONSORING_FAILED", "SUBMISSION_FAILED", "EXPIRED"} -> "failed"
    [] s = "UNKNOWN"                 -> "unknown"

=============================================================================
