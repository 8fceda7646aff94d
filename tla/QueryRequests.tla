---------------------------- MODULE QueryRequests ----------------------------
(***************************************************************************)
(* What the gateway's queries of the points tables have in common: the     *)
(* range and the device of a request, and when it is refused.              *)
(*                                                                         *)
(* A request is a record of its parameters.  A time that is absent or does *)
(* not parse is 0, a number that is absent is Absent, one that does not    *)
(* parse is Junk.                                                          *)
(***************************************************************************)
EXTENDS Integers

CONSTANT MaxRange       \* maxRangeDays (31), in seconds

AnyDevice == "any"      \* device_id is not given
Absent == -1
Junk == -2

OfDevice(fix, q) == q.device \in {AnyDevice, fix.device}

InRange(at, q) == q.from <= at /\ at <= q.to

\* parseDateRange and validateRange: whether they find an error.
RangeIsInvalid(q) ==
  \/ q.from = 0 \/ q.to = 0
  \/ q.from >= q.to
  \/ q.to - q.from > MaxRange

\* The status of an authenticated request.
Status(q, invalid) == IF RangeIsInvalid(q) \/ invalid THEN 400 ELSE 200
=============================================================================
