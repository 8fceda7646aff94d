----------------------------- MODULE KeysetPages -----------------------------
(***************************************************************************)
(* The keyset pagination every list of the gateway uses: the rows beyond   *)
(* the cursor in the list's order, one more than the page holds to learn   *)
(* whether another page follows, and the key of the last row kept as the   *)
(* next cursor.                                                            *)
(*                                                                         *)
(* A cursor is a set of at most one key: none on the first page, none when *)
(* no page follows, and none in place of one that does not decode.         *)
(***************************************************************************)
EXTENDS Integers, Sequences, FiniteSets, SequencesExt

NoCursor == {}

\* ORDER BY: points are listed oldest first, the others newest first; of the
\* rows of one moment the attempts have the largest identifier first.
Precedes(list, r, s) ==
  LET older == list \in {"points", "trip_points"} IN
  \/ IF older THEN r.at < s.at ELSE r.at > s.at
  \/ r.at = s.at /\ (IF list = "attempts" THEN r.id > s.id ELSE r.id < s.id)

\* The members of a finite set in an order that is total: each at its rank.
Sorted(S, before(_, _)) ==
  [i \in 1 .. Cardinality(S) |->
     CHOOSE r \in S : Cardinality({s \in S : before(s, r)}) = i - 1]

\* The rows of S after the cursor, in the list's order.
Rest(S, list, cursor) ==
  Sorted({r \in S : \A c \in cursor : Precedes(list, c, r)}, LAMBDA r, s : Precedes(list, r, s))

Page(S, list, cursor, limit) ==
  LET rest == Rest(S, list, cursor) IN SubSeq(rest, 1, Min({limit, Len(rest)}))

\* Faulty variant: the cursor is the key of the extra row that was read.
CursorOfExtra(S, list, cursor, limit) ==
  LET rest == Rest(S, list, cursor) IN
  IF Len(rest) > limit THEN {rest[limit + 1]} ELSE NoCursor

NextCursor(S, list, cursor, limit) ==
  LET rest == Rest(S, list, cursor) IN
  IF Len(rest) > limit THEN {rest[limit]} ELSE NoCursor

\* A limit that is absent, zero or negative is the default, a large one the most.
Limited(limit, default, most) ==
  IF limit <= 0 THEN default ELSE IF limit > most THEN most ELSE limit
=============================================================================
