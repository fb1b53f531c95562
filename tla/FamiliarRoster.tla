---------------------------- MODULE FamiliarRoster ----------------------------
(***************************************************************************)
(* Reading the daemon's familiar roster (remote.rs): rows are taken one    *)
(* at a time from a body nobody has measured, checked, normalised, kept    *)
(* under their id without case, and the first fault is remembered while    *)
(* the rest is still read.                                                 *)
(***************************************************************************)
EXTENDS Naturals, Sequences

CONSTANTS
    Names,          \* ids as the daemon writes them
    Folded,         \* each of them under trim().to_lowercase()
    RosterLimit,    \* MAX_FAMILIAR_ROSTER_ENTRIES
    MaxRows         \* rows of a body

ASSUME RosterAssumption == /\ {RosterLimit, MaxRows} \subseteq Nat
                           /\ DOMAIN Folded = Names

VARIABLES
    body,       \* the rows, and whether something follows the array
    read,       \* rows deserialized
    kept,       \* `familiars`
    seen,       \* seen_ids
    fault,      \* first_validation_error, NoFault for none
    roster      \* the answer

rosterVars == <<body, read, kept, seen, fault, roster>>

(* A row: its id, and what normalize() finds of the sizes of its fields: a *)
(* field over its limit, a blank id, or a value that is no familiar.       *)
Shapes == {"fits", "too long", "blank id", "not a familiar"}
Row == [id : Names, shape : Shapes]

NoFault == [what |-> "none", row |-> 0]
Fault(what, i) == [what |-> what, row |-> i]
Idle    == [ok |-> FALSE, fault |-> Fault("idle", 0), familiars |-> <<>>]
Pending == [ok |-> FALSE, fault |-> NoFault, familiars |-> <<>>]
Failed(f) == [ok |-> FALSE, fault |-> f, familiars |-> <<>>]
Decoded(fs) == [ok |-> TRUE, fault |-> NoFault, familiars |-> fs]

Bodies == [rows : UNION {[1..n -> Row] : n \in 0..MaxRows}, trailing : BOOLEAN]
NoBody == [rows |-> <<>>, trailing |-> FALSE]

RosterTypeOK ==
    /\ body \in Bodies /\ read \in 0..RosterLimit
    /\ kept \in Seq(Names) /\ seen \subseteq {Folded[n] : n \in Names}
    /\ fault.row \in 0..MaxRows /\ roster.familiars \in Seq(Names)

RosterInit ==
    /\ body = NoBody /\ roster = Idle
    /\ read = 0 /\ kept = <<>> /\ seen = {} /\ fault = NoFault

(* familiars(): the daemon has answered.                                   *)
Receive(b) ==
    /\ roster = Idle /\ roster' = Pending /\ body' = b
    /\ UNCHANGED <<read, kept, seen, fault>>

(* DaemonFamiliar::normalize: the sizes are checked before the blank id.   *)
RowFault(r, i) ==
    IF r.shape \in {"too long", "blank id"} THEN Fault(r.shape, i) ELSE NoFault

(* Mutant: the last fault is reported.                                     *)
RememberLast(f) == fault' = f
Remember(f) == fault' = IF fault = NoFault THEN f ELSE fault

(* Mutant: one row too many.                                               *)
HasRoomLate == read <= RosterLimit
HasRoom == read < RosterLimit

(* One pass of visit_seq's loop.                                           *)
TakeRow ==
    /\ roster = Pending /\ HasRoom /\ read < Len(body.rows)
    /\ LET i == read + 1
           r == body.rows[i]
           f == RowFault(r, i)
       IN IF r.shape = "not a familiar"
          THEN /\ roster' = Failed(Fault("shape", i))
               /\ UNCHANGED <<read, kept, seen, fault>>
          ELSE /\ read' = i
               /\ UNCHANGED roster
               /\ IF f # NoFault
                  THEN Remember(f) /\ UNCHANGED <<kept, seen>>
                  ELSE IF Folded[r.id] \in seen
                  THEN Remember(Fault("duplicate", i)) /\ UNCHANGED <<kept, seen>>
                  ELSE /\ kept' = Append(kept, r.id)
                       /\ seen' = seen \union {Folded[r.id]}
                       /\ UNCHANGED fault
    /\ UNCHANGED body

(* RejectExtraFamiliar: one row more than the limit is an error, unread.   *)
LimitReached == read < Len(body.rows)

(* The array is at its end, or the limit is reached and one row more is    *)
(* refused unread; nothing may follow the array.                           *)
EndRoster ==
    /\ roster = Pending /\ (read = RosterLimit \/ read = Len(body.rows))
    /\ roster' = IF LimitReached THEN Failed(Fault("limit", 0))
                 ELSE IF fault # NoFault THEN Failed(fault)
                 ELSE IF body.trailing THEN Failed(Fault("trailing", 0))
                 ELSE Decoded(kept)
    /\ UNCHANGED <<body, read, kept, seen, fault>>

RosterNext == TakeRow \/ EndRoster \/ \E b \in Bodies : Receive(b)
RosterSpec == RosterInit /\ [][RosterNext]_rosterVars

(* What a roster is, said without the loop: a body within the limit whose  *)
(* rows are all familiars that fit, no two of them one id, and nothing     *)
(* after; otherwise an error, and never part of a roster.                  *)
GoodRoster(b) ==
    /\ Len(b.rows) <= RosterLimit /\ ~b.trailing
    /\ \A i \in DOMAIN b.rows : b.rows[i].shape = "fits"
    /\ \A i, j \in DOMAIN b.rows : Folded[b.rows[i].id] = Folded[b.rows[j].id] => i = j

(* The roster the pickers show is the daemon's, whole and in its order, or *)
(* an error; memory stays within the limit whatever is sent; and a fault   *)
(* that is reported is the first of the rows up to it.                     *)
RosterExact ==
    /\ roster \notin {Idle, Pending} =>
          /\ roster.ok <=> GoodRoster(body)
          /\ roster.ok => roster.familiars = [i \in DOMAIN body.rows |-> body.rows[i].id]
          /\ roster.fault.what \in {"too long", "blank id"} =>
                \A j \in 1..(roster.fault.row - 1) : body.rows[j].shape = "fits"
    /\ Len(kept) <= RosterLimit
=============================================================================
