----------------------------- MODULE Remote_proofs -----------------------------
(***************************************************************************)
(* What the clients of daemon and provider make of their answers.  The     *)
(* roster that is decoded is the daemon's, whole and in its order, and     *)
(* every other body is an error, for any names, limit and number of rows.  *)
(* The argument: while no fault is remembered, everything read so far is   *)
(* kept in its order and no two of it share an id; a remembered fault is   *)
(* the first one and stays one of the body, whatever is read after it.     *)
(*                                                                         *)
(* The rows of an attached session are the ledger's, in order and each     *)
(* once, for any page size, ledger, number of appearances, failures and    *)
(* short answers, as long as no cancelled task's answer comes in while a   *)
(* later one polls.  The argument: until then only the latest task moves   *)
(* the cursor, so what it asked for begins where the rows end.             *)
(*                                                                         *)
(* A gate that is answered ready found the pairing it checked in Keychain  *)
(* and model, for any addresses, calls, pairings, restarts, lost writes    *)
(* and lost deletes of the Keychain.  The argument: a check ends ready     *)
(* only with a pairing, and is compared with both when its caller takes    *)
(* the answer.                                                             *)
(*                                                                         *)
(* A sign-out from the provider holds, for any number of sign-ins,         *)
(* restarts and failures.  The argument: whoever may still store tokens    *)
(* owns the one slot, and while a sign-in that is signed out owns it, the  *)
(* removal is on record; everybody who may strike it off the record owns   *)
(* the slot himself, or has found it free.                                 *)
(***************************************************************************)
EXTENDS FamiliarRoster, RemoteAttach, CompanionGate, Authentication, TLAPS

-----------------------------------------------------------------------------
(* The familiar roster                                                      *)

BodyRows == body.rows
Faults == {"too long", "blank id", "duplicate"}

FitUpTo(n) == \A i \in 1..n : BodyRows[i].shape = "fits"

(* No fault so far: what was read is kept, in order, no id twice.          *)
WholeSoFar ==
    fault = NoFault =>
       /\ FitUpTo(read)
       /\ kept = [i \in 1..read |-> BodyRows[i].id]
       /\ seen = {Folded[BodyRows[i].id] : i \in 1..read}
       /\ \A i, j \in 1..read : Folded[BodyRows[i].id] = Folded[BodyRows[j].id] => i = j

(* A remembered fault is one of the body, and the first of its rows.       *)
FirstFault ==
    fault # NoFault =>
       /\ fault.what \in Faults /\ fault.row \in 1..read
       /\ FitUpTo(fault.row - 1)
       /\ \/ BodyRows[fault.row].shape # "fits"
          \/ \E j \in 1..(fault.row - 1) :
                Folded[BodyRows[j].id] = Folded[BodyRows[fault.row].id]

RosterInv ==
    /\ RosterTypeOK /\ RosterExact
    /\ read <= Len(BodyRows) /\ Len(kept) <= read
    /\ WholeSoFar /\ FirstFault
    /\ roster = Idle => read = 0 /\ kept = <<>> /\ seen = {} /\ fault = NoFault

LEMMA BodyIsSequence ==
    ASSUME NEW b \in Bodies
    PROVE  /\ b.rows \in Seq(Row) /\ Len(b.rows) \in 0..MaxRows
           /\ DOMAIN b.rows = 1..Len(b.rows)
<1>1. PICK n \in 0..MaxRows : b.rows \in [1..n -> Row]
  BY DEF Bodies
<1>2. n \in Nat
  BY RosterAssumption
<1> QED BY <1>1, <1>2

LEMMA NotAnswered ==
    Idle # Pending /\ NoFault.what = "none" /\ Failed(NoFault).familiars \in Seq(Names)
BY DEF Failed, Idle, Pending, Fault, NoFault

LEMMA InitRoster == RosterInit => RosterInv
<1> SUFFICES ASSUME RosterInit PROVE RosterInv
  OBVIOUS
<1>1. NoBody \in Bodies /\ Len(NoBody.rows) = 0 /\ 0 \in 0..RosterLimit /\ 0 \in 0..MaxRows
  <2>1. <<>> \in [1..0 -> Row]
    OBVIOUS
  <2> QED BY <2>1, RosterAssumption DEF NoBody, Bodies
<1>2. RosterTypeOK
  BY <1>1 DEF RosterInit, RosterTypeOK, Idle, NoFault
<1>3. RosterExact
  BY RosterAssumption DEF RosterInit, RosterExact
<1>4. WholeSoFar /\ FirstFault
  BY DEF RosterInit, WholeSoFar, FirstFault, FitUpTo
<1> QED BY <1>1, <1>2, <1>3, <1>4 DEF RosterInit, RosterInv, BodyRows

LEMMA ReceiveKeeps == ASSUME RosterInv, NEW b \in Bodies, Receive(b) PROVE RosterInv'
<1>1. /\ read = 0 /\ kept = <<>> /\ seen = {} /\ fault = NoFault
      /\ UNCHANGED <<read, kept, seen, fault>> /\ body' = b /\ roster' = Pending
  BY DEF Receive, RosterInv
<1>2. Len(b.rows) \in Nat /\ Len(kept') = 0
  BY <1>1, BodyIsSequence, RosterAssumption
<1>3. RosterTypeOK'
  BY <1>1 DEF RosterInv, RosterTypeOK, Pending
<1>4. RosterExact'
  BY <1>1, <1>2, RosterAssumption DEF RosterExact
<1>5. WholeSoFar' /\ FirstFault'
  BY <1>1 DEF WholeSoFar, FirstFault, FitUpTo
<1> QED BY <1>1, <1>2, <1>3, <1>4, <1>5, NotAnswered DEF RosterInv, BodyRows

(* An answer leaves what was read as it is.                                *)
LEMMA AnswerKeeps ==
    ASSUME RosterInv, UNCHANGED <<body, read, kept, seen, fault>>, roster' # Idle,
           roster'.familiars \in Seq(Names), RosterExact'
    PROVE  RosterInv'
<1>1. RosterTypeOK'
  BY DEF RosterInv, RosterTypeOK
<1>2. WholeSoFar' /\ FirstFault'
  <2>1. BodyRows' = BodyRows
    BY DEF BodyRows
  <2> QED BY <2>1 DEF RosterInv, WholeSoFar, FirstFault, FitUpTo
<1>3. read' <= Len(BodyRows') /\ Len(kept') <= read'
  BY DEF RosterInv, BodyRows
<1> QED BY <1>1, <1>2, <1>3 DEF RosterInv

(* What TakeRow finds.                                                     *)
LEMMA RowTaken ==
    ASSUME RosterInv, TakeRow
    PROVE  /\ roster = Pending /\ body' = body
           /\ BodyRows \in Seq(Row) /\ Len(BodyRows) \in 0..MaxRows /\ DOMAIN BodyRows = 1..Len(BodyRows)
           /\ read \in Nat /\ read + 1 \in 0..RosterLimit /\ read + 1 \in 0..MaxRows
           /\ read + 1 \in 1..Len(BodyRows) /\ 1..(read + 1) = 1..read \union {read + 1}
           /\ BodyRows[read + 1] \in Row
<1>1. body \in Bodies /\ read \in 0..RosterLimit
  BY DEF RosterInv, RosterTypeOK
<1>2. BodyRows \in Seq(Row) /\ Len(BodyRows) \in 0..MaxRows /\ DOMAIN BodyRows = 1..Len(BodyRows)
  BY <1>1, BodyIsSequence DEF BodyRows
<1>3. roster = Pending /\ body' = body /\ read < RosterLimit /\ read < Len(BodyRows)
  BY DEF TakeRow, HasRoom, BodyRows
<1>4. read + 1 \in 1..Len(BodyRows)
  BY <1>1, <1>2, <1>3, RosterAssumption
<1>5. BodyRows[read + 1] \in Row
  BY <1>2, <1>4
<1> QED BY <1>1, <1>2, <1>3, <1>4, <1>5, RosterAssumption

(* A faulty row is read and not kept.                                      *)
LEMMA FaultyRow ==
    ASSUME RosterInv, TakeRow, NEW f, Remember(f), f.what \in Faults, f.row = read + 1,
           fault = NoFault =>
              \/ BodyRows[read + 1].shape # "fits"
              \/ \E j \in 1..read : Folded[BodyRows[j].id] = Folded[BodyRows[read + 1].id],
           read' = read + 1, UNCHANGED <<roster, kept, seen>>
    PROVE  RosterInv'
<1>1. /\ roster = Pending /\ body' = body /\ BodyRows' = BodyRows
      /\ Len(BodyRows) \in Nat /\ read \in Nat
      /\ read + 1 \in 0..RosterLimit /\ read + 1 \in 0..MaxRows
      /\ read + 1 \in 1..Len(BodyRows) /\ read + 1 \in 1..(read + 1) /\ read + 1 - 1 = read
  BY RowTaken DEF BodyRows
<1>2. Len(kept) \in Nat /\ Len(kept) <= read
  BY DEF RosterInv, RosterTypeOK
<1>3. fault' # NoFault
  <2>1. f # NoFault
    BY NotAnswered DEF Faults
  <2> QED BY <2>1 DEF Remember
<1>4. WholeSoFar'
  BY <1>3 DEF WholeSoFar
<1>5. FirstFault'
  <2>1. CASE fault = NoFault
    <3>1. fault' = f /\ FitUpTo(read)
      BY <2>1 DEF Remember, RosterInv, WholeSoFar
    <3> QED BY <1>1, <2>1, <3>1 DEF FirstFault, FitUpTo
  <2>2. CASE fault # NoFault
    <3>1. fault' = fault
      BY <2>2 DEF Remember
    <3>2. fault.row \in 1..read'
      BY <1>1, <2>2 DEF RosterInv, FirstFault
    <3> QED BY <1>1, <2>2, <3>1, <3>2 DEF RosterInv, FirstFault, FitUpTo
  <2> QED BY <2>1, <2>2
<1>6. fault'.row \in 0..MaxRows
  BY <1>1 DEF Remember, RosterInv, RosterTypeOK
<1>7. RosterTypeOK'
  BY <1>1, <1>6 DEF RosterInv, RosterTypeOK
<1>8. RosterExact'
  BY <1>1 DEF RosterInv, RosterExact
<1> QED BY <1>1, <1>2, <1>4, <1>5, <1>7, <1>8, NotAnswered DEF RosterInv

(* A row that fits is kept, behind the others.                             *)
LEMMA GoodRow ==
    ASSUME RosterInv, TakeRow, BodyRows[read + 1].shape = "fits",
           Folded[BodyRows[read + 1].id] \notin seen,
           read' = read + 1, kept' = Append(kept, BodyRows[read + 1].id),
           seen' = seen \union {Folded[BodyRows[read + 1].id]}, UNCHANGED <<roster, fault>>
    PROVE  RosterInv'
<1>1. /\ roster = Pending /\ body' = body /\ BodyRows' = BodyRows
      /\ Len(BodyRows) \in Nat /\ read \in Nat
      /\ read + 1 \in 0..RosterLimit /\ read + 1 \in 0..MaxRows
      /\ read + 1 \in 1..Len(BodyRows) /\ 1..(read + 1) = 1..read \union {read + 1}
      /\ BodyRows[read + 1].id \in Names
  BY RowTaken DEF BodyRows, Row
<1>2. kept \in Seq(Names) /\ Len(kept) \in Nat /\ Len(kept) <= read
  BY DEF RosterInv, RosterTypeOK
<1>3. kept' \in Seq(Names) /\ Len(kept') = Len(kept) + 1 /\ Len(kept') <= read'
  BY <1>1, <1>2
<1>4. WholeSoFar'
  <2> SUFFICES ASSUME fault = NoFault PROVE WholeSoFar'
    BY DEF WholeSoFar
  <2>1. /\ FitUpTo(read)
        /\ kept = [i \in 1..read |-> BodyRows[i].id]
        /\ seen = {Folded[BodyRows[i].id] : i \in 1..read}
        /\ \A i, j \in 1..read : Folded[BodyRows[i].id] = Folded[BodyRows[j].id] => i = j
    BY DEF RosterInv, WholeSoFar
  <2>2. FitUpTo(read + 1)
    BY <1>1, <2>1 DEF FitUpTo
  <2>3. kept' = [i \in 1..(read + 1) |-> BodyRows[i].id]
    <3>1. Len(kept) = read
      BY <1>1, <1>2, <2>1
    <3> QED BY <1>1, <1>2, <2>1, <3>1
  <2>4. seen' = {Folded[BodyRows[i].id] : i \in 1..(read + 1)}
    BY <1>1, <2>1
  <2>5. ASSUME NEW i \in 1..(read + 1), NEW j \in 1..(read + 1),
               Folded[BodyRows[i].id] = Folded[BodyRows[j].id]
        PROVE  i = j
    BY <1>1, <2>1, <2>5
  <2> QED BY <1>1, <2>2, <2>3, <2>4, <2>5 DEF WholeSoFar, FitUpTo
<1>5. FirstFault'
  <2> SUFFICES ASSUME fault # NoFault PROVE FirstFault'
    BY DEF FirstFault
  <2>1. fault.row \in 1..read'
    BY <1>1 DEF RosterInv, FirstFault
  <2> QED BY <1>1, <2>1 DEF RosterInv, FirstFault, FitUpTo
<1>6. seen' \subseteq {Folded[n] : n \in Names}
  BY <1>1 DEF RosterInv, RosterTypeOK
<1>7. RosterTypeOK'
  BY <1>1, <1>3, <1>6 DEF RosterInv, RosterTypeOK
<1>8. Len(kept') <= RosterLimit
  BY <1>1, <1>3, RosterAssumption
<1>9. RosterExact'
  BY <1>1, <1>8 DEF RosterExact
<1> QED BY <1>1, <1>3, <1>4, <1>5, <1>7, <1>9, NotAnswered DEF RosterInv

(* A value that is no familiar ends the decoding with an error.            *)
LEMMA NoFamiliar ==
    ASSUME RosterInv, TakeRow, BodyRows[read + 1].shape = "not a familiar",
           roster' = Failed(Fault("shape", read + 1)),
           UNCHANGED <<read, kept, seen, fault>>
    PROVE  RosterInv'
<1>1. /\ body' = body /\ BodyRows' = BodyRows
      /\ read + 1 \in 1..Len(BodyRows) /\ DOMAIN BodyRows = 1..Len(BodyRows)
  BY RowTaken DEF BodyRows
<1>2. ~GoodRoster(body)
  BY <1>1 DEF GoodRoster, BodyRows
<1>3. /\ ~roster'.ok /\ roster'.fault.what = "shape" /\ roster'.familiars = <<>>
      /\ roster' # Idle
  BY DEF Failed, Fault, Idle
<1>4. RosterExact'
  BY <1>1, <1>2, <1>3 DEF RosterExact, GoodRoster, RosterInv
<1>5. roster'.familiars \in Seq(Names)
  <2>1. Failed(NoFault).familiars \in Seq(Names)
    BY NotAnswered
  <2>2. Failed(NoFault).familiars = <<>>
    BY DEF Failed
  <2> QED BY <1>3, <2>1, <2>2
<1> QED BY <1>1, <1>3, <1>4, <1>5, AnswerKeeps

LEMMA TakeRowKeeps == ASSUME RosterInv, TakeRow PROVE RosterInv'
<1> DEFINE i == read + 1
           r == BodyRows[i]
<1>1. CASE r.shape = "not a familiar"
  BY <1>1, NoFamiliar DEF TakeRow, BodyRows
<1>2. CASE r.shape # "not a familiar" /\ RowFault(r, i) # NoFault
  <2>1. Remember(RowFault(r, i)) /\ read' = i /\ UNCHANGED <<roster, kept, seen>>
    BY <1>2 DEF TakeRow, BodyRows
  <2>2. RowFault(r, i).what \in Faults /\ RowFault(r, i).row = i /\ r.shape # "fits"
    BY <1>2 DEF RowFault, Fault, NoFault, Faults
  <2> QED BY <2>1, <2>2, FaultyRow
<1>3. CASE /\ r.shape # "not a familiar" /\ RowFault(r, i) = NoFault
           /\ Folded[r.id] \in seen
  <2>1. Remember(Fault("duplicate", i)) /\ read' = i /\ UNCHANGED <<roster, kept, seen>>
    BY <1>3 DEF TakeRow, BodyRows
  <2>2. fault = NoFault => \E j \in 1..read : Folded[BodyRows[j].id] = Folded[r.id]
    <3>1. fault = NoFault => Folded[r.id] \in {Folded[BodyRows[j].id] : j \in 1..read}
      BY <1>3 DEF RosterInv, WholeSoFar
    <3> QED BY <3>1
  <2>3. Fault("duplicate", i).what \in Faults /\ Fault("duplicate", i).row = i
    BY DEF Fault, Faults
  <2> QED BY <2>1, <2>2, <2>3, FaultyRow
<1>4. CASE /\ r.shape # "not a familiar" /\ RowFault(r, i) = NoFault
           /\ Folded[r.id] \notin seen
  <2>1. r.shape = "fits"
    BY <1>4, RowTaken DEF RowFault, Fault, NoFault, Row, Shapes
  <2>2. /\ read' = i /\ kept' = Append(kept, r.id)
        /\ seen' = seen \union {Folded[r.id]} /\ UNCHANGED <<roster, fault>>
    BY <1>4 DEF TakeRow, BodyRows
  <2> QED BY <1>4, <2>1, <2>2, GoodRow
<1> QED BY <1>1, <1>2, <1>3, <1>4

(* At the end the answer is the whole roster, or the first fault.          *)
LEMMA EndRosterKeeps == ASSUME RosterInv, EndRoster PROVE RosterInv'
<1>1. /\ body' = body /\ BodyRows' = BodyRows /\ UNCHANGED <<read, kept, seen, fault>>
      /\ Len(BodyRows) \in Nat /\ read \in Nat /\ DOMAIN BodyRows = 1..Len(BodyRows)
      /\ read <= Len(BodyRows) /\ (read = RosterLimit \/ read = Len(BodyRows))
      /\ read <= RosterLimit /\ RosterLimit \in Nat /\ kept \in Seq(Names)
  BY BodyIsSequence, RosterAssumption DEF EndRoster, BodyRows, RosterInv, RosterTypeOK
<1>2. CASE LimitReached
  <2>1. roster' = Failed(Fault("limit", 0))
    BY <1>2 DEF EndRoster
  <2>2. /\ ~roster'.ok /\ roster'.fault.what = "limit" /\ roster'.familiars = <<>>
        /\ roster' # Idle
    BY <2>1 DEF Failed, Fault, Idle
  <2>3. ~GoodRoster(body)
    BY <1>1, <1>2 DEF GoodRoster, LimitReached, BodyRows
  <2>4. RosterExact'
    BY <1>1, <2>2, <2>3 DEF RosterInv, RosterExact, GoodRoster
  <2>5. roster'.familiars \in Seq(Names)
    BY <2>2
  <2> QED BY <1>1, <2>2, <2>4, <2>5, AnswerKeeps
<1>3. CASE ~LimitReached /\ fault # NoFault
  <2>1. roster' = Failed(fault)
    BY <1>3 DEF EndRoster
  <2>2. /\ ~roster'.ok /\ roster'.fault = fault /\ roster'.familiars = <<>>
    BY <2>1 DEF Failed
  <2>3. /\ fault.what \in Faults /\ fault.row \in 1..read /\ FitUpTo(fault.row - 1)
        /\ \/ BodyRows[fault.row].shape # "fits"
           \/ \E j \in 1..(fault.row - 1) :
                 Folded[BodyRows[j].id] = Folded[BodyRows[fault.row].id]
    BY <1>3 DEF RosterInv, FirstFault
  <2>4. ~GoodRoster(body)
    <3>1. PICK n \in 1..read : fault.row = n
      BY <2>3
    <3>2. n \in DOMAIN BodyRows /\ 1..(n - 1) \subseteq DOMAIN BodyRows /\ n \in Nat
      <4>1. n \in 1..read
        BY <3>1
      <4>2. read \in Nat /\ read <= Len(BodyRows) /\ Len(BodyRows) \in Nat
        BY <1>1
      <4>3. n \in 1..Len(BodyRows) /\ 1..(n - 1) \subseteq 1..Len(BodyRows) /\ n \in Nat
        BY <4>1, <4>2
      <4> QED BY <1>1, <4>3
    <3>3. CASE BodyRows[n].shape # "fits"
      BY <3>2, <3>3 DEF GoodRoster, BodyRows
    <3>4. ASSUME NEW j \in 1..(n - 1), Folded[BodyRows[j].id] = Folded[BodyRows[n].id]
          PROVE  ~GoodRoster(body)
      <4>1. j # n
        BY <3>2
      <4> QED BY <3>2, <3>4, <4>1 DEF GoodRoster, BodyRows
    <3> QED BY <2>3, <3>1, <3>3, <3>4
  <2>5. roster' # Idle
    <3>1. Idle.fault.what = "idle"
      BY DEF Idle, Fault
    <3> QED BY <2>2, <2>3, <3>1 DEF Faults
  <2>6. RosterExact'
    BY <1>1, <2>2, <2>3, <2>4 DEF RosterInv, RosterExact, GoodRoster, FitUpTo, BodyRows
  <2>7. roster'.familiars \in Seq(Names)
    BY <2>2
  <2> QED BY <1>1, <2>5, <2>6, <2>7, AnswerKeeps
<1>4. CASE ~LimitReached /\ fault = NoFault /\ body.trailing
  <2>1. roster' = Failed(Fault("trailing", 0))
    BY <1>4 DEF EndRoster
  <2>2. /\ ~roster'.ok /\ roster'.fault.what = "trailing" /\ roster'.familiars = <<>>
        /\ roster' # Idle
    BY <2>1 DEF Failed, Fault, Idle
  <2>3. ~GoodRoster(body)
    BY <1>4 DEF GoodRoster
  <2>4. RosterExact'
    BY <1>1, <2>2, <2>3 DEF RosterInv, RosterExact, GoodRoster
  <2>5. roster'.familiars \in Seq(Names)
    BY <2>2
  <2> QED BY <1>1, <2>2, <2>4, <2>5, AnswerKeeps
<1>5. CASE ~LimitReached /\ fault = NoFault /\ ~body.trailing
  <2>1. roster' = Decoded(kept)
    BY <1>5 DEF EndRoster
  <2>2. /\ roster'.ok /\ roster'.fault = NoFault /\ roster'.familiars = kept
        /\ roster' # Idle
    BY <2>1 DEF Decoded, Idle, Fault, NoFault
  <2>3. read = Len(BodyRows)
    BY <1>1, <1>5 DEF LimitReached, BodyRows
  <2>4. /\ FitUpTo(read) /\ kept = [i \in DOMAIN BodyRows |-> BodyRows[i].id]
        /\ \A i, j \in DOMAIN BodyRows : Folded[BodyRows[i].id] = Folded[BodyRows[j].id] => i = j
    BY <1>1, <1>5, <2>3 DEF RosterInv, WholeSoFar
  <2>5. GoodRoster(body)
    BY <1>1, <1>5, <2>3, <2>4 DEF GoodRoster, FitUpTo, BodyRows
  <2>6. RosterExact'
    BY <1>1, <2>2, <2>4, <2>5, NotAnswered
       DEF RosterInv, RosterExact, GoodRoster, BodyRows
  <2> QED BY <1>1, <2>2, <2>6, AnswerKeeps
<1> QED BY <1>2, <1>3, <1>4, <1>5

(* Every step of the decoding keeps the invariant.                         *)
LEMMA RosterStep == ASSUME RosterInv, [RosterNext]_rosterVars PROVE RosterInv'
<1>1. CASE UNCHANGED rosterVars
  <2>1. /\ RosterTypeOK' /\ RosterExact'
        /\ UNCHANGED <<BodyRows, roster, read, kept, seen, fault>>
    BY <1>1 DEF rosterVars, RosterInv, RosterTypeOK, RosterExact, GoodRoster, BodyRows
  <2> QED BY <2>1 DEF RosterInv, WholeSoFar, FirstFault, FitUpTo
<1> QED BY <1>1, ReceiveKeeps, TakeRowKeeps, EndRosterKeeps DEF RosterNext

(* The inductive invariant, of which the rest are parts.                   *)
THEOREM RosterInvariant == RosterSpec => []RosterInv
BY InitRoster, RosterStep, PTL DEF RosterSpec

(* Every variable of the decoder keeps its type.                           *)
THEOREM RosterTypeCorrect == RosterSpec => []RosterTypeOK
<1>1. RosterInv => RosterTypeOK
  BY DEF RosterInv
<1> QED BY <1>1, RosterInvariant, PTL

(* The familiars decoded from an answer are all of its rows in order, each *)
(* fit and no id twice, or the answer is an error that names its first     *)
(* fault; whatever is sent, no more than the limit is kept of it.          *)
THEOREM RosterIsExact == RosterSpec => []RosterExact
<1>1. RosterInv => RosterExact
  BY DEF RosterInv
<1> QED BY <1>1, RosterInvariant, PTL

-----------------------------------------------------------------------------
(* The attached session                                                     *)

Polls(v) == poll[v] = "fetching"
Latest(v) == \A u \in Views : u > v => poll[u] = "off"

(* The cursors that were sent and the pages that were made of them.        *)
PagesMatch ==
    \A v \in Views :
       /\ after[v] <= ledger
       /\ page[v] # NoPage =>
             /\ page[v].from = after[v] + 1 /\ page[v].next = page[v].to
             /\ after[v] <= page[v].to /\ page[v].to <= ledger

(* The latest task asked for what follows the rows.                        *)
CursorSent ==
    ~crossed => \A v \in Views : Polls(v) /\ Latest(v) => after[v] = cursor

AttachInv ==
    /\ AttachTypeOK /\ events \in Seq(Nat) /\ cursor <= ledger
    /\ PagesMatch /\ CursorSent /\ EventsInOrder

LEMMA NoPageTyped ==
    NoPage \in [from : 0..MaxEvents + 1, to : 0..MaxEvents, next : 0..MaxEvents,
                more : BOOLEAN]
BY AttachAssumption DEF NoPage

(* What the daemon makes of a request.                                     *)
LEMMA PageMade ==
    ASSUME NEW a \in 0..MaxEvents, ledger \in 0..MaxEvents, a <= ledger,
           NEW to \in a..LastOfPage(a), NEW named \in BOOLEAN, NEW more \in BOOLEAN
    PROVE  /\ Page(a, to, named, more) \in [from : 0..MaxEvents + 1, to : 0..MaxEvents,
                                            next : 0..MaxEvents, more : BOOLEAN]
           /\ Page(a, to, named, more).from = a + 1 /\ Page(a, to, named, more).to = to
           /\ Page(a, to, named, more).next = to /\ a <= to /\ to <= ledger
<1>1. LastOfPage(a) \in Nat /\ LastOfPage(a) <= ledger
  BY AttachAssumption DEF LastOfPage
<1>2. to \in 0..MaxEvents /\ a <= to /\ to <= ledger /\ a + 1 \in 0..MaxEvents + 1
  BY <1>1, AttachAssumption
<1>3. NextAfterSeq(a, to, named) = to
  BY <1>2 DEF NextAfterSeq
<1>4. Page(a, to, named, more) = [from |-> a + 1, to |-> to, next |-> to, more |-> more]
  BY <1>3 DEF Page
<1> QED BY <1>2, <1>4

LEMMA InitAttach == AttachInit => AttachInv
<1> SUFFICES ASSUME AttachInit PROVE AttachInv
  OBVIOUS
<1>1. 0 \in 0..MaxEvents /\ 0 \in 0..MaxInputs /\ 0 \in 0..MaxLost
  BY AttachAssumption
<1>2. AttachTypeOK
  <2>1. \A i \in DOMAIN events : events[i] \in 1..MaxEvents
    BY DEF AttachInit
  <2>2. {finished, paired, crossed} \subseteq BOOLEAN
    BY DEF AttachInit
  <2>3. /\ poll \in [Views -> PollStages] /\ cancelled \subseteq Views
        /\ input \in {"none", "gating", "sending"}
    BY DEF AttachInit, PollStages
  <2>4. /\ page \in [Views -> [from : 0..MaxEvents + 1, to : 0..MaxEvents,
                               next : 0..MaxEvents, more : BOOLEAN]]
        /\ after \in [Views -> 0..MaxEvents]
    BY <1>1, NoPageTyped DEF AttachInit
  <2> QED BY <1>1, <2>1, <2>2, <2>3, <2>4 DEF AttachInit, AttachTypeOK
<1>3. PagesMatch /\ CursorSent
  BY DEF AttachInit, PagesMatch, CursorSent, Polls
<1>4. EventsInOrder /\ events \in Seq(Nat)
  BY DEF AttachInit, EventsInOrder
<1> QED BY <1>2, <1>3, <1>4 DEF AttachInit, AttachInv

(* The daemon's and the view's steps.                                      *)
LEMMA EmitKeeps == ASSUME AttachInv, Emit PROVE AttachInv'
<1>1. ledger' \in 0..MaxEvents /\ ledger < ledger' /\ ledger \in Nat
  BY AttachAssumption DEF Emit, AttachInv, AttachTypeOK
<1>2. AttachTypeOK'
  BY <1>1 DEF Emit, AttachInv, AttachTypeOK
<1>3. PagesMatch'
  <2> SUFFICES ASSUME NEW v \in Views
               PROVE  /\ after[v] <= ledger'
                      /\ page[v] # NoPage =>
                            /\ page[v].from = after[v] + 1 /\ page[v].next = page[v].to
                            /\ after[v] <= page[v].to /\ page[v].to <= ledger'
    BY DEF Emit, PagesMatch
  <2>1. after[v] \in 0..MaxEvents /\ page[v].to \in 0..MaxEvents
    BY DEF AttachInv, AttachTypeOK
  <2> QED BY <1>1, <2>1 DEF AttachInv, PagesMatch
<1>4. cursor' <= ledger'
  BY <1>1 DEF Emit, AttachInv, AttachTypeOK
<1>5. CursorSent' /\ EventsInOrder' /\ events' \in Seq(Nat)
  BY DEF Emit, AttachInv, CursorSent, Polls, Latest, EventsInOrder
<1> QED BY <1>2, <1>3, <1>4, <1>5 DEF AttachInv

LEMMA AppearKeeps == ASSUME AttachInv, NEW v \in Views, Appear(v) PROVE AttachInv'
<1>1. AttachTypeOK'
  BY DEF Appear, AttachInv, AttachTypeOK, PollStages
<1>2. CursorSent'
  <2> SUFFICES ASSUME ~crossed, NEW u \in Views, Polls(u)', Latest(u)'
               PROVE  after[u] = cursor
    BY DEF Appear, CursorSent
  <2>1. poll' = [poll EXCEPT ![v] = "gating"] /\ poll[v] = "off"
    BY DEF Appear
  <2>2. Polls(u) /\ Latest(u)
    BY <2>1 DEF Polls, Latest, AttachInv, AttachTypeOK
  <2> QED BY <2>2 DEF AttachInv, CursorSent
<1>3. PagesMatch' /\ EventsInOrder' /\ events' \in Seq(Nat) /\ cursor' <= ledger'
  BY DEF Appear, AttachInv, PagesMatch, EventsInOrder
<1> QED BY <1>1, <1>2, <1>3 DEF AttachInv

LEMMA DisappearKeeps == ASSUME AttachInv, Disappear PROVE AttachInv'
<1>1. AttachTypeOK'
  BY DEF Disappear, Running, AttachInv, AttachTypeOK
<1>2. CursorSent'
  BY DEF Disappear, AttachInv, CursorSent, Polls, Latest
<1>3. PagesMatch' /\ EventsInOrder' /\ events' \in Seq(Nat) /\ cursor' <= ledger'
  BY DEF Disappear, AttachInv, PagesMatch, EventsInOrder
<1> QED BY <1>1, <1>2, <1>3 DEF AttachInv

LEMMA InputsKeep ==
    ASSUME AttachInv,
           BeginInput \/ InputAnswered \/ \E ready \in BOOLEAN : InputGated(ready)
    PROVE  AttachInv'
<1>1. UNCHANGED <<ledger, poll, cancelled, page, after, events, cursor, finished, lost,
                  crossed>>
  BY DEF BeginInput, InputAnswered, InputGated
<1>2. /\ paired' \in BOOLEAN /\ inputs' \in 0..MaxInputs
      /\ input' \in {"none", "gating", "sending"}
  <2>1. CASE BeginInput
    BY <2>1, AttachAssumption DEF BeginInput, AttachInv, AttachTypeOK
  <2>2. CASE InputAnswered
    BY <2>2 DEF InputAnswered, AttachInv, AttachTypeOK
  <2>3. ASSUME NEW ready \in BOOLEAN, InputGated(ready)
        PROVE  /\ paired' \in BOOLEAN /\ inputs' \in 0..MaxInputs
               /\ input' \in {"none", "gating", "sending"}
    BY <2>3 DEF InputGated, AttachInv, AttachTypeOK
  <2> QED BY <2>1, <2>2, <2>3
<1>3. AttachTypeOK'
  BY <1>1, <1>2 DEF AttachInv, AttachTypeOK
<1>4. CursorSent'
  BY <1>1 DEF AttachInv, CursorSent, Polls, Latest
<1>5. PagesMatch' /\ EventsInOrder' /\ events' \in Seq(Nat) /\ cursor' <= ledger'
  BY <1>1 DEF AttachInv, PagesMatch, EventsInOrder
<1> QED BY <1>3, <1>4, <1>5 DEF AttachInv

(* The top of the loop sends the cursor as it is.                          *)
LEMMA IterateKeeps ==
    ASSUME AttachInv, NEW v \in Views, NEW ready \in BOOLEAN, Iterate(v, ready),
           poll[v] # "off", paired' \in BOOLEAN,
           UNCHANGED <<ledger, cancelled, events, cursor, finished, input, inputs, lost,
                       crossed>>
    PROVE  AttachInv'
<1>1. PICK stage \in PollStages \ {"off"} :
         /\ poll' = [poll EXCEPT ![v] = stage]
         /\ after' = IF stage = "fetching" THEN [after EXCEPT ![v] = cursor] ELSE after
         /\ page' = [page EXCEPT ![v] = NoPage]
  <2> DEFINE stage == IF v \in cancelled THEN "ended"
                      ELSE IF ready THEN "fetching"
                      ELSE IF finished THEN "ended" ELSE "sleeping"
  <2>1. stage \in PollStages \ {"off"}
    BY DEF PollStages
  <2>2. /\ poll' = [poll EXCEPT ![v] = stage]
        /\ after' = IF stage = "fetching" THEN [after EXCEPT ![v] = cursor] ELSE after
        /\ page' = [page EXCEPT ![v] = NoPage]
    BY DEF Iterate
  <2> HIDE DEF stage
  <2> QED BY <2>1, <2>2
<1>2. AttachTypeOK'
  BY <1>1, NoPageTyped DEF AttachInv, AttachTypeOK
<1>3. PagesMatch'
  BY <1>1 DEF AttachInv, AttachTypeOK, PagesMatch
<1>4. CursorSent'
  <2> SUFFICES ASSUME ~crossed, NEW u \in Views, Polls(u)', Latest(u)'
               PROVE  after'[u] = cursor
    BY DEF CursorSent
  <2>1. CASE u = v
    BY <1>1, <2>1 DEF Polls, AttachInv, AttachTypeOK
  <2>2. CASE u # v
    <3>1. after'[u] = after[u] /\ Polls(u) /\ Latest(u)
      BY <1>1, <2>2 DEF Polls, Latest, AttachInv, AttachTypeOK
    <3> QED BY <3>1 DEF AttachInv, CursorSent
  <2> QED BY <2>1, <2>2
<1>5. EventsInOrder' /\ events' \in Seq(Nat) /\ cursor' <= ledger'
  BY DEF AttachInv, EventsInOrder
<1> QED BY <1>2, <1>3, <1>4, <1>5 DEF AttachInv

LEMMA PollGatedKeeps ==
    ASSUME AttachInv, NEW v \in Views, NEW ready \in BOOLEAN, PollGated(v, ready)
    PROVE  AttachInv'
<1>1. CASE ready
  BY <1>1, IterateKeeps DEF PollGated
<1>2. CASE ~ready
  <2>1. /\ poll' = [poll EXCEPT ![v] = "ended"] /\ paired' = ready /\ poll[v] = "gating"
        /\ UNCHANGED <<ledger, cancelled, page, after, events, cursor, finished, input,
                       inputs, lost, crossed>>
    BY <1>2 DEF PollGated
  <2>2. AttachTypeOK'
    BY <2>1 DEF AttachInv, AttachTypeOK, PollStages
  <2>3. CursorSent'
    BY <2>1 DEF AttachInv, AttachTypeOK, CursorSent, Polls, Latest
  <2>4. PagesMatch' /\ EventsInOrder' /\ events' \in Seq(Nat) /\ cursor' <= ledger'
    BY <2>1 DEF AttachInv, PagesMatch, EventsInOrder
  <2> QED BY <2>2, <2>3, <2>4 DEF AttachInv
<1> QED BY <1>1, <1>2

LEMMA WakeKeeps == ASSUME AttachInv, NEW v \in Views, Wake(v) PROVE AttachInv'
<1>1. paired' = paired /\ paired \in BOOLEAN
  BY DEF Wake, AttachInv, AttachTypeOK
<1> QED BY <1>1, IterateKeeps DEF Wake

LEMMA DaemonReadsKeeps ==
    ASSUME AttachInv, NEW v \in Views, DaemonReads(v) PROVE AttachInv'
<1>1. PICK to \in after[v]..LastOfPage(after[v]), named \in BOOLEAN, more \in BOOLEAN :
         /\ page' = [page EXCEPT ![v] = Page(after[v], to, named, more)]
         /\ lost' = lost \/ lost' = lost + 1
  BY DEF DaemonReads
<1> DEFINE p == Page(after[v], to, named, more)
<1>2. /\ p \in [from : 0..MaxEvents + 1, to : 0..MaxEvents, next : 0..MaxEvents,
                more : BOOLEAN]
      /\ p.from = after[v] + 1 /\ p.next = p.to
      /\ after[v] <= p.to /\ p.to <= ledger
  <2>1. after[v] \in 0..MaxEvents /\ ledger \in 0..MaxEvents /\ after[v] <= ledger
    BY DEF AttachInv, AttachTypeOK, PagesMatch
  <2> QED BY <2>1, PageMade
<1> HIDE DEF p
<1>3. /\ page' = [page EXCEPT ![v] = p] /\ lost' \in 0..MaxLost
      /\ UNCHANGED <<ledger, poll, cancelled, after, events, cursor, finished, paired,
                     input, inputs, crossed>>
  <2>1. lost \in 0..MaxLost /\ lost' <= MaxLost /\ MaxLost \in Nat
    BY AttachAssumption DEF DaemonReads, AttachInv, AttachTypeOK
  <2>2. lost' \in 0..MaxLost
    BY <1>1, <2>1
  <2>3. page' = [page EXCEPT ![v] = p]
    BY <1>1 DEF p
  <2> QED BY <2>2, <2>3 DEF DaemonReads
<1>4. AttachTypeOK'
  BY <1>2, <1>3 DEF AttachInv, AttachTypeOK
<1>5. PagesMatch'
  BY <1>2, <1>3 DEF AttachInv, AttachTypeOK, PagesMatch
<1>6. CursorSent'
  BY <1>3 DEF AttachInv, CursorSent, Polls, Latest
<1>7. EventsInOrder' /\ events' \in Seq(Nat) /\ cursor' <= ledger'
  BY <1>3 DEF AttachInv, EventsInOrder
<1> QED BY <1>4, <1>5, <1>6, <1>7 DEF AttachInv

LEMMA PageFailsKeeps ==
    ASSUME AttachInv, NEW v \in Views, PageFails(v) PROVE AttachInv'
<1>1. PICK stage \in {"ended", "sleeping"} :
         /\ poll' = [poll EXCEPT ![v] = stage] /\ page' = [page EXCEPT ![v] = NoPage]
         /\ poll[v] = "fetching"
         /\ UNCHANGED <<ledger, cancelled, after, events, cursor, finished, paired, input,
                        inputs, crossed>>
  BY DEF PageFails
<1>2. lost' \in 0..MaxLost
  BY AttachAssumption DEF PageFails, AttachInv, AttachTypeOK
<1>3. AttachTypeOK'
  BY <1>1, <1>2, NoPageTyped DEF AttachInv, AttachTypeOK, PollStages
<1>4. PagesMatch'
  BY <1>1 DEF AttachInv, AttachTypeOK, PagesMatch
<1>5. CursorSent'
  BY <1>1 DEF AttachInv, AttachTypeOK, CursorSent, Polls, Latest
<1>6. EventsInOrder' /\ events' \in Seq(Nat) /\ cursor' <= ledger'
  BY <1>1 DEF AttachInv, EventsInOrder
<1> QED BY <1>3, <1>4, <1>5, <1>6 DEF AttachInv
(* What a page adds to the rows.                                           *)
LEMMA RowsOfPage ==
    ASSUME NEW p, p.from \in Nat \ {0}, p.to \in Nat, p.from <= p.to + 1
    PROVE  /\ Rows(p) \in Seq(Nat) /\ Len(Rows(p)) = p.to + 1 - p.from
           /\ \A i \in 1..(p.to + 1 - p.from) : Rows(p)[i] = p.from + i - 1
<1> DEFINE from == p.from
           to == p.to
           n == to + 1 - from
           row(i) == from + i - 1
<1>1. Rows(p) = [i \in 1..n |-> row(i)]
  BY DEF Rows
<1>2. from \in Nat \ {0} /\ to \in Nat /\ from <= to + 1
  OBVIOUS
<1> SUFFICES /\ Rows(p) \in Seq(Nat) /\ Len(Rows(p)) = n
             /\ \A i \in 1..n : Rows(p)[i] = row(i)
  OBVIOUS
<1> HIDE DEF from, to
<1>3. n \in Nat /\ \A i \in 1..n : row(i) \in Nat
  BY <1>2
<1> HIDE DEF n, row
<1> QED BY <1>1, <1>3

LEMMA Behind ==
    ASSUME NEW s \in Seq(Nat), NEW t \in Seq(Nat), NEW n, n = Len(t)
    PROVE  /\ s \o t \in Seq(Nat) /\ Len(s) \in Nat /\ n \in Nat
           /\ Len(s \o t) = Len(s) + n
           /\ DOMAIN s = 1..Len(s) /\ DOMAIN (s \o t) = 1..(Len(s) + n)
           /\ \A i \in 1..(Len(s) + n) :
                 (s \o t)[i] = IF i <= Len(s) THEN s[i] ELSE t[i - Len(s)]
OBVIOUS

(* The page of the latest task goes behind the rows there are.             *)
LEMMA PageArrivesKeeps ==
    ASSUME AttachInv, NEW v \in Views, PageArrives(v) PROVE AttachInv'
<1>1. /\ poll[v] = "fetching" /\ page[v] # NoPage
      /\ events' = events \o Rows(page[v]) /\ cursor' = page[v].next
      /\ page' = [page EXCEPT ![v] = NoPage]
      /\ UNCHANGED <<ledger, cancelled, paired, input, inputs, lost>>
  BY DEF PageArrives
<1>2. crossed' = (crossed \/ \E u \in Views : u > v /\ poll[u] # "off")
  BY DEF PageArrives
<1> DEFINE a == after[v]
           to == page[v].to
<1>3. /\ a \in 0..MaxEvents /\ to \in 0..MaxEvents /\ ledger \in 0..MaxEvents
      /\ cursor \in 0..MaxEvents /\ page[v].from = a + 1 /\ cursor' = to
      /\ a <= to /\ to <= ledger /\ MaxEvents \in Nat
  BY <1>1, AttachAssumption DEF AttachInv, AttachTypeOK, PagesMatch
<1>4. /\ Rows(page[v]) \in Seq(Nat) /\ Len(Rows(page[v])) = to - a
      /\ \A i \in 1..(to - a) : Rows(page[v])[i] = a + i
  <2>1. a + 1 \in Nat \ {0} /\ to \in Nat /\ a + 1 <= to + 1 /\ to + 1 - (a + 1) = to - a
    BY <1>3
  <2> DEFINE p == page[v]
  <2>2. p.from = a + 1 /\ p.to = to /\ Rows(page[v]) = Rows(p)
    BY <1>3
  <2> HIDE DEF p, to, a
  <2>3. p.from \in Nat \ {0} /\ p.to \in Nat /\ p.from <= p.to + 1
    BY <2>1, <2>2
  <2>4. /\ Rows(p) \in Seq(Nat) /\ Len(Rows(p)) = p.to + 1 - p.from
        /\ \A i \in 1..(p.to + 1 - p.from) : Rows(p)[i] = p.from + i - 1
    BY <2>3, RowsOfPage
  <2> QED BY <1>3, <2>1, <2>2, <2>4
<1>5. /\ events \in Seq(Nat) /\ events' \in Seq(Nat)
      /\ Len(events') = Len(events) + (to - a) /\ Len(events) \in Nat
      /\ \A i \in DOMAIN events' : events'[i] =
            IF i <= Len(events) THEN events[i] ELSE a + (i - Len(events))
      /\ \A i \in DOMAIN events' : i \in Nat /\ 1 <= i
      /\ \A i \in DOMAIN events' : i <= Len(events) => i \in DOMAIN events
      /\ \A i \in DOMAIN events' : i > Len(events) => i - Len(events) \in 1..(to - a)
  <2>1. events \in Seq(Nat) /\ Len(events) \in Nat /\ to - a \in Nat
    BY <1>3 DEF AttachInv
  <2> DEFINE n == to - a
             t == Rows(page[v])
  <2>2. /\ events' = events \o t /\ t \in Seq(Nat) /\ Len(t) = n
        /\ \A i \in 1..n : t[i] = a + i
    BY <1>1, <1>4
  <2>3. n \in Nat
    BY <2>1
  <2> HIDE DEF n, t
  <2>4. /\ events' \in Seq(Nat) /\ Len(events') = Len(events) + n
        /\ DOMAIN events = 1..Len(events) /\ DOMAIN events' = 1..(Len(events) + n)
        /\ \A i \in 1..(Len(events) + n) : events'[i] =
              IF i <= Len(events) THEN events[i] ELSE t[i - Len(events)]
    BY <2>1, <2>2, Behind
  <2>5. ASSUME NEW i \in DOMAIN events'
        PROVE  /\ i \in Nat /\ 1 <= i
               /\ i <= Len(events) => i \in DOMAIN events
               /\ i > Len(events) => i - Len(events) \in 1..n
               /\ events'[i] = IF i <= Len(events) THEN events[i] ELSE a + (i - Len(events))
    <3>1. i \in 1..(Len(events) + n)
      BY <2>4
    <3>2. /\ i \in Nat /\ 1 <= i /\ i <= Len(events) => i \in 1..Len(events)
          /\ i > Len(events) => i - Len(events) \in 1..n
      BY <2>1, <2>3, <3>1
    <3> QED BY <2>1, <2>2, <2>4, <3>1, <3>2
  <2>6. n = to - a
    BY DEF n
  <2> QED BY <2>1, <2>4, <2>5, <2>6
<1>6. /\ finished' \in BOOLEAN
      /\ poll' \in [Views -> PollStages] /\ poll'[v] # "off"
      /\ \A u \in Views \ {v} : poll'[u] = poll[u] /\ after'[u] = after[u]
      /\ poll'[v] = "fetching" => after'[v] = cursor'
      /\ after' \in [Views -> 0..MaxEvents] /\ after'[v] <= ledger
  <2>1. CASE page[v].more /\ v \notin cancelled
    <3>1. after' = [after EXCEPT ![v] = cursor'] /\ UNCHANGED <<poll, finished>>
      BY <2>1 DEF PageArrives
    <3> QED BY <1>1, <1>3, <3>1 DEF AttachInv, AttachTypeOK
  <2>2. CASE ~(page[v].more /\ v \notin cancelled)
    <3>1. /\ finished' = Ended(events') /\ after' = after
          /\ poll' = [poll EXCEPT ![v] = IF finished' THEN "ended" ELSE "sleeping"]
      BY <2>2 DEF PageArrives
    <3>2. finished' \in BOOLEAN
      BY <3>1 DEF Ended, Contains
    <3>3. PICK stage \in {"ended", "sleeping"} : poll' = [poll EXCEPT ![v] = stage]
      BY <3>1
    <3> QED BY <1>3, <3>1, <3>2, <3>3 DEF AttachInv, AttachTypeOK, PollStages
  <2> QED BY <2>1, <2>2
<1>7. AttachTypeOK'
  <2>1. \A i \in DOMAIN events' : events'[i] \in 1..MaxEvents
    <3> SUFFICES ASSUME NEW i \in DOMAIN events' PROVE events'[i] \in 1..MaxEvents
      OBVIOUS
    <3>1. CASE i <= Len(events)
      BY <1>5, <3>1 DEF AttachInv, AttachTypeOK
    <3>2. CASE ~(i <= Len(events))
      <4> DEFINE k == i - Len(events)
      <4>1. k \in 1..(to - a) /\ events'[i] = a + k
        BY <1>5, <3>2
      <4> HIDE DEF k, a, to
      <4> QED BY <1>3, <4>1
    <3> QED BY <3>1, <3>2
  <2>2. crossed' \in BOOLEAN
    BY <1>2 DEF AttachInv, AttachTypeOK
  <2>3. page' \in [Views -> [from : 0..MaxEvents + 1, to : 0..MaxEvents,
                             next : 0..MaxEvents, more : BOOLEAN]]
    BY <1>1, NoPageTyped DEF AttachInv, AttachTypeOK
  <2> QED BY <1>1, <1>3, <1>6, <2>1, <2>2, <2>3 DEF AttachInv, AttachTypeOK
<1>8. PagesMatch'
  <2> SUFFICES ASSUME NEW u \in Views
               PROVE  /\ after'[u] <= ledger
                      /\ page'[u] # NoPage =>
                            /\ page'[u].from = after'[u] + 1 /\ page'[u].next = page'[u].to
                            /\ after'[u] <= page'[u].to /\ page'[u].to <= ledger
    BY <1>1 DEF PagesMatch
  <2>1. CASE u = v
    BY <1>1, <1>6, <2>1 DEF AttachInv, AttachTypeOK
  <2>2. CASE u # v
    BY <1>1, <1>6, <2>2 DEF AttachInv, AttachTypeOK, PagesMatch
  <2> QED BY <2>1, <2>2
<1>9. CursorSent'
  <2> SUFFICES ASSUME ~crossed', NEW u \in Views, Polls(u)', Latest(u)'
               PROVE  after'[u] = cursor'
    BY DEF CursorSent
  <2>1. \A w \in Views : w > v => poll[w] = "off"
    BY <1>2
  <2>2. CASE u = v
    BY <1>6, <2>2 DEF Polls
  <2>3. CASE u # v
    <3>1. poll[u] = "fetching"
      BY <1>6, <2>3 DEF Polls
    <3>2. ~(u > v)
      BY <2>1, <3>1
    <3>3. v > u
      BY <2>3, <3>2, AttachAssumption DEF Views
    <3> QED BY <1>6, <3>3 DEF Latest
  <2> QED BY <2>2, <2>3
<1>10. EventsInOrder'
  <2> SUFFICES ASSUME ~crossed'
               PROVE  Len(events') = cursor' /\ \A i \in DOMAIN events' : events'[i] = i
    BY DEF EventsInOrder
  <2>1. ~crossed /\ Latest(v)
    BY <1>2 DEF Latest
  <2>2. a = cursor
    BY <1>1, <2>1 DEF AttachInv, CursorSent, Polls
  <2>3. Len(events) = cursor /\ \A i \in DOMAIN events : events[i] = i
    BY <2>1 DEF AttachInv, EventsInOrder
  <2> HIDE DEF a, to
  <2> QED BY <1>3, <1>5, <2>2, <2>3
<1> QED BY <1>1, <1>3, <1>5, <1>7, <1>8, <1>9, <1>10 DEF AttachInv

(* Every step of the attached session keeps the invariant.                 *)
LEMMA AttachStep == ASSUME AttachInv, [AttachNext]_attachVars PROVE AttachInv'
<1>1. CASE UNCHANGED attachVars
  BY <1>1 DEF attachVars, AttachInv, AttachTypeOK, PagesMatch, CursorSent, Polls, Latest,
              EventsInOrder
<1>2. ASSUME NEW v \in Views, Appear(v) \/ PollStep(v) \/ PageFails(v)
      PROVE  AttachInv'
  BY <1>2, AppearKeeps, WakeKeeps, DaemonReadsKeeps, PageArrivesKeeps, PageFailsKeeps
     DEF PollStep
<1>3. ASSUME NEW v \in Views, NEW ready \in BOOLEAN, PollGated(v, ready) PROVE AttachInv'
  BY <1>3, PollGatedKeeps
<1> QED BY <1>1, <1>2, <1>3, EmitKeeps, DisappearKeeps, InputsKeep DEF AttachNext

(* The inductive invariant, of which the rest are parts: the latest task   *)
(* asked for what follows the rows.                                        *)
THEOREM AttachInvariant == AttachSpec => []AttachInv
BY InitAttach, AttachStep, PTL DEF AttachSpec

(* Every variable of the attached session keeps its type.                  *)
THEOREM AttachTypeCorrect == AttachSpec => []AttachTypeOK
<1>1. AttachInv => AttachTypeOK
  BY DEF AttachInv
<1> QED BY <1>1, AttachInvariant, PTL

(* The rows that are shown are the ledger's first ones, each once and in   *)
(* order, and the cursor stands behind them, whatever pages, failures and  *)
(* appearances of the view there were, unless an answer to a cancelled     *)
(* task came in while a later one polled.                                  *)
THEOREM RowsInOrder == AttachSpec => []EventsInOrder
<1>1. AttachInv => EventsInOrder
  BY DEF AttachInv
<1> QED BY <1>1, AttachInvariant, PTL

-----------------------------------------------------------------------------
(* The companion's pairing gate                                             *)

(* Who waits, waits for a check that was started; a check that ended well  *)
(* has the pairing it was good for.                                        *)
GateInv ==
    /\ GateTypeOK
    /\ \A g \in Gates : gate[g].phase = "waiting" => gate[g].of \in Gates
    /\ \A t \in Gates : task[t].result = "ready" => task[t].pairing # NoPairing

GateCalls == [phase : {"unused", "waiting", "answered"}, model : Models,
              of : {0} \union Gates, result : Results]
GateTasks == [phase : {"none", "asking", "done"}, gen : Nat, from : Pairings,
              result : Results, pairing : Pairings]

LEMMA PairingsAreSome == \A p \in DaemonPairing : p # NoPairing
<1> SUFFICES ASSUME NEW p \in DaemonPairing PROVE p \in [addr : Addresses, at : Nat, pid : Nat]
  BY GateAssumption
<1>1. MaxConfirms \in Nat /\ MaxChanges \in Nat
  BY GateAssumption
<1> QED BY <1>1 DEF DaemonPairing, Pids

LEMMA RecordsTyped ==
    /\ NoGate \in GateCalls /\ NoTask \in GateTasks
    /\ \A r \in Results : Answer(r) \in GateCalls
    /\ \A r \in Results : Answer(r).phase # "waiting" /\ Answer(r).result = r
    /\ NoTask.result = "none" /\ NoPairing \in Pairings
<1>1. NoPairing \in Pairings
  BY DEF Pairings
<1>2. NoGate \in GateCalls
  BY DEF NoGate, GateCalls, Models, Results
<1>3. NoTask \in GateTasks /\ NoTask.result = "none"
  BY <1>1 DEF NoTask, GateTasks, Results
<1>4. ASSUME NEW r \in Results
      PROVE  Answer(r) \in GateCalls /\ Answer(r).phase # "waiting" /\ Answer(r).result = r
  BY DEF Answer, NoGate, GateCalls, Models
<1> QED BY <1>1, <1>2, <1>3, <1>4

LEMMA SaveTyped ==
    ASSUME stored \in Pairings, lostSaves \in 0..MaxLostSaves, NEW p \in Pairings, Save(p)
    PROVE  stored' \in Pairings /\ lostSaves' \in 0..MaxLostSaves
<1>1. MaxLostSaves \in Nat
  BY GateAssumption
<1> QED BY <1>1 DEF Save

LEMMA InvalidateTyped ==
    ASSUME GateTypeOK, NEW m \in Models, InvalidateGate(m)
    PROVE  gateGen' \in [Models -> Nat] /\ gateOp' \in [Models -> {0} \union Gates]
<1>1. gateGen[m] \in Nat /\ gateGen[m] + 1 \in Nat
  BY DEF GateTypeOK
<1>2. gateGen' \in [Models -> Nat]
  BY <1>1 DEF GateTypeOK, InvalidateGate
<1>3. gateOp' \in [Models -> {0} \union Gates]
  BY DEF GateTypeOK, InvalidateGate
<1> QED BY <1>2, <1>3

LEMMA InitGate == GateInit => GateInv
<1> SUFFICES ASSUME GateInit PROVE GateInv
  OBVIOUS
<1>1. field \in Addresses
  BY GateAssumption DEF GateInit
<1>2. /\ {MaxConfirms, MaxChanges, MaxLostSaves} \subseteq Nat
      /\ 1 \in Pids
  BY GateAssumption DEF Pids
<1>3. service \in [Addresses -> [kind : {"v1"} \union Kinds, pid : Pids]]
  BY <1>2 DEF GateInit
<1>4. /\ gate \in [Gates -> GateCalls] /\ task \in [Gates -> GateTasks]
      /\ stored \in Pairings /\ pairing \in [Models -> Pairings]
  BY RecordsTyped DEF GateInit
<1>5. /\ asked \subseteq Addresses /\ staged \in {0} \union Pids
      /\ gateGen \in [Models -> Nat] /\ gateOp \in [Models -> {0} \union Gates]
      /\ confirms \in 0..MaxConfirms /\ changes \in 0..MaxChanges
      /\ lostSaves \in 0..MaxLostSaves
  BY <1>2 DEF GateInit
<1>6. \A g \in Gates : gate[g].phase # "waiting" /\ task[g].result # "ready"
  BY DEF GateInit, NoGate, NoTask
<1> QED BY <1>1, <1>3, <1>4, <1>5, <1>6 DEF GateInv, GateTypeOK, GateCalls, GateTasks

(* Pairing, unpairing and the daemon's restarts concern no gate.           *)
LEMMA PairingKeeps ==
    ASSUME GateInv,
           \/ ConfirmPairing \/ CancelPairing \/ Unpair
           \/ \E a \in Addresses :
                 \/ BeginPairing(a) \/ EditField(a) \/ PairingAnswered(a)
                 \/ \E kind \in Kinds : ServiceChanges(a, kind)
    PROVE  GateInv' /\ UNCHANGED gate
<1>1. /\ {MaxConfirms, MaxChanges, MaxLostSaves} \subseteq Nat
      /\ confirms \in Nat /\ changes \in Nat
  BY GateAssumption DEF GateInv, GateTypeOK
<1>2. CASE ConfirmPairing
  <2> DEFINE p == [addr |-> field, at |-> confirms + 1, pid |-> staged]
  <2>1. p \in Pairings
    BY <1>1, <1>2 DEF ConfirmPairing, GateInv, GateTypeOK, Pairings, DaemonPairing, Pids
  <2>2. /\ Save(p) /\ pairing' = [pairing EXCEPT !["view"] = p]
    BY <1>2 DEF ConfirmPairing
  <2> HIDE DEF p
  <2>3. /\ stored' \in Pairings /\ lostSaves' \in 0..MaxLostSaves
        /\ pairing' \in [Models -> Pairings]
    BY <2>1, <2>2, SaveTyped DEF GateInv, GateTypeOK
  <2>4. /\ gateGen' \in [Models -> Nat] /\ gateOp' \in [Models -> {0} \union Gates]
        /\ staged' = 0 /\ confirms' \in 0..MaxConfirms
        /\ UNCHANGED <<service, field, asked, gate, task, changes>>
    <3>1. InvalidateGate("view") /\ "view" \in Models
      BY <1>2 DEF ConfirmPairing, Models
    <3>2. /\ staged' = 0 /\ confirms' \in 0..MaxConfirms
          /\ UNCHANGED <<service, field, asked, gate, task, changes>>
      BY <1>1, <1>2 DEF ConfirmPairing
    <3> QED BY <3>1, <3>2, InvalidateTyped DEF GateInv
  <2> QED BY <2>3, <2>4 DEF GateInv, GateTypeOK
<1>3. CASE CancelPairing
  BY <1>3 DEF CancelPairing, GateInv, GateTypeOK
<1>4. CASE Unpair
  <2>1. /\ stored' \in Pairings /\ lostSaves' \in 0..MaxLostSaves
        /\ pairing' \in [Models -> Pairings]
    <3>1. Save(NoPairing) /\ pairing' = [pairing EXCEPT !["view"] = NoPairing]
      BY <1>4 DEF Unpair
    <3> QED BY <3>1, RecordsTyped, SaveTyped DEF GateInv, GateTypeOK
  <2>2. /\ gateGen' \in [Models -> Nat] /\ gateOp' \in [Models -> {0} \union Gates]
        /\ UNCHANGED <<service, field, asked, staged, gate, task, confirms, changes>>
    <3>1. InvalidateGate("view") /\ "view" \in Models
      BY <1>4 DEF Unpair, Models
    <3>2. UNCHANGED <<service, field, asked, staged, gate, task, confirms, changes>>
      BY <1>4 DEF Unpair
    <3> QED BY <3>1, <3>2, InvalidateTyped DEF GateInv
  <2> QED BY <2>1, <2>2 DEF GateInv, GateTypeOK
<1>5. ASSUME NEW a \in Addresses, BeginPairing(a) PROVE GateInv' /\ UNCHANGED gate
  BY <1>5 DEF BeginPairing, GateInv, GateTypeOK
<1>6. ASSUME NEW a \in Addresses, EditField(a) PROVE GateInv' /\ UNCHANGED gate
  BY <1>6 DEF EditField, GateInv, GateTypeOK
<1>7. ASSUME NEW a \in Addresses, PairingAnswered(a) PROVE GateInv' /\ UNCHANGED gate
  <2>1. asked' \subseteq Addresses /\ staged' \in {0} \union Pids
    BY <1>7 DEF PairingAnswered, GateInv, GateTypeOK
  <2>2. UNCHANGED <<service, field, stored, pairing, gateGen, gateOp, gate, task,
                    confirms, changes, lostSaves>>
    BY <1>7 DEF PairingAnswered
  <2> QED BY <2>1, <2>2 DEF GateInv, GateTypeOK
<1>8. ASSUME NEW a \in Addresses, NEW kind \in Kinds, ServiceChanges(a, kind)
      PROVE  GateInv' /\ UNCHANGED gate
  <2>1. changes + 2 \in Pids /\ changes' \in 0..MaxChanges
    BY <1>1, <1>8 DEF ServiceChanges, GateInv, GateTypeOK, Pids
  <2>2. service' \in [Addresses -> [kind : {"v1"} \union Kinds, pid : Pids]]
    BY <1>8, <2>1 DEF ServiceChanges, GateInv, GateTypeOK
  <2>3. UNCHANGED <<field, asked, staged, stored, pairing, gateGen, gateOp, gate, task,
                    confirms, lostSaves>>
    BY <1>8 DEF ServiceChanges
  <2> QED BY <2>1, <2>2, <2>3 DEF GateInv, GateTypeOK
<1> QED BY <1>2, <1>3, <1>4, <1>5, <1>6, <1>7, <1>8

Asking(n, p) == [NoTask EXCEPT !.phase = "asking", !.gen = n, !.from = p]

LEMMA AskingTyped ==
    ASSUME NEW n \in Nat, NEW p \in Pairings
    PROVE  Asking(n, p) \in GateTasks /\ Asking(n, p).result = "none"
BY RecordsTyped DEF Asking, NoTask, GateTasks, Results

(* A call answers that nothing is paired, or waits for a check.            *)
LEMMA CallKeeps ==
    ASSUME GateInv, NEW m \in Models, NEW g \in Gates, CallGate(m, g)
    PROVE  /\ GateInv'
           /\ \A h \in Gates : gate'[h].result = "ready" => gate[h].result = "ready"
<1> DEFINE reload  == Reloads(m)
           current == IF reload THEN stored ELSE pairing[m]
           gen     == IF reload THEN gateGen[m] + 1 ELSE gateGen[m]
           op      == IF reload THEN 0 ELSE gateOp[m]
           joins   == op # 0 /\ SameConfirmation(task[op].from, current)
           waiter(t) == [NoGate EXCEPT !.phase = "waiting", !.model = m, !.of = t]
           asking  == Asking(gen + 1, current)
<1>1. /\ current \in Pairings /\ gen \in Nat /\ op \in {0} \union Gates
  BY DEF GateInv, GateTypeOK
<1>2. /\ pairing' = [pairing EXCEPT ![m] = current]
      /\ \/ /\ gate' = [gate EXCEPT ![g] = Answer("not paired")]
            /\ gateGen' = [gateGen EXCEPT ![m] = gen] /\ gateOp' = [gateOp EXCEPT ![m] = op]
            /\ UNCHANGED task
         \/ /\ op # 0 /\ gate' = [gate EXCEPT ![g] = waiter(op)]
            /\ UNCHANGED <<gateGen, gateOp, task>>
         \/ /\ gate' = [gate EXCEPT ![g] = waiter(g)]
            /\ gateGen' = [gateGen EXCEPT ![m] = gen + 1] /\ gateOp' = [gateOp EXCEPT ![m] = g]
            /\ task' = [task EXCEPT ![g] = asking]
      /\ UNCHANGED <<Pairs, stored, lostSaves>>
  BY DEF CallGate, Asking
<1>3. \A t \in Gates : /\ waiter(t) \in GateCalls /\ waiter(t).of = t
                       /\ waiter(t).result = "none"
  BY DEF NoGate, GateCalls, Results
<1>4. asking \in GateTasks /\ asking.result = "none"
  BY <1>1, AskingTyped
<1>5. /\ Answer("not paired") \in GateCalls /\ Answer("not paired").phase # "waiting"
      /\ Answer("not paired").result = "not paired"
  BY RecordsTyped DEF Results
<1> HIDE DEF reload, current, gen, op, waiter, asking
<1>6. pairing' \in [Models -> Pairings]
  BY <1>1, <1>2 DEF GateInv, GateTypeOK
<1>7. /\ gate \in [Gates -> GateCalls] /\ task \in [Gates -> GateTasks]
      /\ gateGen \in [Models -> Nat] /\ gateOp \in [Models -> {0} \union Gates]
  BY DEF GateInv, GateTypeOK, GateCalls, GateTasks
<1>8. /\ gateGen' \in [Models -> Nat] /\ gateOp' \in [Models -> {0} \union Gates]
  <2>1. gen + 1 \in Nat
    BY <1>1
  <2>2. /\ \/ UNCHANGED gateGen
           \/ \E n \in Nat : gateGen' = [gateGen EXCEPT ![m] = n]
        /\ \/ UNCHANGED gateOp
           \/ \E t \in {0} \union Gates : gateOp' = [gateOp EXCEPT ![m] = t]
    BY <1>1, <1>2, <2>1
  <2> QED BY <1>7, <2>2
<1>9. PICK call \in GateCalls : /\ gate' = [gate EXCEPT ![g] = call]
                                /\ call.result \in {"none", "not paired"}
                                /\ call.phase = "waiting" => call.of \in Gates
  BY <1>1, <1>2, <1>3, <1>5
<1>10. PICK fresh \in GateTasks : /\ task' = [task EXCEPT ![g] = fresh]
                                  /\ fresh.result = "none" \/ fresh = task[g]
  BY <1>2, <1>4, <1>7
<1>11. /\ gate' \in [Gates -> GateCalls] /\ task' \in [Gates -> GateTasks]
       /\ \A h \in Gates : gate'[h] = gate[h] \/ gate'[h] = call
       /\ \A h \in Gates : task'[h] = task[h] \/ task'[h].result = "none"
  BY <1>7, <1>9, <1>10
<1>12. /\ \A h \in Gates : gate'[h].phase = "waiting" => gate'[h].of \in Gates
       /\ \A t \in Gates : task'[t].result = "ready" => task'[t].pairing # NoPairing
       /\ \A h \in Gates : gate'[h].result = "ready" => gate[h].result = "ready"
  BY <1>9, <1>11 DEF GateInv
<1>13. UNCHANGED <<service, field, asked, staged, confirms, changes, stored, lostSaves>>
  BY <1>2 DEF Pairs
<1> QED BY <1>6, <1>8, <1>11, <1>12, <1>13 DEF GateInv, GateTypeOK, GateCalls, GateTasks

(* A check that ends well has a pairing: it was started for one.           *)
LEMMA PerformKeeps ==
    ASSUME GateInv, NEW t \in Gates, PerformGate(t)
    PROVE  GateInv' /\ UNCHANGED gate
<1> DEFINE m == gate[t].model
           from == task[t].from
           fresh == [from EXCEPT !.pid = service[from.addr].pid]
           ended(result, p) == [task[t] EXCEPT !.phase = "done", !.result = result,
                                                  !.pairing = p]
<1>1. /\ gate \in [Gates -> GateCalls] /\ task \in [Gates -> GateTasks]
      /\ m \in Models /\ from \in Pairings
  BY DEF GateInv, GateTypeOK, GateCalls, GateTasks
<1>2. /\ \/ /\ StillCurrent(t) /\ task' = [task EXCEPT ![t] = ended("ready", fresh)]
            /\ Save(fresh) /\ pairing' = [pairing EXCEPT ![m] = fresh]
         \/ /\ task' = [task EXCEPT ![t] = ended("superseded", NoPairing)]
            /\ UNCHANGED <<stored, pairing, lostSaves>>
         \/ /\ task' = [task EXCEPT ![t] = ended("blocked", from)]
            /\ UNCHANGED <<stored, pairing, lostSaves>>
      /\ UNCHANGED <<Pairs, gate, gateGen, gateOp>>
  BY <1>1 DEF PerformGate
<1>3. StillCurrent(t) => fresh \in DaemonPairing
  <2> SUFFICES ASSUME StillCurrent(t) PROVE fresh \in DaemonPairing
    OBVIOUS
  <2>1. from \in DaemonPairing
    BY <1>1 DEF StillCurrent, SameConfirmation, Pairings
  <2>2. service[from.addr].pid \in Pids
    BY <2>1 DEF DaemonPairing, GateInv, GateTypeOK
  <2> QED BY <2>1, <2>2 DEF DaemonPairing
<1>4. \A result \in Results, p \in Pairings :
         /\ ended(result, p) \in GateTasks
         /\ ended(result, p).result = result /\ ended(result, p).pairing = p
  BY <1>1 DEF GateTasks
<1>5. {"ready", "superseded", "blocked"} \subseteq Results /\ NoPairing \in Pairings
  BY DEF Results, Pairings
<1> HIDE DEF m, from, fresh, ended
<1>6. /\ stored' \in Pairings /\ lostSaves' \in 0..MaxLostSaves
      /\ pairing' \in [Models -> Pairings]
  <2>1. stored \in Pairings /\ lostSaves \in 0..MaxLostSaves /\ pairing \in [Models -> Pairings]
    BY DEF GateInv, GateTypeOK
  <2>2. CASE StillCurrent(t) /\ Save(fresh) /\ pairing' = [pairing EXCEPT ![m] = fresh]
    <3>1. fresh \in Pairings
      BY <1>3, <2>2 DEF Pairings
    <3> QED BY <2>1, <2>2, <3>1, SaveTyped
  <2> QED BY <1>2, <2>1, <2>2
<1>7. PICK done \in GateTasks : /\ task' = [task EXCEPT ![t] = done]
                                /\ done.result = "ready" => done.pairing # NoPairing
  <2>1. ASSUME StillCurrent(t)
        PROVE  fresh \in Pairings /\ fresh # NoPairing
    BY <1>3, <2>1, PairingsAreSome DEF Pairings
  <2> QED BY <1>1, <1>2, <1>4, <1>5, <2>1
<1>8. /\ task' \in [Gates -> GateTasks]
      /\ \A u \in Gates : task'[u] = task[u] \/ task'[u] = done
  BY <1>1, <1>7
<1>9. /\ \A u \in Gates : task'[u].result = "ready" => task'[u].pairing # NoPairing
      /\ UNCHANGED <<service, field, asked, staged, confirms, changes, gate, gateGen, gateOp>>
  BY <1>2, <1>7, <1>8 DEF GateInv, Pairs
<1> QED BY <1>6, <1>8, <1>9 DEF GateInv, GateTypeOK, GateTasks

(* What GateCurrent says of a step.                                        *)
Current ==
    \A g \in Gates : gate'[g].result = "ready" /\ gate[g].result # "ready"
         => /\ stored = task[gate[g].of].pairing
            /\ pairing[gate[g].model] = stored

(* An answer "ready" was compared with model and Keychain as they are now. *)
LEMMA ReturnKeeps ==
    ASSUME GateInv, NEW g \in Gates, GateReturns(g)
    PROVE  GateInv' /\ Current
<1> DEFINE m == gate[g].model
           t == gate[g].of
           result == Validated(m, t)
<1>1. /\ gate \in [Gates -> GateCalls] /\ task \in [Gates -> GateTasks]
      /\ gateOp \in [Models -> {0} \union Gates]
      /\ m \in Models /\ t \in Gates
  BY DEF GateInv, GateTypeOK, GateCalls, GateTasks, GateReturns
<1>2. /\ gate' = [gate EXCEPT ![g] = Answer(result)]
      /\ \E next \in {0, gateOp[m]} : gateOp' = [gateOp EXCEPT ![m] = next]
      /\ task' = task \/ task' = [task EXCEPT ![t] = NoTask]
      /\ UNCHANGED <<Pairs, stored, pairing, gateGen, lostSaves>>
  BY <1>1 DEF GateReturns
<1>3. result \in Results /\ (result = "ready" => /\ stored = task[t].pairing
                                                  /\ pairing[m] = stored)
  BY <1>1 DEF Validated, GateTasks, Results, GateInv
<1> HIDE DEF m, t, result
<1>4. /\ Answer(result) \in GateCalls /\ Answer(result).phase # "waiting"
      /\ Answer(result).result = result
  BY <1>3, RecordsTyped
<1>5. /\ gate' \in [Gates -> GateCalls] /\ gateOp' \in [Models -> {0} \union Gates]
      /\ \A h \in Gates : gate'[h] = gate[h] \/ (h = g /\ gate'[h] = Answer(result))
  BY <1>1, <1>2, <1>4
<1>6. /\ task' \in [Gates -> GateTasks]
      /\ \A u \in Gates : task'[u] = task[u] \/ task'[u].result = "none"
  BY <1>1, <1>2, RecordsTyped
<1>7. /\ \A h \in Gates : gate'[h].phase = "waiting" => gate'[h].of \in Gates
      /\ \A u \in Gates : task'[u].result = "ready" => task'[u].pairing # NoPairing
  BY <1>4, <1>5, <1>6 DEF GateInv
<1>8. UNCHANGED <<service, field, asked, staged, confirms, changes, stored, pairing, gateGen,
                  lostSaves>>
  BY <1>2 DEF Pairs
<1>9. GateInv'
  BY <1>5, <1>6, <1>7, <1>8 DEF GateInv, GateTypeOK, GateCalls, GateTasks
<1>10. ASSUME NEW h \in Gates, gate'[h].result = "ready", gate[h].result # "ready"
       PROVE  stored = task[gate[h].of].pairing /\ pairing[gate[h].model] = stored
  <2>1. h = g /\ result = "ready"
    BY <1>4, <1>5, <1>10
  <2> QED BY <1>3, <2>1 DEF m, t
<1> QED BY <1>9, <1>10 DEF Current

LEMMA GateStep == ASSUME GateInv, [GateNext]_gateVars PROVE GateInv' /\ Current
<1>1. CASE UNCHANGED gateVars
  <2>1. GateInv'
    BY <1>1 DEF gateVars, GateInv, GateTypeOK
  <2>2. Current
    BY <1>1 DEF gateVars, Current
  <2> QED BY <2>1, <2>2
<1>2. ASSUME NEW g \in Gates, PerformGate(g) PROVE GateInv' /\ Current
  BY <1>2, PerformKeeps DEF Current
<1>3. ASSUME NEW g \in Gates, NEW m \in Models, CallGate(m, g) PROVE GateInv' /\ Current
  BY <1>3, CallKeeps DEF Current
<1>4. CASE \/ ConfirmPairing \/ CancelPairing \/ Unpair
           \/ \E a \in Addresses :
                 \/ BeginPairing(a) \/ EditField(a) \/ PairingAnswered(a)
                 \/ \E kind \in Kinds : ServiceChanges(a, kind)
  BY <1>4, PairingKeeps DEF Current
<1> QED BY <1>1, <1>2, <1>3, <1>4, ReturnKeeps DEF GateNext

(* The inductive invariant, of which the rest follow.                      *)
THEOREM GateInvariant == GateSpec => []GateInv
BY InitGate, GateStep, PTL DEF GateSpec

(* Every variable of the two models and their gates keeps its type.        *)
THEOREM GateTypeCorrect == GateSpec => []GateTypeOK
<1>1. GateInv => GateTypeOK
  BY DEF GateInv
<1> QED BY <1>1, GateInvariant, PTL

(* No gate that ran across an unpairing or a re-pairing is answered ready: *)
(* when it is, Keychain and model hold the pairing its check was good for, *)
(* for any addresses, calls, pairings, restarts and Keychain operations    *)
(* that were lost.                                                         *)
THEOREM ReadyIsCurrent == GateSpec => GateCurrent
<1>1. GateInv /\ [GateNext]_gateVars => [\A g \in Gates :
         gate'[g].result = "ready" /\ gate[g].result # "ready"
         => /\ stored = task[gate[g].of].pairing
            /\ pairing[gate[g].model] = stored]_gateVars
  BY GateStep DEF Current
<1> QED BY <1>1, GateInvariant, PTL DEF GateSpec, GateCurrent

-----------------------------------------------------------------------------
(* Sign-in with the provider                                                *)

(* The callback port's slot has one owner, who holds it.                   *)
SlotHeld ==
    /\ \A c \in SignIns : signIn[c] \in OwnsSlot => engineBusy
    /\ \A c, d \in SignIns : signIn[c] \in OwnsSlot /\ signIn[d] \in OwnsSlot => c = d
    /\ waiting # 0 => signIn[waiting] = "waiting"

(* Calls that have not begun are nowhere, and the current one began after  *)
(* the last sign-out.                                                      *)
Begun ==
    /\ \A c \in SignIns : c > started => signIn[c] = "unused"
    /\ active # 0 => active > signedOut

(* A call that is signed out and may have stored tokens, or may yet.       *)
OnRecord ==
    \A c \in SignIns :
        c <= signedOut /\ signIn[c] \in InEngine \union Answered => cleanupRequired

AuthInv == AuthTypeOK /\ SlotHeld /\ Begun /\ OnRecord /\ SignOutHolds

(***************************************************************************)
(* The engine's calls.                                                     *)
(***************************************************************************)
(* The cleanup, done or failed: tokens that are still there are on record. *)
LEMMA CleanupTakes ==
    ASSUME AuthTypeOK, NEW ok \in BOOLEAN, Cleanup(ok)
    PROVE  /\ tokens' \in {0, tokens} /\ account' = 0
           /\ cleanupRequired' \in BOOLEAN
           /\ tokens' # 0 => cleanupRequired'
           /\ authFaults' \in 0..MaxAuthFaults
<1>1. CASE ok
  BY <1>1 DEF Cleanup, ClearTokens, AuthTypeOK
<1>2. CASE ~ok
  <2>1. cleanupRequired' /\ cleanupRequired' \in BOOLEAN
    BY <1>2, Zenon DEF Cleanup
  <2>2. tokens' = tokens /\ account' = 0 /\ authFaults' \in 0..MaxAuthFaults
    BY <1>2, AuthAssumption DEF Cleanup, ClearTokens, AuthTypeOK
  <2> QED BY <2>1, <2>2
<1> QED BY <1>1, <1>2

(* Release hands the slot to the waiter or frees it, and touches nobody    *)
(* else but the call that had it.                                          *)
LEMMA ReleaseHands ==
    ASSUME AuthInv, NEW c \in SignIns, NEW stage \in {"loading", "done"},
           signIn[c] \in OwnsSlot, Release(c, stage)
    PROVE  /\ signIn' \in [SignIns -> Stages] /\ engineBusy' \in BOOLEAN
           /\ waiting' = 0 /\ signIn'[c] = stage
           /\ \A d \in SignIns \ {c} :
                 IF d = waiting
                 THEN signIn'[d] = IF active = d THEN "granted" ELSE "refused"
                 ELSE signIn'[d] = signIn[d]
           /\ engineBusy' <=> waiting # 0 /\ active = waiting
<1>1. signIn \in [SignIns -> Stages] /\ waiting \in Nat /\ active \in Nat
  BY AuthAssumption DEF AuthInv, AuthTypeOK
<1>2. stage \in Stages /\ "granted" \in Stages /\ "refused" \in Stages
  BY DEF Stages, OwnsSlot
<1>3. waiting' = 0 /\ (engineBusy' = (waiting # 0 /\ active = waiting))
  BY DEF Release
<1>4. signIn' \in [SignIns -> Stages] /\ signIn'[c] = stage
  BY <1>1, <1>2 DEF Release, StageAfter
<1>5. ASSUME NEW d \in SignIns \ {c}
      PROVE  IF d = waiting THEN signIn'[d] = IF active = d THEN "granted" ELSE "refused"
                            ELSE signIn'[d] = signIn[d]
  BY <1>1 DEF Release, StageAfter, SignIns
<1> QED BY <1>3, <1>4, <1>5

(* The owner of the slot passes it on or frees it, having kept the record  *)
(* right: what is left to show of AuthInv' is the record and the account.  *)
LEMMA SlotPasses ==
    ASSUME AuthInv, NEW c \in SignIns, NEW stage \in {"loading", "done"},
           signIn[c] \in OwnsSlot, Release(c, stage), active' \in {0, active},
           c <= started, UNCHANGED <<started, signedOut>>
    PROVE  /\ signIn' \in [SignIns -> Stages] /\ engineBusy' \in BOOLEAN /\ waiting' = 0
           /\ SlotHeld' /\ Begun' /\ OnRecord'
<1> USE DEF AuthInv
<1>1. /\ signIn' \in [SignIns -> Stages] /\ engineBusy' \in BOOLEAN
      /\ waiting' = 0 /\ signIn'[c] = stage
      /\ \A d \in SignIns \ {c} :
            IF d = waiting THEN signIn'[d] = IF active = d THEN "granted" ELSE "refused"
                           ELSE signIn'[d] = signIn[d]
      /\ engineBusy' <=> waiting # 0 /\ active = waiting
  BY ReleaseHands
<1>2. \A d \in SignIns \ {c} : signIn[d] \notin OwnsSlot
  BY DEF SlotHeld
<1>3. \A d \in SignIns : signIn'[d] \in OwnsSlot =>
         /\ d = waiting /\ active = d /\ signIn'[d] = "granted"
  BY <1>1, <1>2 DEF OwnsSlot, InEngine, Answered
<1>4. SlotHeld'
  <2>1. \A d \in SignIns : signIn'[d] \in OwnsSlot => engineBusy'
    BY <1>1, <1>3 DEF SignIns
  <2> QED BY <1>1, <1>3, <2>1 DEF SlotHeld
<1>5. Begun'
  <2>1. \A d \in SignIns : d > started => signIn'[d] = "unused"
    <3> SUFFICES ASSUME NEW d \in SignIns, d > started PROVE signIn'[d] = "unused"
      OBVIOUS
    <3>1. d # c /\ d # waiting
      BY DEF AuthTypeOK, SignIns
    <3> QED BY <1>1, <3>1 DEF Begun
  <2> QED BY <2>1 DEF Begun
<1>6. OnRecord'
  BY <1>3 DEF OnRecord, OwnsSlot, InEngine, Answered
<1> QED BY <1>1, <1>4, <1>5, <1>6

(* Invalidate gives nobody the slot: it only sends the waiter away.        *)
LEMMA InvalidateKeeps ==
    ASSUME AuthInv, Invalidate, UNCHANGED <<started, engineBusy>>
    PROVE  /\ SlotHeld' /\ Begun' /\ signIn' \in [SignIns -> Stages]
           /\ \A d \in SignIns : signIn'[d] \in OwnsSlot => signIn[d] \in OwnsSlot
<1> USE DEF AuthInv
<1>1. \A d \in SignIns : signIn'[d] = IF d = waiting THEN "refused" ELSE signIn[d]
  BY DEF Invalidate, StageAfter, SignIns
<1>2. signIn' \in [SignIns -> Stages]
  BY DEF Invalidate, StageAfter, AuthTypeOK, Stages
<1>3. \A d \in SignIns : signIn'[d] \in OwnsSlot => signIn[d] \in OwnsSlot
  BY <1>1 DEF OwnsSlot, InEngine, Answered
<1>4. SlotHeld'
  <2>1. \A d \in SignIns : signIn'[d] \in OwnsSlot => engineBusy'
    BY <1>3, Zenon DEF SlotHeld
  <2> QED BY <1>3, <2>1 DEF SlotHeld, Invalidate
<1>5. Begun'
  BY <1>1 DEF Begun, Invalidate, AuthTypeOK, SignIns
<1> QED BY <1>2, <1>3, <1>4, <1>5

(* A call enters the engine, or fails to, with the slot to itself.         *)
LEMMA EnterEngineKeeps ==
    ASSUME AuthInv, NEW c \in SignIns, EnterEngine(c),
           c > signedOut, c <= started', started' \in {started, started + 1},
           started' \in 0..MaxSignIns, UNCHANGED <<signedOut, authCrashes>>,
           \A d \in SignIns \ {c} : signIn[d] \notin OwnsSlot, signIn[c] # "waiting"
    PROVE  AuthInv'
<1> USE DEF AuthInv
<1>1. PICK stage \in {"listening", "done"} : 
        /\ signIn' = [signIn EXCEPT ![c] = stage] /\ engineBusy' \in BOOLEAN
        /\ stage = "listening" => engineBusy'
        /\ active' \in {0, c} /\ waiting' = waiting
  BY DEF EnterEngine
<1>2. /\ tokens' \in {0, tokens} /\ account' \in {0, account}
      /\ cleanupRequired' \in BOOLEAN /\ authFaults' \in 0..MaxAuthFaults
      /\ tokens' = 0 \/ cleanupRequired' \/ (~cleanupRequired /\ ~cleanupRequired')
  BY CleanupTakes DEF EnterEngine, NoCleanup, AuthTypeOK
<1>3. AuthTypeOK'
  <2>1. signIn' \in [SignIns -> Stages] /\ engineBusy' \in BOOLEAN
    BY <1>1 DEF AuthTypeOK, Stages, OwnsSlot, InEngine
  <2>2. {active', waiting', account', tokens', signedOut'} \subseteq 0..started'
    BY <1>1, <1>2 DEF AuthTypeOK, SignIns
  <2> QED BY <1>2, <2>1, <2>2 DEF AuthTypeOK
<1>4. SlotHeld'
  <2>1. \A d \in SignIns : signIn'[d] \in OwnsSlot => d = c /\ stage = "listening"
    BY <1>1 DEF AuthTypeOK, OwnsSlot, InEngine, Answered
  <2>2. waiting' # 0 => signIn'[waiting'] = "waiting"
    BY <1>1 DEF SlotHeld, AuthTypeOK, SignIns
  <2> QED BY <1>1, <2>1, <2>2 DEF SlotHeld
<1>5. Begun'
  BY <1>1 DEF Begun, AuthTypeOK, SignIns
<1>6. OnRecord'
  BY <1>1 DEF OnRecord, AuthTypeOK, SignIns, OwnsSlot
<1>7. SignOutHolds'
  BY <1>2 DEF SignOutHolds, AuthTypeOK
<1> QED BY <1>3, <1>4, <1>5, <1>6, <1>7

(***************************************************************************)
(* The steps that leave the slot with its owner.                           *)
(***************************************************************************)
(* login() goes on or fails: only an exchange may change the tokens, to    *)
(* those of the call itself.                                               *)
LEMMA EngineStepKeeps ==
    ASSUME AuthInv, NEW c \in SignIns, NEW from \in InEngine,
           NEW to \in InEngine \union Answered, EngineStep(c, from, to),
           tokens' \in {tokens, c}
    PROVE  AuthInv'
<1> USE DEF AuthInv
<1>1. /\ signIn[c] = from /\ signIn' = [signIn EXCEPT ![c] = to]
      /\ UNCHANGED <<started, active, engineBusy, waiting, cleanupRequired,
                     account, signedOut, authCrashes, authFaults>>
  BY DEF EngineStep
<1>2. c <= started /\ to \in Stages /\ to # "unused"
  BY <1>1, AuthAssumption
     DEF Begun, AuthTypeOK, SignIns, Stages, OwnsSlot, InEngine, Answered
<1>3. AuthTypeOK'
  BY <1>1, <1>2, AuthAssumption DEF AuthTypeOK, SignIns
<1>4. \A d \in SignIns : /\ signIn'[d] \in OwnsSlot => signIn[d] \in OwnsSlot
                         /\ signIn[d] = "waiting" => signIn'[d] = "waiting"
  BY <1>1 DEF AuthTypeOK, OwnsSlot, InEngine
<1>5. SlotHeld'
  <2>1. \A d \in SignIns : signIn'[d] \in OwnsSlot => engineBusy'
    BY <1>1, <1>4, Zenon DEF SlotHeld
  <2>2. waiting \in {0} \union SignIns
    BY AuthAssumption DEF AuthTypeOK, SignIns
  <2> QED BY <1>1, <1>4, <2>1, <2>2 DEF SlotHeld
<1>6. Begun'
  BY <1>1, <1>2 DEF Begun, AuthTypeOK, SignIns
<1>7. OnRecord'
  BY <1>1 DEF OnRecord, AuthTypeOK
<1>8. SignOutHolds'
  BY <1>1 DEF OnRecord, SignOutHolds, AuthTypeOK, SignIns
<1> QED BY <1>3, <1>5, <1>6, <1>7, <1>8

(* The same, for each step of login().                                     *)
LEMMA EngineInv ==
    ASSUME AuthInv, NEW c \in SignIns,
           \/ GiveUp(c) \/ Accept(c) \/ Exchanged(c) \/ NotStored(c)
           \/ \E line \in Lines : ReadLine(c, line)
    PROVE  AuthInv'
<1>1. CASE GiveUp(c)
  BY <1>1, EngineStepKeeps DEF GiveUp, InEngine, Answered
<1>2. CASE Accept(c)
  BY <1>2, EngineStepKeeps DEF Accept, InEngine, Answered
<1>3. CASE Exchanged(c)
  BY <1>3, EngineStepKeeps DEF Exchanged, InEngine, Answered
<1>4. CASE NotStored(c)
  BY <1>4, EngineStepKeeps DEF NotStored, InEngine, Answered
<1>5. ASSUME NEW line \in Lines, ReadLine(c, line) PROVE AuthInv'
  BY <1>5, EngineStepKeeps DEF ReadLine, AfterLine, InEngine, Answered
<1> QED BY <1>1, <1>2, <1>3, <1>4, <1>5

(* A call that does not own the slot ends.                                 *)
LEMMA EndsInv ==
    ASSUME AuthInv, NEW c \in SignIns, Refused(c) \/ ModelsLoaded(c)
    PROVE  AuthInv'
<1> USE DEF AuthInv
<1>1. /\ signIn[c] \in {"refused", "loading"} /\ signIn' = [signIn EXCEPT ![c] = "done"]
      /\ active' \in {0, active}
      /\ UNCHANGED <<started, engineBusy, waiting, cleanupRequired, account,
                     tokens, signedOut, authCrashes, authFaults>>
  BY DEF Refused, ModelsLoaded
<1>2. AuthTypeOK'
  BY <1>1 DEF AuthTypeOK, Stages
<1>3. \A d \in SignIns : signIn'[d] \in OwnsSlot => signIn[d] \in OwnsSlot /\ d # c
  BY <1>1 DEF AuthTypeOK, OwnsSlot, InEngine, Answered
<1>4. SlotHeld'
  <2>1. \A d \in SignIns : signIn'[d] \in OwnsSlot => engineBusy'
    BY <1>1, <1>3, Zenon DEF SlotHeld
  <2>2. waiting' # 0 => signIn'[waiting'] = "waiting"
    BY <1>1, AuthAssumption DEF AuthTypeOK, SlotHeld, SignIns
  <2> QED BY <1>3, <2>1, <2>2 DEF SlotHeld
<1>5. Begun' /\ SignOutHolds'
  BY <1>1, AuthAssumption DEF Begun, SignOutHolds, AuthTypeOK, SignIns
<1>6. OnRecord'
  BY <1>1, <1>3 DEF OnRecord, AuthTypeOK, OwnsSlot
<1> QED BY <1>2, <1>4, <1>5, <1>6

(***************************************************************************)
(* The steps that move the slot, and those of the user.                    *)
(***************************************************************************)
(* codexLogin up to its first await.                                       *)
LEMMA BeginSignInInv ==
    ASSUME AuthInv, BeginSignIn
    PROVE  AuthInv'
<1> USE DEF AuthInv
<1>1. /\ started + 1 \in SignIns /\ started' = started + 1
      /\ UNCHANGED <<signedOut, authCrashes>>
      /\ signIn[started + 1] = "unused"
  BY AuthAssumption DEF BeginSignIn, AuthTypeOK, Begun, SignIns
<1>2. CASE engineBusy
  <2>1. /\ signIn' = [signIn EXCEPT ![started + 1] = "waiting"]
        /\ waiting' = started + 1 /\ active' = started + 1
        /\ UNCHANGED <<engineBusy, tokens, cleanupRequired, account, authFaults>>
    BY <1>1, <1>2 DEF BeginSignIn, NoCleanup
  <2>2. AuthTypeOK'
    BY <1>1, <2>1, AuthAssumption DEF AuthTypeOK, SignIns, Stages
  <2>3. SlotHeld' /\ OnRecord'
    BY <1>1, <2>1 DEF AuthTypeOK, SlotHeld, OnRecord, SignIns, OwnsSlot, InEngine, Answered
  <2>4. Begun' /\ SignOutHolds'
    BY <1>1, <2>1, AuthAssumption DEF AuthTypeOK, Begun, SignOutHolds, SignIns
  <2> QED BY <2>2, <2>3, <2>4
<1>3. CASE ~engineBusy
  <2>1. EnterEngine(started + 1)
    BY <1>1, <1>3 DEF BeginSignIn
  <2>2. \A d \in SignIns : signIn[d] \notin OwnsSlot
    BY <1>3, Zenon DEF SlotHeld
  <2>3. started + 1 > signedOut /\ started' \in 0..MaxSignIns
    BY <1>1, AuthAssumption DEF AuthTypeOK, SignIns
  <2>4. signIn[started + 1] # "waiting" /\ started + 1 <= started'
    BY <1>1, AuthAssumption DEF AuthTypeOK
  <2> QED BY <1>1, <2>1, <2>2, <2>3, <2>4, EnterEngineKeeps
<1> QED BY <1>2, <1>3 DEF AuthTypeOK

(* The waiter has the slot: it goes on, or has been superseded meanwhile.  *)
LEMMA GrantedInv ==
    ASSUME AuthInv, NEW c \in SignIns, Granted(c)
    PROVE  AuthInv'
<1> USE DEF AuthInv
<1>1. /\ signIn[c] = "granted" /\ UNCHANGED <<started, signedOut, authCrashes>>
      /\ c <= started /\ signIn[c] \in OwnsSlot
      /\ \A d \in SignIns \ {c} : signIn[d] \notin OwnsSlot
  BY AuthAssumption DEF Granted, AuthTypeOK, Begun, SlotHeld, SignIns, OwnsSlot
<1>2. CASE active = c
  <2>1. /\ EnterEngine(c) /\ c > signedOut /\ signIn[c] # "waiting"
        /\ started' \in 0..MaxSignIns /\ c <= started'
        /\ started' \in {started, started + 1}
    BY <1>1, <1>2 DEF Granted, AuthTypeOK, Begun, SignIns
  <2> QED BY <1>1, <2>1, EnterEngineKeeps
<1>3. CASE active # c
  <2>1. /\ Release(c, "done") /\ NoCleanup /\ UNCHANGED active
    BY <1>3 DEF Granted
  <2> QED BY <1>1, <2>1, SlotPasses DEF NoCleanup, AuthTypeOK, OnRecord, SignOutHolds
<1> QED BY <1>2, <1>3

(* A superseded success is cleaned up, or put on record, as it returns.    *)
LEMMA SignInReturnsInv ==
    ASSUME AuthInv, NEW c \in SignIns, SignInReturns(c)
    PROVE  AuthInv'
<1> USE DEF AuthInv
<1>1. PICK stage \in {"loading", "done"} : Release(c, stage)
  BY DEF SignInReturns
<1>2. /\ signIn[c] \in OwnsSlot /\ signIn[c] \in InEngine \union Answered
      /\ UNCHANGED <<started, signedOut, authCrashes>> /\ c <= started
  BY AuthAssumption DEF SignInReturns, OwnsSlot, Answered, AuthTypeOK, Begun, SignIns
<1>3. CASE active # c /\ signIn[c] = "stored"
  <2>1. PICK ok \in BOOLEAN : Cleanup(ok) /\ UNCHANGED active
    BY <1>3 DEF SignInReturns
  <2>2. /\ account' = 0 /\ tokens' \in {0, tokens}
        /\ tokens' # 0 => cleanupRequired'
    BY <2>1, CleanupTakes
  <2>3. /\ signIn' \in [SignIns -> Stages] /\ engineBusy' \in BOOLEAN /\ waiting' = 0
        /\ SlotHeld' /\ Begun' /\ OnRecord'
    BY <1>1, <1>2, <2>1, SlotPasses
  <2>4. AuthTypeOK'
    <3>1. {active', waiting', account', tokens', signedOut'} \subseteq 0..started'
      BY <1>2, <2>1, <2>2, <2>3 DEF AuthTypeOK
    <3>2. started' \in 0..MaxSignIns /\ authCrashes' \in 0..MaxAuthCrashes
      BY <1>2 DEF AuthTypeOK
    <3>3. cleanupRequired' \in BOOLEAN /\ authFaults' \in 0..MaxAuthFaults
      BY <2>1, CleanupTakes
    <3>4. signIn' \in [SignIns -> Stages] /\ engineBusy' \in BOOLEAN
      BY <2>3
    <3> QED BY <3>1, <3>2, <3>3, <3>4 DEF AuthTypeOK
  <2>5. SignOutHolds'
    BY <1>2, <2>2 DEF AuthTypeOK, SignOutHolds
  <2> QED BY <2>3, <2>4, <2>5
<1>4. CASE active # c /\ signIn[c] # "stored"
  <2>1. NoCleanup /\ UNCHANGED active
    BY <1>4 DEF SignInReturns
  <2> QED BY <1>1, <1>2, <2>1, SlotPasses DEF NoCleanup, AuthTypeOK, SignOutHolds
<1>5. CASE active = c
  <2>1. /\ account' \in {c, account} /\ active' \in {0, active}
        /\ UNCHANGED <<tokens, cleanupRequired, authFaults>>
    BY <1>5 DEF SignInReturns
  <2>2. c > signedOut /\ c # 0
    BY <1>5 DEF Begun, SignIns, AuthTypeOK
  <2> QED BY <1>1, <1>2, <2>1, <2>2, SlotPasses DEF AuthTypeOK, SignOutHolds, SignIns
<1> QED BY <1>3, <1>4, <1>5

(* A sign-out during a sign-in puts the removal on record first.           *)
LEMMA SignOutInv ==
    ASSUME AuthInv, SignOut
    PROVE  AuthInv'
<1> USE DEF AuthInv
<1>1. Invalidate /\ UNCHANGED <<started, engineBusy, authCrashes>> /\ signedOut' = started
  BY DEF SignOut
<1>2. /\ account' = 0 /\ tokens' \in {0, tokens}
      /\ cleanupRequired' \in BOOLEAN /\ authFaults' \in 0..MaxAuthFaults
      /\ tokens' # 0 \/ engineBusy => cleanupRequired'
  <2>1. CASE engineBusy
    BY <2>1 DEF SignOut, AuthTypeOK
  <2>2. CASE ~engineBusy
    <3>1. PICK ok \in BOOLEAN : Cleanup(ok)
      BY <2>2 DEF SignOut
    <3> QED BY <2>2, <3>1, CleanupTakes
  <2> QED BY <2>1, <2>2
<1>3. /\ SlotHeld' /\ Begun' /\ signIn' \in [SignIns -> Stages]
      /\ \A d \in SignIns : signIn'[d] \in OwnsSlot => signIn[d] \in OwnsSlot
  BY <1>1, InvalidateKeeps
<1>4. AuthTypeOK'
  BY <1>1, <1>2, <1>3 DEF AuthTypeOK, Invalidate
<1>5. OnRecord'
  <2> SUFFICES ASSUME NEW d \in SignIns, signIn'[d] \in InEngine \union Answered
               PROVE  cleanupRequired'
    BY DEF OnRecord
  <2>1. signIn[d] \in OwnsSlot
    BY <1>3 DEF OwnsSlot
  <2>2. engineBusy
    BY <2>1, Zenon DEF SlotHeld
  <2> QED BY <1>2, <2>2
<1>6. SignOutHolds'
  BY <1>1, <1>2 DEF SignOutHolds, AuthTypeOK
<1> QED BY <1>3, <1>4, <1>5, <1>6

(* A cleanup is repeated while the slot is free: nobody can store after it.*)
LEMMA RetryCleanupInv ==
    ASSUME AuthInv, RetryCleanup
    PROVE  AuthInv'
<1> USE DEF AuthInv
<1>1. /\ Invalidate /\ UNCHANGED <<started, engineBusy, signedOut, authCrashes>>
      /\ ~engineBusy
  BY DEF RetryCleanup
<1>2. /\ account' = 0 /\ tokens' \in {0, tokens}
      /\ cleanupRequired' \in BOOLEAN /\ authFaults' \in 0..MaxAuthFaults
      /\ tokens' # 0 => cleanupRequired'
  BY CleanupTakes DEF RetryCleanup
<1>3. /\ SlotHeld' /\ Begun' /\ signIn' \in [SignIns -> Stages]
      /\ \A d \in SignIns : signIn'[d] \in OwnsSlot => signIn[d] \in OwnsSlot
  BY <1>1, InvalidateKeeps
<1>4. AuthTypeOK'
  BY <1>1, <1>2, <1>3 DEF AuthTypeOK, Invalidate
<1>5. OnRecord'
  <2>1. \A d \in SignIns : signIn[d] \notin OwnsSlot
    BY <1>1, Zenon DEF SlotHeld
  <2> QED BY <1>3, <2>1 DEF OnRecord, OwnsSlot
<1>6. SignOutHolds'
  BY <1>1, <1>2 DEF SignOutHolds, AuthTypeOK
<1> QED BY <1>3, <1>4, <1>5, <1>6

(* Nothing of the process survives but the tokens and the record.          *)
LEMMA RelaunchInv ==
    ASSUME AuthInv, Relaunch
    PROVE  AuthInv'
<1> USE DEF AuthInv
<1>1. /\ signIn' = [c \in SignIns |-> IF c <= started THEN "done" ELSE "unused"]
      /\ active' = 0 /\ waiting' = 0 /\ engineBusy' = FALSE
      /\ UNCHANGED <<started, signedOut>> /\ authCrashes' \in 0..MaxAuthCrashes
  BY AuthAssumption DEF Relaunch, AuthTypeOK
<1>2. /\ account' \in {0, tokens} /\ tokens' \in {0, tokens}
      /\ cleanupRequired' \in BOOLEAN /\ authFaults' \in 0..MaxAuthFaults
      /\ tokens' # 0 \/ account' # 0 => cleanupRequired' \/ ~cleanupRequired
      /\ account' # 0 => ~cleanupRequired
  <2>1. CASE cleanupRequired
    <3>1. PICK ok \in BOOLEAN : Cleanup(ok)
      BY <2>1 DEF Relaunch
    <3> QED BY <3>1, CleanupTakes
  <2>2. CASE ~cleanupRequired
    BY <2>2 DEF Relaunch, CurrentAccount, AuthTypeOK
  <2> QED BY <2>1, <2>2
<1>3. AuthTypeOK'
  <2>1. signIn' \in [SignIns -> Stages]
    BY <1>1 DEF Stages
  <2>2. {active', waiting', account', tokens', signedOut'} \subseteq 0..started'
    BY <1>1, <1>2 DEF AuthTypeOK
  <2> QED BY <1>1, <1>2, <2>1, <2>2 DEF AuthTypeOK
<1>4. SlotHeld' /\ OnRecord'
  BY <1>1 DEF SlotHeld, OnRecord, OwnsSlot, InEngine, Answered
<1>5. Begun'
  BY <1>1 DEF Begun, AuthTypeOK, SignIns
<1>6. SignOutHolds'
  BY <1>1, <1>2 DEF SignOutHolds, AuthTypeOK
<1> QED BY <1>3, <1>4, <1>5, <1>6

(***************************************************************************)
(* The invariant.                                                          *)
(***************************************************************************)
(* It holds at the first launch.                                           *)
LEMMA AuthInitInv == AuthInit => AuthInv
<1> SUFFICES ASSUME AuthInit PROVE AuthInv
  OBVIOUS
<1>1. AuthTypeOK
  <2>1. signIn \in [SignIns -> Stages]
    BY DEF AuthInit, Stages
  <2>2. engineBusy \in BOOLEAN /\ cleanupRequired \in BOOLEAN
    BY Zenon DEF AuthInit
  <2>3. /\ started \in 0..MaxSignIns
        /\ {active, waiting, account, tokens, signedOut} \subseteq 0..started
        /\ authCrashes \in 0..MaxAuthCrashes /\ authFaults \in 0..MaxAuthFaults
    BY AuthAssumption DEF AuthInit
  <2> QED BY <2>1, <2>2, <2>3, Zenon DEF AuthTypeOK
<1>2. SlotHeld /\ OnRecord
  BY DEF AuthInit, SlotHeld, OnRecord, OwnsSlot, InEngine, Answered
<1>3. Begun /\ SignOutHolds
  BY DEF AuthInit, Begun, SignOutHolds
<1> QED BY <1>1, <1>2, <1>3 DEF AuthInv

(* Every step of the app, the user or the engine preserves it.             *)
LEMMA AuthNextInv == AuthInv /\ [AuthNext]_authVars => AuthInv'
<1> SUFFICES ASSUME AuthInv, [AuthNext]_authVars PROVE AuthInv'
  OBVIOUS
<1>1. CASE BeginSignIn
  BY <1>1, BeginSignInInv
<1>2. CASE SignOut
  BY <1>2, SignOutInv
<1>3. CASE RetryCleanup
  BY <1>3, RetryCleanupInv
<1>4. CASE Relaunch
  BY <1>4, RelaunchInv
<1>5. ASSUME NEW c \in SignIns,
             \/ Proceeds(c) \/ Accept(c) \/ Exchanged(c) \/ NotStored(c)
             \/ \E line \in Lines : ReadLine(c, line)
      PROVE  AuthInv'
  BY <1>5, GrantedInv, EndsInv, EngineInv, SignInReturnsInv DEF Proceeds
<1>6. CASE UNCHANGED authVars
  BY <1>6 DEF authVars, AuthInv, AuthTypeOK, SlotHeld, Begun, OnRecord, SignOutHolds
<1> QED BY <1>1, <1>2, <1>3, <1>4, <1>5, <1>6 DEF AuthNext

(* The invariant holds throughout.                                         *)
THEOREM AuthInvariant == AuthSpec => []AuthInv
<1> QED BY AuthInitInv, AuthNextInv, PTL DEF AuthSpec

(* Every variable keeps its type.                                          *)
THEOREM AuthTypeCorrect == AuthSpec => []AuthTypeOK
<1>1. AuthInv => AuthTypeOK
  BY DEF AuthInv
<1> QED BY <1>1, AuthInvariant, PTL

(* EngineClient.codexLogout: once the user has signed out, no sign-in that *)
(* began before is signed in on screen, and its tokens are gone or on      *)
(* record for removal, whatever it does later and however often the app    *)
(* dies or the removal fails.                                              *)
THEOREM SignOutIsKept == AuthSpec => []SignOutHolds
<1>1. AuthInv => SignOutHolds
  BY DEF AuthInv
<1> QED BY <1>1, AuthInvariant, PTL

(* The callback port is asked for by one sign-in at a time.                *)
THEOREM OneSlotOwner ==
    AuthSpec => [](\A c, d \in SignIns :
                      signIn[c] \in OwnsSlot /\ signIn[d] \in OwnsSlot => c = d)
<1>1. AuthInv => \A c, d \in SignIns :
                    signIn[c] \in OwnsSlot /\ signIn[d] \in OwnsSlot => c = d
  BY DEF AuthInv, SlotHeld
<1> QED BY <1>1, AuthInvariant, PTL
================================================================================
