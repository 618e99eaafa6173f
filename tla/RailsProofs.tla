------------------------------ MODULE RailsProofs ------------------------------
(***************************************************************************)
(* Proofs about the rails of Tylt and Tekko (MCRails), for any amounts,    *)
(* fees and bounds, any number of callbacks, calls and deliveries under    *)
(* way at once, and queries that fail at any step.                         *)
(*                                                                         *)
(* Each rail has an invariant of its own.  What they share: the handlers   *)
(* of one payment settle one row between them, and the invariant says what *)
(* a handler knows of the provider's order at each step.  It stays true    *)
(* while others move, since an order never leaves its outcome.             *)
(***************************************************************************)
EXTENDS MCRails, TLAPS

-----------------------------------------------------------------------------
(* A payout over Tekko: the request, the deliveries and the status call.   *)

EntryType == {"payout", "payout_refund", "platform_fee"}
Orders == {"none", "sent", "refused", "processing", "completed", "failed"}
Note == [fee : RailFee, sum : Nat, meta : RailFee, next : Steps]

\* Where an actor goes on once a fee is charged.
Continuation == {"idle", "done", "settle", "judge", "ask", "answer"}

\* The reference is one that Tekko knows.
Named == reference \in {"tekko", "other"}

\* A note sends its actor on only where what it was told allows it.
Fits(n) ==
    /\ n.next \in Continuation
    /\ n.next = "settle" => Named /\ Watched = "completed"
    /\ n.next = "judge" => Named
    /\ n.next = "ask" => reference # "none"

\* What holds of order and row when an actor is at a step with a note.
Justified(step, n) ==
    /\ step = "settle" => Named /\ Watched = "completed"
    /\ step = "fail" => misread \/ (Named /\ Watched = "failed")
    /\ step = "denied" => misread
    /\ step \in {"annotate", "judge"} => Named
    /\ step = "refund" => order = "refused"
    /\ step = "locate" => order \in {"processing", "completed", "failed"}
    /\ step \in {"markTell", "tell"} => status \in {"success", "failed"}
    /\ step \notin {"new", "idle"} => status # "none"
    /\ Fits(n)

\* Steps of the request until it has a reference, or has given up on one.
Unrecorded == {"new", "await", "locate", "refund", "unsure"}

\* Only the request starts, and before it there is nothing.
Started(a) ==
    /\ at[a] \in Unrecorded => a = "create" /\ reference = "none"
    /\ at[a] = "new" => status = "none" /\ order = "none"

\* The row follows the withdrawal it names, unless the request gave up on it or
\* an error was misread; until it names one, nobody else settles it.
Followed ==
    /\ order # "none" \/ reference # "none" => status # "none"
    /\ status = "success" => Watched = "completed"
    /\ status = "failed" => \/ Watched \in {"failed", "refused"}
                           \/ at["create"] = "lost" \/ misread
    /\ reference = "none" => /\ ~misread
                             /\ \/ status \in {"none", "pending"}
                                \/ order = "refused" \/ at["create"] = "lost"

IInv == /\ TypeOK
        /\ EntriesMatchStatus
        /\ Followed
        /\ told \subseteq {status}
        /\ \A a \in Actor : Started(a) /\ Justified(at[a], note[a])

\* What most steps leave alone, or change within these bounds.
OtherTypes ==
    /\ charged \in Nat /\ toppedUp \in BOOLEAN /\ returned \in Nat
    /\ balance \in Nat
    /\ storedFee \in RailFee /\ quoted \in RailFee
    /\ event \in {"absent", "received", "processed", "failed"}
    /\ acked \in BOOLEAN
    /\ told \subseteq {"success", "failed"} /\ told \subseteq {status}
    /\ misread \in BOOLEAN /\ errors \in 0 .. MaxError

-----------------------------------------------------------------------------
\* Request, status call and deliveries are different actors.
LEMMA Actors == /\ "create" \in Actor /\ "poll" \in Actor
                /\ \A d \in Delivery : d \in Actor /\ d # "create" /\ d # "poll"
  BY TekkoAssumption DEF Actor

\* Fees are natural numbers.
LEMMA FeesAreNatural == 0 \in RailFee /\ \A fee \in RailFee : fee \in Nat
  BY TekkoAssumption

LEMMA NoNoteType == NoNote \in Note /\ NoNote.next = "idle" /\ Fits(NoNote)
  BY FeesAreNatural DEF NoNote, Note, Steps, Fits, Continuation

LEMMA ReportedFees == ASSUME TypeOK, NEW fee \in Reported PROVE fee \in RailFee
  BY DEF TypeOK, Reported

LEMMA InitIInv == Init => IInv
<1> SUFFICES ASSUME Init PROVE IInv
  OBVIOUS
<1>1. TypeOK
  <2>1. note \in [Actor -> Note]
    BY NoNoteType DEF Init
  <2>2. at \in [Actor -> Steps]
    BY DEF Init, Steps
  <2>3. entries \in [EntryType -> Nat]
    BY DEF Init, EntryType
  <2>4. errors \in 0 .. MaxError /\ balance \in Nat
    BY TekkoAssumption DEF Init
  <2>5. QED
    BY <2>1, <2>2, <2>3, <2>4, FeesAreNatural DEF Init, TypeOK, Note, EntryType
<1>2. EntriesMatchStatus /\ Followed /\ told \subseteq {status}
  BY DEF Init, EntriesMatchStatus, Followed
<1>3. ASSUME NEW a \in Actor PROVE Started(a) /\ Justified(at[a], note[a])
  BY NoNoteType DEF Init, Started, Justified, Unrecorded
<1>4. QED
  BY <1>1, <1>2, <1>3 DEF IInv

\* An actor that goes on, with a note, while row and order stay as they are; it
\* may misread an error on the way.
LEMMA GoesOn ==
  ASSUME IInv, NEW a \in Actor, NEW to \in Steps \ Unrecorded, NEW n \in Note,
         at' = [at EXCEPT ![a] = to], note' = [note EXCEPT ![a] = n],
         at[a] # "lost", Justified(to, n) \/ Justified(to, n)',
         UNCHANGED <<status, entries, order, other, reference>>, OtherTypes',
         misread => misread', misread' => reference # "none"
  PROVE  IInv'
<1>1. TypeOK /\ EntriesMatchStatus /\ Followed
  BY DEF IInv
<1>2. at \in [Actor -> Steps] /\ note \in [Actor -> Note]
  BY <1>1 DEF TypeOK, Note
<1>3. /\ at' \in [Actor -> Steps] /\ note' \in [Actor -> Note]
      /\ \A b \in Actor : at'[b] = IF b = a THEN to ELSE at[b]
      /\ \A b \in Actor : note'[b] = IF b = a THEN n ELSE note[b]
  BY <1>2
<1>4. TypeOK' /\ (told \subseteq {status})'
  BY <1>1, <1>3 DEF TypeOK, OtherTypes, Note, Final
<1>5. EntriesMatchStatus'
  BY <1>1 DEF EntriesMatchStatus
<1>6. Followed'
  BY <1>1, <1>3, Actors DEF Followed, Watched
<1>7. ASSUME NEW step, NEW m, Justified(step, m) PROVE Justified(step, m)'
  BY <1>7 DEF Justified, Fits, Named, Watched
<1>8. ASSUME NEW b \in Actor PROVE (Started(b) /\ Justified(at[b], note[b]))'
  <2>1. Started(b) /\ Justified(at[b], note[b])
    BY DEF IInv
  <2>2. Started(b)'
    BY <1>3, <2>1 DEF Started, Unrecorded
  <2>3. Justified(at[b], note[b])' \/ b = a
    BY <1>3, <1>7, <2>1
  <2>4. Justified(to, n)'
    BY <1>7
  <2>5. Justified(at[b], note[b])'
    BY <1>3, <2>3, <2>4
  <2>6. QED
    BY <2>2, <2>5
<1>9. QED
  BY <1>4, <1>5, <1>6, <1>8 DEF IInv

\* What an actor goes on with when it keeps its note.
LEMMA KeepsNote ==
  ASSUME IInv, NEW a \in Actor, UNCHANGED note
  PROVE  /\ note[a] \in Note /\ note' = [note EXCEPT ![a] = note[a]]
         /\ Fits(note[a])
<1>1. note \in [Actor -> Note]
  BY DEF IInv, TypeOK, Note
<1>2. QED
  BY <1>1 DEF IInv, Justified

\* An error that was misread names a row that has a reference.
LEMMA MisreadIsNamed == IInv => (misread => reference # "none")
  BY DEF IInv, Followed

\* Actors stay where they are, row and order as they are.
LEMMA Stays ==
  ASSUME IInv, OtherTypes',
         UNCHANGED <<status, entries, order, other, reference, misread, at, note>>
  PROVE  IInv'
<1>1. TypeOK /\ EntriesMatchStatus /\ Followed
  BY DEF IInv
<1>2. TypeOK' /\ (told \subseteq {status})'
  BY <1>1 DEF TypeOK, OtherTypes, Final
<1>3. EntriesMatchStatus' /\ Followed'
  BY <1>1 DEF EntriesMatchStatus, Followed, Watched
<1>4. ASSUME NEW b \in Actor PROVE (Started(b) /\ Justified(at[b], note[b]))'
  BY DEF IInv, Started, Justified, Fits, Named, Watched
<1>5. QED
  BY <1>2, <1>3, <1>4 DEF IInv

-----------------------------------------------------------------------------
(* The request *)

\* The request moves on to a step at which it still has no reference.
LEMMA StillUnrecorded ==
  ASSUME IInv, NEW to \in {"refund", "locate", "unsure"}, Move("create", "await", to),
         to = "refund" => order = "refused",
         to = "locate" => order \in {"processing", "completed", "failed"},
         UNCHANGED <<money, storedFee, reference, tekko, webhook, note, limits>>
  PROVE  IInv'
<1>1. TypeOK /\ at \in [Actor -> Steps] /\ EntriesMatchStatus /\ Followed
  BY DEF IInv, TypeOK
<1>2. UNCHANGED <<status, entries, charged, toppedUp, returned, balance, storedFee,
                  reference, order, quoted, other, event, acked, told, note,
                  misread, errors>>
  BY DEF money, row, rail, tekko, webhook, limits
<1>3. /\ at' \in [Actor -> Steps] /\ at["create"] = "await"
      /\ \A b \in Actor : at'[b] = IF b = "create" THEN to ELSE at[b]
  BY <1>1 DEF Move, Steps
<1>4. TypeOK' /\ EntriesMatchStatus' /\ (told \subseteq {status})'
  BY <1>1, <1>2, <1>3 DEF IInv, TypeOK, EntriesMatchStatus, Final
<1>5. Followed'
  BY <1>1, <1>2, <1>3, Actors DEF Followed, Watched
<1>6. ASSUME NEW b \in Actor PROVE (Started(b) /\ Justified(at[b], note[b]))'
  <2>1. Started(b) /\ Justified(at[b], note[b])
    BY DEF IInv
  <2>2. Started(b)'
    BY <1>2, <1>3, <2>1 DEF Started, Unrecorded
  <2>3. Fits(note[b])'
    BY <1>2, <2>1 DEF Justified, Fits, Named, Watched
  <2>4. Justified(at[b], note[b])'
    BY <1>2, <1>3, <2>1, <2>3 DEF Justified, Named, Watched
  <2>5. QED
    BY <2>2, <2>4
<1>7. QED
  BY <1>4, <1>5, <1>6 DEF IInv

LEMMA KeptByAnswer ==
  ASSUME IInv, Answered \/ Unanswered
  PROVE  IInv'
<1>1. PICK to \in {"refund", "locate", "unsure"} :
        /\ Move("create", "await", to)
        /\ to = "refund" => order = "refused"
        /\ to = "locate" => order \in {"processing", "completed", "failed"}
  BY DEF Answered, Unanswered, Final
<1>2. UNCHANGED <<money, storedFee, reference, tekko, webhook, note, limits>>
  BY DEF Answered, Unanswered
<1>3. QED
  BY <1>1, <1>2, StillUnrecorded

\* Before the reference is recorded nobody has acted on one: the row is pending.
LEMMA KeptByRecord ==
  ASSUME IInv, Record
  PROVE  IInv'
<1>1. /\ TypeOK /\ EntriesMatchStatus /\ Followed
      /\ at \in [Actor -> Steps] /\ note \in [Actor -> Note]
  BY DEF IInv, TypeOK, Note
<1>2. PICK fee \in {0, quoted} \cup IF reference' = "other" THEN RailFee ELSE {} :
        /\ storedFee' = fee
        /\ IF fee = 0
           THEN Move("create", "locate", "done") /\ UNCHANGED note
           ELSE /\ Move("create", "locate", "fee")
                /\ note' = [note EXCEPT !["create"] =
                               [NoNote EXCEPT !.fee = fee, !.next = "done"]]
  BY DEF Record
<1>3. fee \in RailFee
  BY <1>1, FeesAreNatural DEF TypeOK
<1>4. /\ UNCHANGED <<status, entries, charged, toppedUp, returned, balance, order,
                     quoted, other, event, acked, told, misread, errors>>
      /\ reference' \in {"tekko", "interim", "other"} /\ at["create"] = "locate"
  BY DEF Record, money, row, rail, tekko, webhook, limits
<1>5. /\ reference = "none" /\ order \in {"processing", "completed", "failed"}
      /\ status # "none"
  BY <1>4, Actors DEF IInv, Started, Justified, Unrecorded
<1>6. status = "pending" /\ ~misread
  BY <1>1, <1>4, <1>5 DEF Followed, TypeOK
<1>7. PICK to \in {"done", "fee"} :
        /\ at' \in [Actor -> Steps]
        /\ \A b \in Actor : at'[b] = IF b = "create" THEN to ELSE at[b]
  BY <1>1, <1>2 DEF Move, Steps
<1>8. /\ note' \in [Actor -> Note]
      /\ \A b \in Actor : \/ note'[b] = note[b]
                          \/ b = "create" /\ note'[b].next = "done"
  <2> DEFINE n == [NoNote EXCEPT !.fee = fee, !.next = "done"]
  <2>1. n \in Note /\ n.next = "done"
    BY <1>3, NoNoteType DEF Note, Steps
  <2>2. UNCHANGED note \/ note' = [note EXCEPT !["create"] = n]
    BY <1>2
  <2> HIDE DEF n
  <2>3. QED
    BY <1>1, <2>1, <2>2
<1>9. TypeOK' /\ EntriesMatchStatus' /\ (told \subseteq {status})'
  BY <1>1, <1>2, <1>3, <1>4, <1>7, <1>8 DEF IInv, TypeOK, EntriesMatchStatus, Final, Note
<1>10. Followed'
  BY <1>4, <1>5, <1>6 DEF Followed
<1>11. ASSUME NEW b \in Actor PROVE (Started(b) /\ Justified(at[b], note[b]))'
  <2>1. Started(b) /\ Justified(at[b], note[b])
    BY DEF IInv
  <2>2. Started(b)'
    BY <1>4, <1>5, <1>6, <1>7, <2>1 DEF Started, Unrecorded
  <2>3. Fits(note[b])
    BY <2>1 DEF Justified
  <2>4. Fits(note[b])'
    BY <1>4, <1>5, <1>8, <2>3 DEF Fits, Named, Continuation
  <2>5. CASE b = "create"
    <3>1. at'[b] \in {"done", "fee"} /\ status' # "none"
      BY <1>4, <1>6, <1>7, <2>5, Actors
    <3>2. Justified(at[b], note[b])'
      BY <2>4, <3>1 DEF Justified
    <3>3. QED
      BY <2>2, <3>2
  <2>6. CASE b # "create"
    <3>1. at'[b] = at[b] /\ at[b] \notin Unrecorded
      BY <1>7, <2>1, <2>6 DEF Started
    <3>2. Justified(at[b], note[b])'
      BY <1>4, <1>5, <1>6, <2>1, <2>4, <3>1 DEF Justified, Named, Unrecorded
    <3>3. QED
      BY <2>2, <3>2
  <2>7. QED
    BY <2>2, <2>5, <2>6
<1>12. QED
  BY <1>9, <1>10, <1>11 DEF IInv

LEMMA KeptByRecordRefused ==
  ASSUME IInv, RecordRefused
  PROVE  IInv'
<1>1. /\ at' = [at EXCEPT !["create"] = "gone"] /\ at["create"] = "locate"
      /\ UNCHANGED <<status, entries, order, other, reference, misread, note>>
  BY DEF RecordRefused, Move, money, row, tekko, limits
<1>2. OtherTypes'
  BY DEF IInv, TypeOK, OtherTypes, RecordRefused, money, row, rail, tekko, webhook,
         limits
<1>3. status # "none"
  BY <1>1, Actors DEF IInv, Justified
<1>4. /\ note["create"] \in Note /\ note' = [note EXCEPT !["create"] = note["create"]]
      /\ Justified("gone", note["create"])
  BY <1>1, <1>3, Actors, KeepsNote DEF Justified
<1>5. "gone" \in Steps \ Unrecorded
  BY DEF Steps, Unrecorded
<1>6. QED
  BY <1>1, <1>2, <1>4, <1>5, Actors, GoesOn, MisreadIsNamed

-----------------------------------------------------------------------------
(* Tekko's fee *)

LEMMA KeptBySumCharges ==
  ASSUME IInv, NEW a \in Actor, SumCharges(a)
  PROVE  IInv'
<1> DEFINE n == [note[a] EXCEPT !.sum = charged]
<1>1. note \in [Actor -> Note] /\ charged \in Nat
  BY DEF IInv, TypeOK, Note
<1>2. at[a] = "fee" /\ at' = [at EXCEPT ![a] = "charge"]
  BY DEF SumCharges, Move
<1>3. note' = [note EXCEPT ![a] = n]
  BY <1>1 DEF SumCharges
<1>4. n \in Note /\ n.next = note[a].next
  BY <1>1 DEF Note
<1>5. UNCHANGED <<status, entries, order, other, reference, misread>>
  BY DEF SumCharges, money, row, tekko, limits
<1>6. OtherTypes'
  BY DEF IInv, TypeOK, OtherTypes, SumCharges, money, row, rail, tekko, webhook,
         limits
<1>7. Justified("charge", n)
  BY <1>2, <1>4 DEF IInv, Justified, Fits
<1>8. "charge" \in Steps \ Unrecorded
  BY DEF Steps, Unrecorded
<1> HIDE DEF n
<1>9. QED
  BY <1>2, <1>3, <1>4, <1>5, <1>6, <1>7, <1>8, GoesOn, MisreadIsNamed

LEMMA KeptByChargeFee ==
  ASSUME IInv, NEW a \in Actor, ChargeFee(a)
  PROVE  IInv'
<1> DEFINE due == note[a].fee - note[a].sum
           to == note[a].next
<1>1. TypeOK /\ note \in [Actor -> Note]
  BY DEF IInv, TypeOK, Note
<1>2. note[a].fee \in RailFee /\ note[a].fee \in Nat /\ note[a].sum \in Nat
  BY <1>1, FeesAreNatural DEF Note
<1>3. at[a] = "charge" /\ at' = [at EXCEPT ![a] = to]
  BY DEF ChargeFee, Move
<1>4. PICK n \in Note : /\ note' = [note EXCEPT ![a] = n]
                        /\ n.next = "idle" \/ (n.next = note[a].next /\ n.next = "ask")
  <2> DEFINE judging == [NoNote EXCEPT !.fee = note[a].fee]
             asking == [note[a] EXCEPT !.sum = 0, !.fee = 0]
  <2>1. judging \in Note /\ judging.next = "idle"
    BY <1>2, NoNoteType DEF Note
  <2>2. asking \in Note /\ asking.next = note[a].next
    BY <1>1, FeesAreNatural DEF Note
  <2>3. \/ note' = [note EXCEPT ![a] = judging]
        \/ note' = [note EXCEPT ![a] = asking] /\ note[a].next = "ask"
        \/ note' = [note EXCEPT ![a] = NoNote]
    BY <1>1 DEF ChargeFee, ForgetCharge
  <2>4. NoNote \in Note /\ NoNote.next = "idle"
    BY NoNoteType
  <2>5. \E n \in {judging, asking, NoNote} :
           /\ n \in Note /\ note' = [note EXCEPT ![a] = n]
           /\ n.next = "idle" \/ (n.next = note[a].next /\ n.next = "ask")
    <3> HIDE DEF judging, asking
    <3>1. CASE note' = [note EXCEPT ![a] = judging]
      BY <2>1, <3>1
    <3>2. CASE note' = [note EXCEPT ![a] = asking] /\ note[a].next = "ask"
      BY <2>2, <3>2
    <3>3. CASE note' = [note EXCEPT ![a] = NoNote]
      BY <2>4, <3>3
    <3>4. QED
      BY <2>3, <3>1, <3>2, <3>3
  <2>6. QED
    BY <2>5, Zenon
<1>5. UNCHANGED <<status, entries, order, other, reference, misread>>
  BY DEF ChargeFee, row, tekko, limits
<1>6. charged' \in Nat /\ balance' \in Nat /\ toppedUp' \in BOOLEAN
  <2>1. charged \in Nat /\ balance \in Nat /\ toppedUp \in BOOLEAN
    BY <1>1 DEF TypeOK
  <2>2. \/ UNCHANGED <<charged, balance, toppedUp>>
        \/ /\ due > 0 /\ balance >= due
           /\ charged' = charged + due /\ balance' = balance - due
           /\ toppedUp' \in BOOLEAN
    BY <2>1 DEF ChargeFee
  <2>3. due \in Int
    BY <1>2
  <2> HIDE DEF due
  <2>4. QED
    BY <2>1, <2>2, <2>3
<1>7. storedFee' \in RailFee
  BY <1>1, <1>2 DEF ChargeFee, TypeOK
<1>8. OtherTypes'
  BY <1>1, <1>6, <1>7 DEF IInv, TypeOK, OtherTypes, ChargeFee, row, tekko, webhook,
         limits
<1>9. Fits(note[a]) /\ status # "none"
  BY <1>3 DEF IInv, Justified
<1>10. Justified(to, n)
  <2>1. Fits(n)
    BY <1>4, <1>9 DEF Fits, Continuation
  <2>2. QED
    BY <1>9, <2>1 DEF Justified, Fits, Continuation
<1>11. to \in Steps \ Unrecorded
  BY <1>9 DEF Fits, Continuation, Steps, Unrecorded
<1> HIDE DEF to
<1>12. QED
  BY <1>3, <1>4, <1>5, <1>8, <1>10, <1>11, GoesOn, MisreadIsNamed

-----------------------------------------------------------------------------
(* The row *)

\* The row is written while it is pending, as the order calls for, or because
\* the request gives up.
LEMMA RowSettles ==
  ASSUME IInv, NEW a \in Actor, NEW to \in Steps \ Unrecorded, NEW n \in Note,
         at' = [at EXCEPT ![a] = to], note' = [note EXCEPT ![a] = n],
         at[a] # "lost", Justified(to, n)',
         status = "pending", status' \in {"success", "failed"},
         entries' \in [EntryType -> Nat], EntriesMatchStatus',
         status' = "success" => Named /\ Watched = "completed",
         status' = "failed" => \/ Named /\ Watched = "failed"
                               \/ misread \/ (order = "refused" /\ reference = "none")
                               \/ a = "create" /\ to = "lost",
         UNCHANGED <<order, other, reference, misread>>, OtherTypes'
  PROVE  IInv'
<1>1. TypeOK /\ Followed
  BY DEF IInv
<1>2. at \in [Actor -> Steps] /\ note \in [Actor -> Note]
  BY <1>1 DEF TypeOK, Note
<1>3. /\ at' \in [Actor -> Steps] /\ note' \in [Actor -> Note]
      /\ \A b \in Actor : at'[b] = IF b = a THEN to ELSE at[b]
      /\ \A b \in Actor : note'[b] = IF b = a THEN n ELSE note[b]
  BY <1>2
<1>4. TypeOK' /\ (told \subseteq {status})'
  BY <1>1, <1>3 DEF TypeOK, OtherTypes, Note, Final, EntryType
<1>5. Followed'
  BY <1>1, <1>3, Actors DEF Followed, Watched, Named
<1>6. ASSUME NEW b \in Actor PROVE (Started(b) /\ Justified(at[b], note[b]))'
  <2>1. Started(b) /\ Justified(at[b], note[b])
    BY DEF IInv
  <2>2. Started(b)'
    BY <1>3, <2>1 DEF Started, Unrecorded
  <2>3. Justified(at[b], note[b])' \/ b = a
    BY <1>3, <2>1 DEF Justified, Fits, Named, Watched
  <2>4. Justified(at[b], note[b])'
    BY <1>3, <2>3
  <2>5. QED
    BY <2>2, <2>4
<1>7. QED
  BY <1>4, <1>5, <1>6 DEF IInv

\* A refund while the payout is pending: of the amount and of Tekko's fee.
LEMMA RefundEntries ==
  ASSUME IInv, status = "pending", NEW meta \in RailFee, FailWithRefund(meta)
  PROVE  /\ status' = "failed" /\ entries' \in [EntryType -> Nat]
         /\ EntriesMatchStatus'
         /\ returned' \in Nat /\ balance' \in Nat /\ UNCHANGED <<charged, toppedUp>>
<1>1. /\ entries \in [EntryType -> Nat] /\ charged \in Nat /\ returned \in Nat
      /\ balance \in Nat /\ meta \in Nat /\ Amount \in Nat
  BY FeesAreNatural, TekkoAssumption DEF IInv, TypeOK, EntryType
<1>2. RailRefund(meta) \in Nat
  BY <1>1 DEF RailRefund
<1>3. returned' \in Nat /\ balance' \in Nat
  BY <1>1, <1>2 DEF FailWithRefund
<1>4. /\ entries.payout = 1 /\ entries.payout_refund = 0
      /\ entries.platform_fee <= 0
  BY DEF IInv, EntriesMatchStatus
<1>5. status' = "failed" /\ entries' = [entries EXCEPT !.payout_refund = @ + 1]
  BY DEF FailWithRefund
<1>6. /\ entries' \in [EntryType -> Nat] /\ entries'.payout = 1
      /\ entries'.payout_refund = 1 /\ entries'.platform_fee <= 0
  BY <1>1, <1>4, <1>5 DEF EntryType
<1>7. QED
  BY <1>3, <1>5, <1>6 DEF EntriesMatchStatus, FailWithRefund

LEMMA KeptByDebit ==
  ASSUME IInv, Debit
  PROVE  IInv'
<1>1. TypeOK /\ at \in [Actor -> Steps] /\ note \in [Actor -> Note]
  BY DEF IInv, TypeOK, Note
<1>2. /\ at["create"] = "new" /\ at' = [at EXCEPT !["create"] = "await"]
      /\ UNCHANGED <<note, charged, toppedUp, returned, storedFee, reference,
                     quoted, other, event, acked, told, misread, errors>>
      /\ status' = "pending" /\ order' = "sent"
      /\ entries' = [entries EXCEPT !.payout = 1]
  BY DEF Debit, Move, rail, webhook, limits
<1>3. status = "none" /\ order = "none" /\ reference = "none" /\ ~misread
  BY <1>2, Actors DEF IInv, Started, Unrecorded, Followed
<1>4. balance' \in Nat
  BY <1>1, TekkoAssumption DEF Debit, TypeOK
<1>5. /\ at' \in [Actor -> Steps] /\ "await" \in Steps
      /\ \A b \in Actor : at'[b] = IF b = "create" THEN "await" ELSE at[b]
  BY <1>1, <1>2 DEF Steps
<1>6. entries \in [EntryType -> Nat]
  BY <1>1 DEF TypeOK, EntryType
<1>7. entries' \in [EntryType -> Nat] /\ EntriesMatchStatus'
  BY <1>2, <1>3, <1>6 DEF IInv, EntriesMatchStatus, EntryType
<1>8. TypeOK' /\ (told \subseteq {status})'
  BY <1>1, <1>2, <1>3, <1>4, <1>5, <1>7 DEF IInv, TypeOK, EntryType, Final
<1>9. Followed'
  BY <1>2, <1>3 DEF Followed
<1>10. ASSUME NEW b \in Actor PROVE (Started(b) /\ Justified(at[b], note[b]))'
  <2>1. Started(b) /\ Justified(at[b], note[b])
    BY DEF IInv
  <2>2. at[b] \in {"new", "idle"}
    BY <1>3, <2>1 DEF Justified
  <2>3. Started(b)'
    BY <1>2, <1>3, <1>5, <2>1 DEF Started, Unrecorded
  <2>4. Fits(note[b])'
    BY <1>2, <1>3, <2>1 DEF Justified, Fits, Named
  <2>5. Justified(at[b], note[b])'
    BY <1>2, <1>5, <2>2, <2>4 DEF Justified
  <2>6. QED
    BY <2>3, <2>5
<1>11. QED
  BY <1>7, <1>8, <1>9, <1>10 DEF IInv

LEMMA KeptByRefundPending ==
  ASSUME IInv, RefundPending
  PROVE  IInv'
<1>1. PICK to \in {"done", "lost"} :
        /\ at' = [at EXCEPT !["create"] = to]
        /\ \/ to = "lost" /\ at["create"] = "unsure"
           \/ to = "done" /\ at["create"] = "refund"
  BY DEF RefundPending, Move
<1>2. UNCHANGED <<note, order, other, storedFee, reference, quoted, event, acked,
                  told, misread, errors>>
  BY DEF RefundPending, tekko, webhook, limits
<1>3. to = "done" => order = "refused" /\ reference = "none"
  BY <1>1, Actors DEF IInv, Justified, Started, Unrecorded
<1>4. status # "none"
  BY <1>1, Actors DEF IInv, Justified
<1>5. PICK n \in Note : /\ note' = [note EXCEPT !["create"] = n]
                        /\ Fits(n)
  BY <1>2, Actors, KeepsNote
<1>6. to \in Steps \ Unrecorded /\ at["create"] # "lost"
  BY <1>1 DEF Steps, Unrecorded
<1>7. CASE status = "pending"
  <2>1. FailWithRefund(storedFee) /\ storedFee \in RailFee
    BY <1>7 DEF RefundPending, IInv, TypeOK
  <2>2. /\ status' = "failed" /\ entries' \in [EntryType -> Nat]
        /\ EntriesMatchStatus'
        /\ returned' \in Nat /\ balance' \in Nat /\ UNCHANGED <<charged, toppedUp>>
    BY <1>7, <2>1, RefundEntries
  <2>3. OtherTypes'
    BY <1>2, <1>7, <2>2 DEF IInv, TypeOK, OtherTypes
  <2>4. Justified(to, n)'
    BY <1>1, <1>2, <1>5, <2>2 DEF Justified, Fits, Named, Watched
  <2>5. /\ status' \in {"success", "failed"} /\ status' # "success"
        /\ UNCHANGED <<order, other, reference, misread>>
    BY <1>2, <2>2
  <2>6. \/ order = "refused" /\ reference = "none"
        \/ to = "lost"
    BY <1>3, <1>1
  <2>7. QED
    BY <1>1, <1>5, <1>6, <1>7, <2>2, <2>3, <2>4, <2>5, <2>6, Actors, RowSettles
<1>8. CASE status # "pending"
  <2>1. UNCHANGED <<status, entries, order, other, reference, misread, charged,
                    toppedUp, returned, balance>>
    BY <1>2, <1>8 DEF RefundPending, money, row, rail
  <2>2. OtherTypes'
    BY <1>2, <2>1 DEF IInv, TypeOK, OtherTypes
  <2>3. Justified(to, n)
    BY <1>1, <1>4, <1>5 DEF Justified
  <2>4. QED
    BY <1>1, <1>5, <1>6, <2>1, <2>2, <2>3, Actors, GoesOn, MisreadIsNamed
<1>9. QED
  BY <1>7, <1>8

LEMMA KeptBySettle ==
  ASSUME IInv, NEW a \in Actor, a # "create", Settle(a)
  PROVE  IInv'
<1>1. PICK to \in {Applied(a), Ignored(a)} :
        /\ at' = [at EXCEPT ![a] = to] /\ at[a] = "settle"
        /\ \/ to = Applied(a) /\ status = "pending"
           \/ to = Ignored(a) /\ status # "pending"
  BY DEF Settle, Move
<1>2. UNCHANGED <<note, order, other, charged, toppedUp, returned, storedFee,
                  reference, quoted, event, acked, told, misread, errors>>
  BY DEF Settle, rail, tekko, webhook, limits
<1>3. Named /\ Watched = "completed" /\ status # "none"
  BY <1>1 DEF IInv, Justified
<1>4. PICK n \in Note : /\ note' = [note EXCEPT ![a] = n]
                        /\ Fits(n)
  BY <1>2, KeepsNote
<1>5. /\ to \in {"answer", "mark", "markTell", "tell", "idle"}
      /\ to \in Steps \ Unrecorded
  BY <1>1 DEF Steps, Unrecorded, Applied, Ignored
<1>6. CASE status = "pending"
  <2>1. status' = "success" /\ CollectFee
    BY <1>6 DEF Settle
  <2>2. entries \in [EntryType -> Nat] /\ balance \in Nat
    BY DEF IInv, TypeOK, EntryType
  <2>3. /\ entries.payout = 1 /\ entries.payout_refund = 0
        /\ entries.platform_fee <= 0
    BY <1>6 DEF IInv, EntriesMatchStatus
  <2>4. entries.platform_fee \in Nat
    BY <2>2 DEF EntryType
  <2>5. /\ entries' \in [EntryType -> Nat] /\ entries'.payout = 1
        /\ entries'.payout_refund = 0 /\ entries'.platform_fee <= 1
    BY <2>1, <2>2, <2>3, <2>4 DEF CollectFee, EntryType
  <2>6. EntriesMatchStatus'
    BY <2>1, <2>5 DEF EntriesMatchStatus
  <2>7. balance' \in Nat
    BY <2>1, <2>2, TekkoAssumption DEF CollectFee
  <2>8. OtherTypes'
    BY <1>2, <1>6, <2>7 DEF IInv, TypeOK, OtherTypes
  <2>9. Justified(to, n)'
    BY <1>2, <1>4, <1>5, <2>1 DEF Justified, Fits, Named, Watched
  <2>10. /\ status' \in {"success", "failed"} /\ status' # "failed"
         /\ UNCHANGED <<order, other, reference, misread>>
    BY <1>2, <2>1
  <2>11. QED
    BY <1>1, <1>3, <1>4, <1>5, <1>6, <2>5, <2>6, <2>8, <2>9, <2>10, RowSettles
<1>7. CASE status # "pending"
  <2>1. UNCHANGED <<status, entries, order, other, reference, misread, balance>>
    BY <1>2, <1>7 DEF Settle, row
  <2>2. OtherTypes'
    BY <1>2, <2>1 DEF IInv, TypeOK, OtherTypes
  <2>3. Justified(to, n)
    BY <1>1, <1>3, <1>4, <1>5, <1>7 DEF Justified, Ignored, Applied
  <2>4. QED
    BY <1>1, <1>4, <1>5, <2>1, <2>2, <2>3, GoesOn, MisreadIsNamed
<1>8. QED
  BY <1>6, <1>7

LEMMA KeptByFail ==
  ASSUME IInv, NEW a \in Actor, a # "create", Fail(a)
  PROVE  IInv'
<1>1. PICK to \in {Applied(a), Ignored(a)} :
        /\ at' = [at EXCEPT ![a] = to] /\ at[a] = "fail"
        /\ to = Ignored(a) \/ status = "pending"
  BY DEF Fail, Move
<1>2. UNCHANGED <<order, other, storedFee, reference, quoted, event, acked, told,
                  misread, errors>>
  BY DEF Fail, tekko, webhook, limits
<1>3. misread \/ (Named /\ Watched = "failed")
  BY <1>1 DEF IInv, Justified
<1>4. note' = [note EXCEPT ![a] = NoNote] /\ NoNote \in Note
  BY NoNoteType DEF Fail, Forget
<1>5. /\ to \in {"answer", "mark", "markTell", "tell", "idle"}
      /\ to \in Steps \ Unrecorded
  BY <1>1 DEF Steps, Unrecorded, Applied, Ignored
<1>6. CASE status = "pending"
  <2>1. FailWithRefund(note[a].meta) /\ note[a].meta \in RailFee
    BY <1>6 DEF Fail, IInv, TypeOK
  <2>2. /\ status' = "failed" /\ entries' \in [EntryType -> Nat]
        /\ EntriesMatchStatus'
        /\ returned' \in Nat /\ balance' \in Nat /\ UNCHANGED <<charged, toppedUp>>
    BY <1>6, <2>1, RefundEntries
  <2>3. OtherTypes'
    BY <1>2, <1>6, <2>2 DEF IInv, TypeOK, OtherTypes
  <2>4. Justified(to, NoNote)'
    BY <1>5, <2>2, NoNoteType DEF Justified, Fits, Continuation, NoNote
  <2>5. /\ status' \in {"success", "failed"} /\ status' # "success"
        /\ UNCHANGED <<order, other, reference, misread>>
    BY <1>2, <2>2
  <2>6. /\ at[a] # "lost" /\ (status' = "success" => Named /\ Watched = "completed")
        /\ status' = "failed" => \/ Named /\ Watched = "failed"
                                 \/ misread \/ (order = "refused" /\ reference = "none")
                                 \/ a = "create" /\ to = "lost"
    BY <1>1, <1>3, <2>2
  <2>7. /\ at' = [at EXCEPT ![a] = to] /\ note' = [note EXCEPT ![a] = NoNote]
        /\ to \in Steps \ Unrecorded /\ NoNote \in Note
    BY <1>1, <1>4, <1>5
  <2>8. QED
    BY <1>6, <2>2, <2>3, <2>4, <2>5, <2>6, <2>7, RowSettles, Zenon
<1>7. CASE status # "pending"
  <2>1. UNCHANGED <<status, entries, order, other, reference, misread, charged,
                    toppedUp, returned, balance>>
    BY <1>2, <1>7 DEF Fail, money, row, rail
  <2>2. OtherTypes'
    BY <1>2, <2>1 DEF IInv, TypeOK, OtherTypes
  <2>3. status # "none" /\ Justified(to, NoNote)
    BY <1>1, <1>5, <1>7, NoNoteType DEF IInv, Justified, Applied, Ignored
  <2>4. QED
    BY <1>1, <1>4, <1>5, <2>1, <2>2, <2>3, GoesOn, MisreadIsNamed
<1>8. QED
  BY <1>6, <1>7

-----------------------------------------------------------------------------
(* Tekko, and the merchant's other payouts *)

\* A withdrawal, of this payout or of the other one, that has no outcome yet gets
\* on: nobody relies on it.
LEMMA WithdrawalsMove ==
  ASSUME IInv, OtherTypes',
         UNCHANGED <<status, entries, reference, at, note, misread>>,
         \/ UNCHANGED order
         \/ /\ order \in {"sent", "processing"}
            /\ order' \in {"refused", "processing", "completed", "failed"},
         order = "processing" => order' # "refused",
         \/ UNCHANGED other
         \/ /\ other \in {"none", "processing"}
            /\ other' \in {"processing", "completed", "failed"}
  PROVE  IInv'
<1>1. TypeOK /\ EntriesMatchStatus /\ Followed
  BY DEF IInv
<1>2. TypeOK' /\ (told \subseteq {status})'
  BY <1>1 DEF TypeOK, OtherTypes, Final
<1>3. EntriesMatchStatus'
  BY <1>1 DEF EntriesMatchStatus
<1>4. Watched \in {"completed", "failed", "refused"} => UNCHANGED Watched
  BY <1>1 DEF Watched, TypeOK, Final
<1>5. Followed'
  BY <1>1, <1>4 DEF Followed
<1>6. ASSUME NEW b \in Actor PROVE (Started(b) /\ Justified(at[b], note[b]))'
  <2>1. Started(b) /\ Justified(at[b], note[b])
    BY DEF IInv
  <2>2. Started(b)'
    BY <1>1, <2>1 DEF Started, Followed, Unrecorded
  <2>3. Fits(note[b])'
    BY <1>4, <2>1 DEF Justified, Fits, Named
  <2>4. Justified(at[b], note[b])'
    BY <1>4, <2>1, <2>3 DEF Justified, Named
  <2>5. QED
    BY <2>2, <2>4
<1>7. QED
  BY <1>2, <1>3, <1>5, <1>6 DEF IInv

LEMMA KeptByTekko ==
  ASSUME IInv, Tekko
  PROVE  IInv'
<1>1. /\ UNCHANGED <<status, entries, charged, toppedUp, returned, balance,
                     storedFee, reference, event, acked, told, at, note, misread,
                     errors>>
      /\ quoted' \in RailFee
  BY DEF Tekko, TekkoReceives, TekkoSettles, OtherSettles, money, row, rail, webhook,
         limits, IInv, TypeOK
<1>2. /\ \/ UNCHANGED order
         \/ /\ order \in {"sent", "processing"}
            /\ order' \in {"refused", "processing", "completed", "failed"}
      /\ order = "processing" => order' # "refused"
      /\ \/ UNCHANGED other
         \/ /\ other \in {"none", "processing"}
            /\ other' \in {"processing", "completed", "failed"}
  BY DEF Tekko, TekkoReceives, TekkoSettles, OtherSettles, Final
<1>3. OtherTypes'
  BY <1>1 DEF IInv, TypeOK, OtherTypes
<1>4. QED
  BY <1>1, <1>2, <1>3, WithdrawalsMove

LEMMA KeptBySpend ==
  ASSUME IInv, Spend
  PROVE  IInv'
<1>1. /\ UNCHANGED <<status, entries, order, reference, at, note, misread>>
      /\ other = "none" /\ other' = "processing"
  BY DEF Spend, row, limits
<1>2. balance' \in Nat
  BY TekkoAssumption DEF Spend, IInv, TypeOK
<1>3. OtherTypes'
  BY <1>2 DEF Spend, IInv, TypeOK, OtherTypes, row, rail, webhook, limits
<1>4. order = "processing" => order' # "refused"
  BY <1>1
<1>5. QED
  BY <1>1, <1>3, <1>4, WithdrawalsMove

-----------------------------------------------------------------------------
(* Deliveries and status calls *)

LEMMA KeptByClaim ==
  ASSUME IInv, NEW d \in Delivery, Claim(d)
  PROVE  IInv'
<1>1. UNCHANGED <<status, entries, order, other, reference, misread, note>> /\ d \in Actor
  BY Actors DEF Claim, money, row, tekko, limits
<1>2. OtherTypes'
  BY DEF Claim, IInv, TypeOK, OtherTypes, money, row, rail, tekko, limits
<1>3. CASE UNCHANGED at
  BY <1>1, <1>2, <1>3, Stays
<1>4. CASE Move(d, "idle", "look")
  <2>1. at[d] = "idle" /\ at' = [at EXCEPT ![d] = "look"]
    BY <1>4 DEF Move
  <2>2. status # "none"
    BY DEF Claim, IInv, Followed, Final
  <2>3. PICK n \in Note : /\ note' = [note EXCEPT ![d] = n]
                          /\ Fits(n)
    BY <1>1, KeepsNote
  <2>4. Justified("look", n) /\ "look" \in Steps \ Unrecorded
    BY <2>2, <2>3 DEF Justified, Steps, Unrecorded
  <2>5. QED
    BY <1>1, <1>2, <2>1, <2>3, <2>4, GoesOn, MisreadIsNamed
<1>5. QED
  BY <1>3, <1>4 DEF Claim

LEMMA KeptByLookUp ==
  ASSUME IInv, NEW d \in Delivery, LookUp(d) \/ ClaimOther(d)
  PROVE  IInv'
<1>1. /\ UNCHANGED <<status, entries, order, other, reference, misread>>
      /\ d \in Actor
  BY Actors DEF LookUp, ClaimOther, money, row, tekko, limits
<1>2. OtherTypes'
  BY DEF LookUp, ClaimOther, IInv, TypeOK, OtherTypes, money, row, rail, tekko,
         webhook, limits
<1>3. PICK to \in {"annotate", "mark"} :
        /\ at[d] \in {"look", "idle"} /\ at' = [at EXCEPT ![d] = to]
        /\ to = "annotate" => Named
        /\ at[d] = "look" \/ reference = "other"
  BY DEF LookUp, ClaimOther, Move, Named
<1>4. status # "none" /\ storedFee \in RailFee
  <2>1. CASE at[d] = "look"
    BY <1>1, <2>1 DEF IInv, Justified, TypeOK
  <2>2. CASE reference = "other"
    BY <2>2 DEF IInv, Followed, TypeOK
  <2>3. QED
    BY <1>3, <2>1, <2>2
<1>5. PICK n \in Note : note' = [note EXCEPT ![d] = n] /\ Fits(n)
  <2>1. CASE UNCHANGED note
    BY <1>1, <2>1, KeepsNote
  <2>2. CASE note' = [note EXCEPT ![d] = [NoNote EXCEPT !.meta = storedFee]]
    <3>1. /\ [NoNote EXCEPT !.meta = storedFee] \in Note
          /\ [NoNote EXCEPT !.meta = storedFee].next = "idle"
      BY <1>4, NoNoteType DEF Note
    <3>2. QED
      BY <2>2, <3>1 DEF Fits, Continuation
  <2>3. QED
    BY <2>1, <2>2 DEF LookUp, ClaimOther
<1>6. Justified(to, n) /\ to \in Steps \ Unrecorded
  BY <1>3, <1>4, <1>5 DEF Justified, Steps, Unrecorded
<1>7. QED
  BY <1>1, <1>2, <1>3, <1>5, <1>6, GoesOn, MisreadIsNamed

LEMMA KeptByAnnotate ==
  ASSUME IInv, NEW d \in Delivery, Annotate(d)
  PROVE  IInv'
<1>1. UNCHANGED <<status, entries, order, other, reference, misread>> /\ d \in Actor
  BY Actors DEF Annotate, money, row, tekko, limits
<1>2. PICK fee \in Reported :
         /\ StoreReport(d, fee)
         /\ note' = [note EXCEPT ![d] = [NoNote EXCEPT !.fee = fee]]
  BY DEF Annotate
<1>3. fee \in RailFee /\ note[d].meta \in RailFee
  BY <1>1, ReportedFees DEF IInv, TypeOK
<1>4. storedFee' \in RailFee
  BY <1>2, <1>3 DEF StoreReport
<1>5. OtherTypes'
  BY <1>4 DEF Annotate, IInv, TypeOK, OtherTypes, money, row, rail, tekko,
         webhook, limits
<1>6. at[d] = "annotate" /\ at' = [at EXCEPT ![d] = "judge"]
  BY DEF Annotate, Move
<1>7. PICK n \in Note : note' = [note EXCEPT ![d] = n] /\ n.next = "idle"
  <2>1. /\ [NoNote EXCEPT !.fee = fee] \in Note
        /\ [NoNote EXCEPT !.fee = fee].next = "idle"
    BY <1>3, NoNoteType DEF Note
  <2>2. QED
    BY <1>2, <2>1
<1>8. Justified("judge", n) /\ "judge" \in Steps \ Unrecorded
  BY <1>1, <1>6, <1>7 DEF IInv, Justified, Fits, Steps, Continuation, Unrecorded
<1>9. QED
  BY <1>1, <1>5, <1>6, <1>7, <1>8, GoesOn, MisreadIsNamed

\* What is decided on the row follows what is read of the order.
LEMMA KeptByJudge ==
  ASSUME IInv, NEW a \in Actor, Judge(a)
  PROVE  IInv'
<1>1. UNCHANGED <<status, entries, order, other, reference, misread>>
  BY DEF Judge, money, row, tekko, limits
<1>2. OtherTypes'
  BY DEF Judge, IInv, TypeOK, OtherTypes, money, row, rail, tekko, webhook, limits
<1>3. /\ storedFee \in RailFee /\ note[a].fee \in RailFee
      /\ at[a] \in {"judge", "denied"} /\ status # "none"
      /\ at[a] = "judge" => Named
      /\ at[a] = "denied" => misread
  BY DEF Judge, Move, IInv, TypeOK, Justified
<1>4. PICK to \in {"answer", "mark", "idle", "fail", "fee", "settle"}, n \in Note :
        /\ at' = [at EXCEPT ![a] = to] /\ note' = [note EXCEPT ![a] = n]
        /\ to = "settle" => Named /\ Watched = "completed"
        /\ to = "fail" => misread \/ (Named /\ Watched = "failed")
        /\ Fits(n)
  <2>1. CASE status # "pending"
    BY <2>1, NoNoteType DEF Judge, Move, Forget, Ignored
  <2>2. CASE /\ status = "pending"
             /\ \/ Watched = "failed" /\ Move(a, "judge", "fail")
                \/ Move(a, "denied", "fail")
             /\ note' = [note EXCEPT ![a] = [NoNote EXCEPT !.meta = storedFee]]
    <3>1. /\ [NoNote EXCEPT !.meta = storedFee] \in Note
          /\ Fits([NoNote EXCEPT !.meta = storedFee])
      BY <1>3, NoNoteType DEF Note, Fits, Continuation
    <3>2. /\ at' = [at EXCEPT ![a] = "fail"]
          /\ misread \/ (Named /\ Watched = "failed")
      BY <1>3, <2>2 DEF Move
    <3>3. QED
      BY <2>2, <3>1, <3>2
  <2>3. CASE LET fee == IF note[a].fee > 0 THEN note[a].fee ELSE storedFee IN
             /\ status = "pending" /\ Watched = "completed"
             /\ Move(a, "judge", IF fee > 0 THEN "fee" ELSE "settle")
             /\ note' = [note EXCEPT ![a] = IF fee = 0 THEN NoNote ELSE
                            [NoNote EXCEPT !.fee = fee, !.next = "settle"]]
    <3> DEFINE fee == IF note[a].fee > 0 THEN note[a].fee ELSE storedFee
               n == IF fee = 0 THEN NoNote
                    ELSE [NoNote EXCEPT !.fee = fee, !.next = "settle"]
               to == IF fee > 0 THEN "fee" ELSE "settle"
    <3>1. fee \in RailFee
      BY <1>3
    <3>2. n \in Note /\ n.next \in {"idle", "settle"}
      BY <3>1, NoNoteType DEF Note, Steps
    <3>3. at' = [at EXCEPT ![a] = to] /\ note' = [note EXCEPT ![a] = n]
      BY <2>3 DEF Move
    <3>4. to \in {"fee", "settle"}
      OBVIOUS
    <3>5. Named /\ Watched = "completed"
      BY <1>3, <2>3 DEF Move
    <3> HIDE DEF n, to
    <3>6. Fits(n)
      BY <3>2, <3>5 DEF Fits, Continuation
    <3>7. QED
      BY <3>2, <3>3, <3>4, <3>5, <3>6
  <2>4. QED
    BY <2>1, <2>2, <2>3 DEF Judge
<1>5. Justified(to, n) /\ to \in Steps \ Unrecorded
  BY <1>3, <1>4 DEF Justified, Steps, Unrecorded
<1>6. at[a] # "lost"
  BY <1>3
<1>7. QED
  BY <1>1, <1>2, <1>4, <1>5, <1>6, GoesOn, MisreadIsNamed

LEMMA KeptByMarkProcessed ==
  ASSUME IInv, NEW d \in Delivery, MarkProcessed(d) \/ TellOther(d)
  PROVE  IInv'
<1>1. /\ UNCHANGED <<status, entries, order, other, reference, misread, note>>
      /\ d \in Actor
  BY Actors DEF MarkProcessed, TellOther, money, row, tekko, limits
<1>2. at[d] \in {"mark", "markTell", "tell"} /\ at' = [at EXCEPT ![d] = "idle"]
  BY DEF MarkProcessed, TellOther, Move
<1>3. (told \subseteq {"success", "failed"})' /\ (told \subseteq {status})'
  <2>1. told \subseteq {"success", "failed"} /\ told \subseteq {status}
    BY DEF IInv, TypeOK
  <2>2. at[d] \in {"markTell", "tell"} => status \in {"success", "failed"}
    BY <1>1 DEF IInv, Justified
  <2>3. \/ told' = told
        \/ told' = told \cup {status} /\ at[d] \in {"markTell", "tell"}
    BY DEF MarkProcessed, TellOther, Move
  <2>4. QED
    BY <1>1, <2>1, <2>2, <2>3
<1>4. OtherTypes'
  BY <1>3 DEF MarkProcessed, TellOther, IInv, TypeOK, OtherTypes, money, row, rail,
         tekko, limits
<1>5. PICK n \in Note : note' = [note EXCEPT ![d] = n] /\ Fits(n)
  BY <1>1, KeepsNote
<1>6. Justified("idle", n) /\ "idle" \in Steps \ Unrecorded
  BY <1>5 DEF Justified, Steps, Unrecorded
<1>7. QED
  BY <1>1, <1>2, <1>4, <1>5, <1>6, GoesOn, MisreadIsNamed

LEMMA KeptByPoll ==
  ASSUME IInv, Poll
  PROVE  IInv'
<1> DEFINE n == [NoNote EXCEPT !.fee = storedFee, !.meta = storedFee,
                     !.next = IF status = "pending" /\ reference # "none"
                              THEN "ask" ELSE "answer"]
<1>1. UNCHANGED <<status, entries, order, other, reference, misread>> /\ status # "none"
  BY DEF Poll, money, row, tekko, limits
<1>2. OtherTypes'
  BY DEF Poll, IInv, TypeOK, OtherTypes, money, row, rail, tekko, webhook, limits
<1>3. PICK to \in {"fee", "ask"} :
        at["poll"] = "idle" /\ at' = [at EXCEPT !["poll"] = to]
  BY DEF Poll, Move
<1>4. note' = [note EXCEPT !["poll"] = n]
  BY DEF Poll
<1>5. /\ n \in Note /\ n.next \in {"ask", "answer"}
      /\ n.next = "ask" => reference # "none"
  <2>1. storedFee \in RailFee
    BY DEF IInv, TypeOK
  <2>2. QED
    BY <2>1, NoNoteType DEF Note, Steps
<1> HIDE DEF n
<1>6. Justified(to, n) /\ to \in Steps \ Unrecorded
  BY <1>1, <1>5 DEF Justified, Fits, Continuation, Steps, Unrecorded
<1>7. QED
  BY <1>1, <1>2, <1>3, <1>4, <1>5, <1>6, Actors, GoesOn, MisreadIsNamed

\* What an answer of Tekko leads to is about the withdrawal that is watched; an
\* error that is misread leads to a refusal.
LEMMA KeptByAsk ==
  ASSUME IInv, Ask
  PROVE  IInv'
<1>1. /\ UNCHANGED <<status, entries, order, other, reference>> /\ at["poll"] = "ask"
      /\ note \in [Actor -> Note] /\ TypeOK
  BY DEF Ask, Move, money, row, tekko, IInv, TypeOK, Note
<1>2. /\ note["poll"].meta \in RailFee /\ storedFee \in RailFee /\ 0 \in RailFee
      /\ status # "none" /\ Fits(note["poll"])
  BY <1>1, Actors, FeesAreNatural DEF IInv, TypeOK, Justified
<1>3. ASSUME storedFee' \in RailFee, misread' \in BOOLEAN, errors' \in 0 .. MaxError
      PROVE  OtherTypes'
  BY <1>3 DEF Ask, IInv, TypeOK, OtherTypes, money, row, rail, tekko, webhook
<1>4. CASE /\ note["poll"].next = "ask" /\ reference \in {"tekko", "other"}
           /\ Watched \in {"processing"} \cup Final
           /\ \E fee \in Reported :
                 LET then == IF Watched \in Final THEN "judge" ELSE "answer" IN
                 /\ StoreReport("poll", fee)
                 /\ Move("poll", "ask", IF fee > 0 THEN "fee" ELSE then)
                 /\ note' = [note EXCEPT !["poll"] =
                                [NoNote EXCEPT !.fee = fee, !.next = then]]
           /\ UNCHANGED limits
  <2> DEFINE then == IF Watched \in Final THEN "judge" ELSE "answer"
  <2>1. PICK fee \in Reported :
          /\ StoreReport("poll", fee)
          /\ Move("poll", "ask", IF fee > 0 THEN "fee" ELSE then)
          /\ note' = [note EXCEPT !["poll"] = [NoNote EXCEPT !.fee = fee, !.next = then]]
    BY <1>4
  <2> DEFINE n == [NoNote EXCEPT !.fee = fee, !.next = then]
             to == IF fee > 0 THEN "fee" ELSE then
  <2>2. fee \in RailFee
    BY <1>1, ReportedFees
  <2>3. n \in Note /\ n.next = then /\ then \in {"judge", "answer"}
    BY <2>2, NoNoteType DEF Note, Steps
  <2>4. at' = [at EXCEPT !["poll"] = to] /\ note' = [note EXCEPT !["poll"] = n]
    BY <2>1 DEF Move
  <2>5. to \in {"fee", then}
    OBVIOUS
  <2> HIDE DEF n, to
  <2>6. Named
    BY <1>4 DEF Named
  <2>7. Justified(to, n) /\ to \in Steps \ Unrecorded
    BY <1>2, <2>3, <2>5, <2>6 DEF Justified, Fits, Continuation, Steps, Unrecorded
  <2>8. storedFee' \in RailFee /\ UNCHANGED <<misread, errors>>
    BY <1>2, <1>4, <2>1, <2>2 DEF StoreReport, limits
  <2>9. OtherTypes'
    BY <1>1, <1>3, <2>8 DEF TypeOK
  <2>10. QED
    BY <1>1, <2>3, <2>4, <2>7, <2>8, <2>9, Actors, GoesOn, MisreadIsNamed
<1>5. CASE /\ note["poll"].next = "ask"
           /\ Move("poll", "ask", "denied")
           /\ StoreReport("poll", 0) /\ Forget("poll")
           /\ errors < MaxError
           /\ errors' = errors + 1 /\ misread' = TRUE
  <2>1. at' = [at EXCEPT !["poll"] = "denied"] /\ note' = [note EXCEPT !["poll"] = NoNote]
    BY <1>5 DEF Move, Forget
  <2>2. misread' /\ reference # "none"
    BY <1>2, <1>5 DEF Fits
  <2>3. Fits(NoNote)'
    BY NoNoteType, <1>1 DEF Fits, NoNote
  <2>4. Justified("denied", NoNote)' /\ "denied" \in Steps \ Unrecorded
    BY <1>1, <1>2, <2>2, <2>3 DEF Justified, Steps, Unrecorded
  <2>5. OtherTypes'
    <3>1. errors' \in 0 .. MaxError
      BY <1>1, <1>5, TekkoAssumption DEF TypeOK
    <3>2. storedFee' \in RailFee
      BY <1>2, <1>5 DEF StoreReport
    <3>3. QED
      BY <1>3, <1>5, <3>1, <3>2
  <2>6. QED
    BY <1>1, <2>1, <2>2, <2>4, <2>5, Actors, NoNoteType, GoesOn
<1>6. CASE /\ Move("poll", "ask", "answer")
           /\ Forget("poll") /\ UNCHANGED <<storedFee, limits>>
  <2>1. /\ at' = [at EXCEPT !["poll"] = "answer"]
        /\ note' = [note EXCEPT !["poll"] = NoNote]
        /\ UNCHANGED <<storedFee, misread, errors>>
    BY <1>6 DEF Move, Forget, limits
  <2>2. Justified("answer", NoNote) /\ "answer" \in Steps \ Unrecorded
    BY <1>2, NoNoteType DEF Justified, Steps, Unrecorded
  <2>3. OtherTypes'
    BY <1>1, <1>2, <1>3, <2>1 DEF TypeOK
  <2>4. QED
    BY <1>1, <2>1, <2>2, <2>3, Actors, NoNoteType, GoesOn, MisreadIsNamed
<1>7. QED
  BY <1>4, <1>5, <1>6 DEF Ask

LEMMA KeptByAnswerOfPoll ==
  ASSUME IInv, Answer
  PROVE  IInv'
<1>1. /\ UNCHANGED <<status, entries, order, other, reference, misread, note>>
      /\ at["poll"] = "answer" /\ at' = [at EXCEPT !["poll"] = "idle"]
  BY DEF Answer, Move, money, row, tekko, limits
<1>2. status # "none"
  BY <1>1, Actors DEF IInv, Justified
<1>3. (told \subseteq {"success", "failed"})' /\ (told \subseteq {status})'
  <2>1. told \subseteq {"success", "failed"} /\ told \subseteq {status}
    BY DEF IInv, TypeOK
  <2>2. status \in {"pending", "success", "failed"}
    BY <1>2 DEF IInv, TypeOK
  <2>3. told' = told \/ (told' = told \cup {status} /\ status # "pending")
    BY DEF Answer
  <2>4. QED
    BY <1>1, <2>1, <2>2, <2>3
<1>4. OtherTypes'
  BY <1>3 DEF Answer, IInv, TypeOK, OtherTypes, money, row, rail, tekko, limits
<1>5. PICK n \in Note : note' = [note EXCEPT !["poll"] = n] /\ Fits(n)
  BY <1>1, Actors, KeepsNote
<1>6. Justified("idle", n) /\ "idle" \in Steps \ Unrecorded
  BY <1>5 DEF Justified, Steps, Unrecorded
<1>7. QED
  BY <1>1, <1>4, <1>5, <1>6, Actors, GoesOn, MisreadIsNamed

LEMMA KeptByActorFails ==
  ASSUME IInv, NEW a \in Actor, ActorFails(a)
  PROVE  IInv'
<1>1. UNCHANGED <<status, entries, order, other, reference, misread>>
  BY DEF ActorFails, money, row, tekko, limits
<1>2. errors' \in 0 .. MaxError
  BY TekkoAssumption DEF ActorFails, IInv, TypeOK
<1>3. event' \in {"absent", "received", "processed", "failed"}
  BY DEF ActorFails, IInv, TypeOK
<1>4. OtherTypes'
  BY <1>2, <1>3 DEF ActorFails, IInv, TypeOK, OtherTypes, money, row, rail, tekko
<1>5. PICK to \in {"gone", "idle"} :
        /\ at' = [at EXCEPT ![a] = to]
        /\ at[a] \notin {"new", "idle", "done", "lost", "gone"}
  BY DEF ActorFails
<1>6. note' = [note EXCEPT ![a] = NoNote] /\ NoNote \in Note
  BY NoNoteType DEF ActorFails, Forget
<1>7. Justified(to, NoNote) /\ to \in Steps \ Unrecorded
  BY <1>5, NoNoteType DEF IInv, Justified, Steps, Unrecorded
<1>8. QED
  BY <1>1, <1>4, <1>5, <1>6, <1>7, GoesOn, MisreadIsNamed

-----------------------------------------------------------------------------
LEMMA KeptByFinalize ==
  ASSUME IInv, NEW a \in Actor, a # "create", Finalize(a)
  PROVE  IInv'
  BY KeptBySumCharges, KeptByChargeFee, KeptByJudge, KeptBySettle, KeptByFail
  DEF Finalize

\* Every step of every actor keeps the invariant.
LEMMA NextIInv == IInv /\ [Next]_vars => IInv'
<1> SUFFICES ASSUME IInv, [Next]_vars PROVE IInv'
  OBVIOUS
<1>1. CASE UNCHANGED vars
  <2>1. UNCHANGED <<status, entries, order, other, reference, misread, at, note>>
    BY <1>1 DEF vars, money, row, tekko, limits
  <2>2. OtherTypes'
    BY <1>1 DEF vars, money, row, rail, tekko, webhook, limits, IInv, TypeOK,
           OtherTypes
  <2>3. QED
    BY <2>1, <2>2, Stays
<1>2. CASE Debit
  BY <1>2, KeptByDebit
<1>3. CASE RequestStep
  BY <1>3, Actors, KeptByAnswer, KeptByRefundPending, KeptByRecord,
     KeptByRecordRefused, KeptBySumCharges, KeptByChargeFee
  DEF RequestStep
<1>4. CASE Tekko
  BY <1>4, KeptByTekko
<1>5. ASSUME NEW d \in Delivery, DeliveryStep(d) PROVE IInv'
  BY <1>5, Actors, KeptByClaim, KeptByLookUp, KeptByAnnotate, KeptByFinalize,
     KeptByMarkProcessed
  DEF DeliveryStep
<1>6. CASE PollStep
  BY <1>6, Actors, KeptByPoll, KeptByAsk, KeptByFinalize, KeptByAnswerOfPoll
  DEF PollStep
<1>7. CASE Spend
  BY <1>7, KeptBySpend
<1>8. ASSUME NEW a \in Actor, ActorFails(a) PROVE IInv'
  BY <1>8, KeptByActorFails
<1>9. QED
  BY <1>1, <1>2, <1>3, <1>4, <1>5, <1>6, <1>7, <1>8 DEF Next

\* Row and order stay in step, whichever of request, deliveries and status call
\* settles the payout, and what each has read stays true until it acts on it.
THEOREM InvariantAlways == Spec => []IInv
<1>1. QED
  BY InitIInv, NextIInv, PTL DEF Spec

\* One debit, one refund if and only if the payout failed, at most one platform
\* fee and only on success: finalizeTekkoNgnPayoutSuccess and ...Failure and the
\* request's refund each claim the pending row by a conditional UPDATE.
THEOREM EntriesMatchStatusAlways == Spec => []EntriesMatchStatus
<1>1. IInv => EntriesMatchStatus
  BY DEF IInv
<1>2. QED
  BY <1>1, InvariantAlways, PTL

\* A payout counts as paid only if the withdrawal that its reference names was
\* paid, and is given back only if that one failed or this one was refused, but
\* for a create call without an answer and an error that a status call misread;
\* and the merchant is told nothing else.
THEOREM SettledAsReportedAlways == Spec => []SettledAsReported
<1>1. IInv => SettledAsReported
  BY DEF IInv, Followed, SettledAsReported
<1>2. QED
  BY <1>1, InvariantAlways, PTL

\* Until a payout failed, nothing of Tekko's fee is given back.
Unreturned == status # "failed" => returned = 0

\* The row moves in three ways: the debit, a refund and the settlement.
LEMMA RowMoves ==
  ASSUME IInv, [Next]_vars
  PROVE  \/ UNCHANGED <<status, returned>>
         \/ Debit
         \/ status = "pending" /\ \E meta \in RailFee : FailWithRefund(meta)
         \/ /\ status = "pending" /\ status' = "success"
            /\ CollectFee /\ UNCHANGED rail
<1>1. CASE UNCHANGED vars
  BY <1>1 DEF vars, money, row, rail
<1>2. storedFee \in RailFee /\ \A a \in Actor : note[a].meta \in RailFee
  BY DEF IInv, TypeOK
<1>3. CASE UNCHANGED money
  BY <1>3 DEF money, row, rail
<1>4. CASE RefundPending
  BY <1>2, <1>3, <1>4 DEF RefundPending
<1>5. ASSUME NEW a \in Actor, Settle(a)
      PROVE  \/ UNCHANGED <<status, returned>>
             \/ /\ status = "pending" /\ status' = "success"
                /\ CollectFee /\ UNCHANGED rail
  BY <1>5 DEF Settle, row, rail
<1>6. ASSUME NEW a \in Actor, Fail(a)
      PROVE  \/ UNCHANGED money
             \/ status = "pending" /\ \E meta \in RailFee : FailWithRefund(meta)
  BY <1>2, <1>6 DEF Fail
<1>7. ASSUME NEW a \in Actor, Finalize(a)
      PROVE  \/ UNCHANGED <<status, returned>>
             \/ Settle(a) \/ Fail(a)
  BY <1>7 DEF Finalize, SumCharges, ChargeFee, Judge, money, row, rail
<1>8. ASSUME NEW d \in Delivery, DeliveryStep(d)
      PROVE  UNCHANGED money \/ Finalize(d)
  BY <1>8 DEF DeliveryStep, Claim, LookUp, ClaimOther, Annotate, MarkProcessed,
              TellOther
<1>9. CASE PollStep
  <2>1. UNCHANGED money \/ Finalize("poll")
    BY <1>9 DEF PollStep, Poll, Ask, Answer
  <2> QED  BY <1>3, <1>5, <1>6, <1>7, <2>1, Actors
<1>10. CASE RequestStep
  <2>1. UNCHANGED <<status, returned>> \/ RefundPending
    BY <1>10 DEF RequestStep, Answered, Unanswered, Record, RecordRefused, SumCharges,
                 ChargeFee, money, row, rail
  <2> QED  BY <1>4, <2>1
<1>11. CASE Tekko \/ Spend \/ \E a \in Actor : ActorFails(a)
  BY <1>11 DEF Tekko, TekkoReceives, TekkoSettles, OtherSettles, Spend, ActorFails,
               money, row, rail
<1>12. CASE \E d \in Delivery : DeliveryStep(d)
  <2>1. PICK d \in Delivery : DeliveryStep(d)
    BY <1>12
  <2>2. d \in Actor
    BY Actors
  <2> QED  BY <1>3, <1>5, <1>6, <1>7, <1>8, <2>1, <2>2
<1> QED  BY <1>1, <1>9, <1>10, <1>11, <1>12 DEF Next

\* Each of the three is a step of the promise, and its refund gives the whole
\* amount back.
LEMMA MovesArePromised ==
  ASSUME IInv, Unreturned, [Next]_vars
  PROVE  Unreturned' /\ (AsPayoutOrder!Next \/ UNCHANGED status)
<1>1. /\ status \in {"none", "pending", "success", "failed"}
      /\ balance \in Nat /\ charged \in Nat /\ returned \in Nat
      /\ Amount \in Nat /\ Fee \in Nat
      /\ at["create"] = "new" => status = "none"
  BY TekkoAssumption, Actors DEF IInv, TypeOK, Started
<1>2. CASE UNCHANGED <<status, returned>>
  BY <1>2 DEF Unreturned
<1>3. CASE Debit
  <2>1. status = "none" /\ status' = "pending" /\ returned = 0 /\ returned' = 0
        /\ balance >= Amount + Fee /\ balance' = balance - Amount
    BY <1>1, <1>3 DEF Debit, Move, rail, Unreturned
  <2>2. AsPayoutOrder!Hold(1)
    BY <1>1, <2>1 DEF AsPayoutOrder!Hold
  <2> QED  BY <2>1, <2>2 DEF AsPayoutOrder!Next, Unreturned
<1>4. ASSUME status = "pending", NEW meta \in RailFee, FailWithRefund(meta)
      PROVE  Unreturned' /\ AsPayoutOrder!Next
  <2>1. RailRefund(meta) \in Nat
    BY <1>1, FeesAreNatural DEF RailRefund
  <2> DEFINE back == RailRefund(meta)
  <2>2. status' = "failed" /\ returned' = returned + back
        /\ balance' = balance + Amount + back
    BY <1>4 DEF FailWithRefund
  <2> HIDE DEF back
  <2>3. balance' - returned' = balance - returned + Amount
    BY <1>1, <2>1, <2>2 DEF back
  <2>4. AsPayoutOrder!Return(1)
    BY <1>4, <2>2, <2>3 DEF AsPayoutOrder!Return
  <2> QED  BY <2>2, <2>4 DEF AsPayoutOrder!Next, Unreturned
<1>5. CASE /\ status = "pending" /\ status' = "success"
           /\ CollectFee /\ UNCHANGED rail
  <2>1. returned = 0 /\ returned' = 0
    BY <1>5 DEF Unreturned, rail
  <2>2. balance' = IF balance >= Fee THEN balance - Fee ELSE balance
    BY <1>1, <1>5 DEF CollectFee
  <2>3. balance' - returned' = IF balance - returned >= Fee
                               THEN balance - returned - Fee ELSE balance - returned
    BY <1>1, <2>1, <2>2
  <2>4. AsPayoutOrder!Settle(1)
    BY <1>5, <2>3 DEF AsPayoutOrder!Settle
  <2> QED  BY <1>5, <2>1, <2>4 DEF AsPayoutOrder!Next, Unreturned
<1> QED  BY <1>2, <1>3, <1>4, <1>5, RowMoves

\* Whatever Tekko charges and the merchant's other payouts take meanwhile, a
\* payout sets its amount aside once and then stays spent or comes back once:
\* the three conditional UPDATEs of createTekkoNgnPayout and the finalizers.
THEOREM ImplementsPayoutOrderAlways == Spec => ImplementsPayoutOrder
<1>1. Init => Unreturned /\ AsPayoutOrder!Init
  BY TekkoAssumption DEF Init, Unreturned, AsPayoutOrder!Init
<1>2. IInv /\ Unreturned /\ [Next]_vars
      => Unreturned' /\ [AsPayoutOrder!Next \/ UNCHANGED status]_<<status, balance, returned>>
  BY MovesArePromised
<1>3. QED
  BY <1>1, <1>2, InvariantAlways, PTL DEF Spec, ImplementsPayoutOrder

\* Of what was charged so far, an actor knows nothing, or what he knew, or all.
LEMMA SumsAreRead ==
  ASSUME IInv, [Next]_vars
  PROVE  \A b \in Actor : note'[b].sum \in {0, note[b].sum, charged}
<1> DEFINE Kept == \A b \in Actor : note'[b].sum \in {0, note[b].sum, charged}
<1>1. note \in [Actor -> Note] /\ NoNote.sum = 0
  BY DEF IInv, TypeOK, Note, NoNote
<1>2. UNCHANGED note => Kept
  OBVIOUS
<1>3. ASSUME NEW a \in Actor, NEW n, n.sum \in {0, note[a].sum, charged},
             note' = [note EXCEPT ![a] = n]
      PROVE  Kept
  BY <1>1, <1>3
<1>4. ASSUME NEW a \in Actor, note' = [note EXCEPT ![a] = NoNote] PROVE Kept
  BY <1>1, <1>3, <1>4
<1>5. ASSUME NEW a \in Actor, Finalize(a) PROVE Kept
  <2>1. CASE SumCharges(a)
    <3> DEFINE n == [note[a] EXCEPT !.sum = charged]
    <3>1. note' = [note EXCEPT ![a] = n] /\ n.sum = charged
      BY <1>1, <2>1 DEF SumCharges, Note
    <3> HIDE DEF n
    <3> QED  BY <1>3, <3>1
  <2>2. CASE ChargeFee(a)
    <3> DEFINE m == [NoNote EXCEPT !.fee = note[a].fee]
               n == [note[a] EXCEPT !.sum = 0, !.fee = 0]
    <3>1. m.sum = 0 /\ n.sum = 0
      BY <1>1 DEF NoNote, Note
    <3>2. \/ note' = [note EXCEPT ![a] = NoNote]
          \/ note' = [note EXCEPT ![a] = m]
          \/ note' = [note EXCEPT ![a] = n]
      BY <1>1, <2>2 DEF ChargeFee, ForgetCharge
    <3> HIDE DEF m, n
    <3>3. CASE note' = [note EXCEPT ![a] = m]
      BY <1>3, <3>1, <3>3
    <3>4. CASE note' = [note EXCEPT ![a] = n]
      BY <1>3, <3>1, <3>4
    <3> QED  BY <1>4, <3>2, <3>3, <3>4
  <2>3. CASE Judge(a)
    <3> DEFINE fee == IF note[a].fee > 0 THEN note[a].fee ELSE storedFee
               m == [NoNote EXCEPT !.meta = storedFee]
               n == [NoNote EXCEPT !.fee = fee, !.next = "settle"]
    <3>1. m.sum = 0 /\ n.sum = 0
      BY DEF NoNote
    <3>2. \/ note' = [note EXCEPT ![a] = NoNote]
          \/ note' = [note EXCEPT ![a] = m]
          \/ note' = [note EXCEPT ![a] = IF fee = 0 THEN NoNote ELSE n]
      BY <2>3 DEF Judge, Forget
    <3> HIDE DEF fee, m, n
    <3>3. CASE note' = [note EXCEPT ![a] = m]
      BY <1>3, <3>1, <3>3
    <3>4. CASE note' = [note EXCEPT ![a] = n]
      BY <1>3, <3>1, <3>4
    <3> QED  BY <1>4, <3>2, <3>3, <3>4
  <2>4. CASE Settle(a) \/ Fail(a)
    BY <1>2, <1>4, <2>4 DEF Settle, Fail, Forget
  <2> QED  BY <1>5, <2>1, <2>2, <2>3, <2>4 DEF Finalize
<1>6. ASSUME NEW d \in Delivery, DeliveryStep(d) PROVE Kept
  <2>1. d \in Actor
    BY Actors
  <2>2. CASE Claim(d) \/ MarkProcessed(d) \/ TellOther(d)
    BY <1>2, <2>2 DEF Claim, MarkProcessed, TellOther
  <2>3. CASE LookUp(d) \/ ClaimOther(d)
    <3> DEFINE n == [NoNote EXCEPT !.meta = storedFee]
    <3>1. n.sum = 0
      BY DEF NoNote
    <3>2. UNCHANGED note \/ note' = [note EXCEPT ![d] = n]
      BY <2>3 DEF LookUp, ClaimOther
    <3> HIDE DEF n
    <3> QED  BY <1>2, <1>3, <2>1, <3>1, <3>2
  <2>4. CASE Annotate(d)
    <3>0. PICK fee \in Reported : note' = [note EXCEPT ![d] = [NoNote EXCEPT !.fee = fee]]
      BY <2>4 DEF Annotate
    <3> DEFINE n == [NoNote EXCEPT !.fee = fee]
    <3>1. n.sum = 0
      BY DEF NoNote
    <3>2. note' = [note EXCEPT ![d] = n]
      BY <3>0
    <3> HIDE DEF n
    <3> QED  BY <1>3, <2>1, <3>1, <3>2
  <2> QED  BY <1>5, <1>6, <2>1, <2>2, <2>3, <2>4 DEF DeliveryStep
<1>7. CASE PollStep
  <2>1. CASE Poll
    <3> DEFINE next == IF status = "pending" /\ reference # "none"
                       THEN "ask" ELSE "answer"
               n == [NoNote EXCEPT !.fee = storedFee, !.meta = storedFee, !.next = next]
    <3>1. n.sum = 0
      BY DEF NoNote
    <3>2. note' = [note EXCEPT !["poll"] = n]
      BY <2>1 DEF Poll
    <3> HIDE DEF n
    <3> QED  BY <1>3, <3>1, <3>2, Actors
  <2>2. CASE Ask
    <3> DEFINE then == IF Watched \in Final THEN "judge" ELSE "answer"
               n(fee) == [NoNote EXCEPT !.fee = fee, !.next = then]
    <3>1. \A fee : n(fee).sum = 0
      BY DEF NoNote
    <3>2. \/ note' = [note EXCEPT !["poll"] = NoNote]
          \/ \E fee \in Reported : note' = [note EXCEPT !["poll"] = n(fee)]
      BY <2>2 DEF Ask, Forget
    <3> HIDE DEF n
    <3> QED  BY <1>3, <1>4, <3>1, <3>2, Actors
  <2>3. CASE Answer
    BY <1>2, <2>3 DEF Answer
  <2> QED  BY <1>5, <1>7, <2>1, <2>2, <2>3, Actors DEF PollStep
<1>8. CASE RequestStep
  <2>1. CASE SumCharges("create") \/ ChargeFee("create")
    BY <1>5, <2>1, Actors DEF Finalize
  <2>2. CASE Record
    <3>1. PICK fee \in {0, quoted} \cup RailFee :
             \/ UNCHANGED note
             \/ note' = [note EXCEPT !["create"] =
                            [NoNote EXCEPT !.fee = fee, !.next = "done"]]
      BY <2>2 DEF Record
    <3> DEFINE n == [NoNote EXCEPT !.fee = fee, !.next = "done"]
    <3>2. n.sum = 0
      BY DEF NoNote
    <3>3. UNCHANGED note \/ note' = [note EXCEPT !["create"] = n]
      BY <3>1
    <3> HIDE DEF n
    <3> QED  BY <1>2, <1>3, <3>2, <3>3, Actors
  <2> QED  BY <1>2, <1>8, <2>1, <2>2
           DEF RequestStep, Answered, Unanswered, RefundPending, RecordRefused
<1>9. CASE Debit \/ Tekko \/ Spend
  BY <1>2, <1>9 DEF Debit, Tekko, TekkoReceives, TekkoSettles, OtherSettles, Spend
<1>10. CASE \E a \in Actor : ActorFails(a)
  BY <1>4, <1>10 DEF ActorFails, Forget
<1> QED  BY <1>2, <1>6, <1>7, <1>8, <1>9, <1>10 DEF Next, vars

\* A charge is what an actor finds missing; a refund is RailRefund.
LEMMA FeesMove ==
  ASSUME IInv, [Next]_vars
  PROVE  \/ UNCHANGED <<charged, returned>>
         \/ /\ UNCHANGED returned
            /\ \E a \in Actor : /\ note[a].fee > note[a].sum
                                /\ charged' = charged + (note[a].fee - note[a].sum)
         \/ /\ UNCHANGED charged
            /\ \E meta \in RailFee : returned' = returned + RailRefund(meta)
<1>1. note \in [Actor -> Note] /\ storedFee \in RailFee
  BY DEF IInv, TypeOK, Note
<1>2. CASE UNCHANGED money
  BY <1>2 DEF money, rail
<1>3. ASSUME NEW meta \in RailFee, FailWithRefund(meta)
      PROVE  UNCHANGED charged /\ returned' = returned + RailRefund(meta)
  BY <1>3 DEF FailWithRefund
<1>4. ASSUME NEW a \in Actor, ChargeFee(a)
      PROVE  \/ UNCHANGED <<charged, returned>>
             \/ /\ UNCHANGED returned /\ note[a].fee > note[a].sum
                /\ charged' = charged + (note[a].fee - note[a].sum)
  <2>1. note[a].fee \in Nat /\ note[a].sum \in Nat
    BY <1>1, FeesAreNatural DEF Note
  <2> QED  BY <1>4, <2>1 DEF ChargeFee
<1>5. ASSUME NEW a \in Actor, Finalize(a)
      PROVE  \/ UNCHANGED rail \/ ChargeFee(a)
             \/ \E meta \in RailFee : FailWithRefund(meta)
  <2>1. CASE Fail(a)
    <3>1. note[a].meta \in RailFee
      BY <1>1 DEF Note
    <3> QED  BY <2>1, <3>1 DEF Fail, money, rail
  <2> QED  BY <1>5, <2>1 DEF Finalize, SumCharges, Judge, Settle, money
<1>6. CASE \E d \in Delivery : DeliveryStep(d)
  <2>1. PICK d \in Delivery : DeliveryStep(d)
    BY <1>6
  <2>2. d \in Actor /\ (UNCHANGED rail \/ Finalize(d))
    BY <2>1, Actors DEF DeliveryStep, Claim, LookUp, ClaimOther, Annotate,
                        MarkProcessed, TellOther, money
  <2> QED  BY <1>3, <1>4, <1>5, <2>2 DEF rail
<1>7. CASE PollStep
  <2>1. UNCHANGED rail \/ Finalize("poll")
    BY <1>7 DEF PollStep, Poll, Ask, Answer, money
  <2> QED  BY <1>3, <1>4, <1>5, <2>1, Actors DEF rail
<1>8. CASE RequestStep
  <2>1. \/ UNCHANGED rail \/ ChargeFee("create")
        \/ \E meta \in RailFee : FailWithRefund(meta)
    BY <1>1, <1>8 DEF RequestStep, Answered, Unanswered, RefundPending, Record,
                      RecordRefused, SumCharges, money
  <2> QED  BY <1>3, <1>4, <2>1, Actors DEF rail
<1>9. CASE Debit \/ Tekko \/ Spend \/ \E a \in Actor : ActorFails(a)
  BY <1>9 DEF Debit, Tekko, TekkoReceives, TekkoSettles, OtherSettles, Spend,
              ActorFails, money, rail
<1> QED  BY <1>2, <1>6, <1>7, <1>8, <1>9 DEF Next, vars

\* What is charged, and what an actor knows of it, is nothing or the whole fee.
Whole(fee) == /\ charged = 0 \/ charged >= fee
              /\ \A a \in Actor : note[a].sum = 0 \/ note[a].sum >= fee
              /\ RailFeeReturnedAsCharged

LEMMA WholeKept ==
  ASSUME NEW fee \in Nat, RailFee \subseteq {0, fee}, IInv, Whole(fee), [Next]_vars
  PROVE  Whole(fee)'
<1>1. /\ charged \in Nat /\ returned \in Nat /\ returned <= charged
      /\ charged = 0 \/ charged >= fee
      /\ \A a \in Actor : /\ note[a].fee \in {0, fee} /\ note[a].sum \in Nat
                          /\ note[a].sum = 0 \/ note[a].sum >= fee
  BY DEF IInv, TypeOK, Whole, RailFeeReturnedAsCharged
<1>2. \A a \in Actor : note'[a].sum = 0 \/ note'[a].sum >= fee
  BY <1>1, SumsAreRead
<1>3. CASE UNCHANGED <<charged, returned>>
  BY <1>1, <1>2, <1>3 DEF Whole, RailFeeReturnedAsCharged
<1>4. ASSUME UNCHANGED returned, NEW a \in Actor, note[a].fee > note[a].sum,
             charged' = charged + (note[a].fee - note[a].sum)
      PROVE  Whole(fee)'
  <2>1. note[a].sum = 0 /\ note[a].fee = fee
    BY <1>1, <1>4
  <2>2. charged' = charged + fee
    BY <1>1, <1>4, <2>1
  <2> QED  BY <1>1, <1>2, <1>4, <2>2 DEF Whole, RailFeeReturnedAsCharged
<1>5. ASSUME UNCHANGED charged, NEW meta \in RailFee,
             returned' = returned + RailRefund(meta)
      PROVE  Whole(fee)'
  <2>1. meta \in {0, fee}
    OBVIOUS
  <2>2. returned' <= charged
    BY <1>1, <1>5, <2>1 DEF RailRefund
  <2> QED  BY <1>1, <1>2, <1>5, <2>2 DEF Whole, RailFeeReturnedAsCharged
<1> QED  BY <1>3, <1>4, <1>5, FeesMove

\* If Tekko never changes its mind about its fee, a failed payout gives back no
\* more of it than was charged, although callers may charge it twice over: the
\* excess of refundTekkoNgnProviderFeeInTx is a reported fee that was not charged.
THEOREM OneFeeIsReturnedAsCharged ==
  ASSUME NEW fee \in Nat, RailFee \subseteq {0, fee}
  PROVE  Spec => []RailFeeReturnedAsCharged
<1>1. Init => Whole(fee)
  BY DEF Init, Whole, RailFeeReturnedAsCharged, NoNote
<1>2. IInv /\ Whole(fee) /\ [Next]_vars => Whole(fee)'
  BY WholeKept
<1>3. Whole(fee) => RailFeeReturnedAsCharged
  BY DEF Whole
<1>4. QED
  BY <1>1, <1>2, <1>3, InvariantAlways, PTL DEF Spec

-----------------------------------------------------------------------------
(* A pay-in over Tylt *)

TyltSteps == {"idle", "look", "credit", "ask", "settle", "fail"}
TyltBody == {"success", "settled", "failed"}
TyltNote == [says : {"nothing", "manual", "success", "settled", "failed"},
             read : {"none", "pending", "success", "failed"},
             seen : {"none", "usdt", "old"}]
TyltCredits == [{"usdt", "old"} -> Nat]

TyltTypes ==
    /\ tRail \in Rail
    /\ tStatus \in {"none", "pending", "success", "failed"}
    /\ tCredits \in TyltCredits /\ tReversals \in Nat /\ tFees \in Nat
    /\ tRequest \in {"new", "await", "done", "lost", "gone"}
    /\ tOrder \in {"none", "sent", "open", "refused", "completed", "expired",
                   "manual"}
    /\ tTaken \subseteq TyltBody /\ tManuals \in 0 .. MaxManual

\* What a handler may say of the order, and act on: a success is settled only
\* when the customer has paid, and no credit is found in another wallet.
TyltKnows(step, n, known, of) ==
    /\ n.says = "manual" => known = "manual"
    /\ of = "eur" /\ n.says \in {"success", "settled"} => known = "completed"
    /\ step = "settle" => known \in {"completed", "manual"}
    /\ n.seen # "old"

\* One credit, of what the customer paid; a pay-in that waits has none, and
\* one that failed only if the request gave up on it.
TyltBooks ==
    /\ tCredits["old"] = 0 /\ tReversals = 0
    /\ tCredits["usdt"] \in {0, 1} /\ tFees <= tCredits["usdt"]
    /\ tCredits["usdt"] = 1 => tOrder \in {"completed", "manual"}
    /\ tStatus \in {"none", "pending"} => tCredits["usdt"] = 0
    /\ tStatus = "success" => tCredits["usdt"] = 1
    /\ tStatus = "failed" /\ tCredits["usdt"] = 1 => tRequest = "lost"
    /\ tRequest = "new" => tStatus = "none" /\ tOrder = "none"

TyltInv ==
    /\ TyltPayins!TypeOK
    /\ ~Legacy => /\ TyltBooks
                  /\ \A h \in TyltPayins!Actor :
                        TyltKnows(tHook[h], tNote[h], tOrder, tRail)

LEMMA TyltTyped ==
    TyltPayins!TypeOK <=> /\ TyltTypes
                          /\ tHook \in [TyltPayins!Actor -> TyltSteps]
                          /\ tNote \in [TyltPayins!Actor -> TyltNote]
<1>1. {"nothing", "manual"} \cup TyltPayins!Body
         = {"nothing", "manual", "success", "settled", "failed"}
  BY DEF TyltPayins!Body
<1> QED
  BY <1>1 DEF TyltPayins!TypeOK, TyltPayins!Body, TyltTypes, TyltSteps,
     TyltNote, TyltBody, TyltCredits

LEMMA TyltDecision ==
    /\ TyltPayins!Decision \in {"success", "failed", "unknown"}
    /\ TyltPayins!Decision = "success" => tOrder \in {"completed", "manual"}
<1>1. CASE tOrder \in {"completed", "manual"}
  BY <1>1 DEF TyltPayins!Decision
<1>2. CASE tOrder = "expired"
  BY <1>2 DEF TyltPayins!Decision
<1>3. CASE tOrder \notin {"completed", "manual"} /\ tOrder # "expired"
  BY <1>3 DEF TyltPayins!Decision
<1> QED  BY <1>1, <1>2, <1>3

LEMMA TyltFacts ==
  ASSUME TyltInv
  PROVE  /\ TyltTypes
         /\ tHook \in [TyltPayins!Actor -> TyltSteps]
         /\ tNote \in [TyltPayins!Actor -> TyltNote]
         /\ ~Legacy => /\ TyltBooks
                       /\ \A h \in TyltPayins!Actor :
                             TyltKnows(tHook[h], tNote[h], tOrder, tRail)
         /\ MaxManual \in Nat
  BY TyltTyped, RailsAssumption DEF TyltInv

\* Notes are parts of their fields.
LEMMA TyltNotes ==
    /\ TyltPayins!NoNote \in TyltNote /\ TyltPayins!NoNote.says = "nothing"
    /\ TyltPayins!NoNote.seen = "none"
    /\ \A s \in {"manual", "success", "settled", "failed"} :
          LET n == [TyltPayins!NoNote EXCEPT !.says = s] IN
          n \in TyltNote /\ n.says = s /\ n.seen = "none"
  BY DEF TyltPayins!NoNote, TyltNote

LEMMA TyltReadNote ==
  ASSUME NEW n \in TyltNote, NEW r \in {"none", "pending", "success", "failed"}
  PROVE  LET m == [n EXCEPT !.read = r] IN
         m \in TyltNote /\ m.says = n.says /\ m.seen = n.seen
  BY DEF TyltNote

LEMMA TyltSeenNote ==
  ASSUME NEW n \in TyltNote, NEW w \in {"none", "usdt", "old"}
  PROVE  LET m == [n EXCEPT !.seen = w] IN
         m \in TyltNote /\ m.says = n.says /\ m.seen = w
  BY DEF TyltNote

\* One handler moves.
TyltMoves(h, to, n) ==
    /\ tHook' = [tHook EXCEPT ![h] = to] /\ to \in TyltSteps
    /\ tNote' = [tNote EXCEPT ![h] = n] /\ n \in TyltNote
    /\ ~Legacy => TyltKnows(to, n, tOrder, tRail)
    /\ tOrder' = tOrder /\ tRail' = tRail
    /\ TyltTypes' /\ (~Legacy => TyltBooks')

LEMMA TyltOwn ==
  ASSUME TyltInv, NEW h \in TyltPayins!Actor, NEW to, NEW n,
         TyltMoves(h, to, n)
  PROVE  TyltInv'
<1>f. /\ tHook \in [TyltPayins!Actor -> TyltSteps]
      /\ tNote \in [TyltPayins!Actor -> TyltNote]
      /\ ~Legacy => \A g \in TyltPayins!Actor :
                       TyltKnows(tHook[g], tNote[g], tOrder, tRail)
  BY TyltFacts
<1>1. /\ tHook' \in [TyltPayins!Actor -> TyltSteps]
      /\ tNote' \in [TyltPayins!Actor -> TyltNote]
      /\ \A g \in TyltPayins!Actor :
            /\ tHook'[g] = IF g = h THEN to ELSE tHook[g]
            /\ tNote'[g] = IF g = h THEN n ELSE tNote[g]
  BY <1>f DEF TyltMoves
<1>2. TyltPayins!TypeOK'
  <2>1. {"nothing", "manual"} \cup TyltPayins!Body
           = {"nothing", "manual", "success", "settled", "failed"}
    BY DEF TyltPayins!Body
  <2> QED
    BY <1>1, <2>1 DEF TyltMoves, TyltPayins!TypeOK, TyltPayins!Body, TyltTypes,
       TyltSteps, TyltNote, TyltBody, TyltCredits
<1>3. ASSUME ~Legacy, NEW g \in TyltPayins!Actor
      PROVE TyltKnows(tHook'[g], tNote'[g], tOrder', tRail')
  BY <1>1, <1>3, <1>f DEF TyltMoves
<1>4. ~Legacy => TyltBooks'
  BY DEF TyltMoves
<1> QED  BY <1>2, <1>3, <1>4 DEF TyltInv

\* How handlers go on and end.
LEMMA TyltSteppers ==
  ASSUME TyltInv, NEW h \in TyltPayins!Actor, NEW from, NEW to
  PROVE  /\ tNote[h] \in TyltNote
         /\ ~Legacy => TyltKnows(tHook[h], tNote[h], tOrder, tRail)
         /\ TyltPayins!HookStep(h, from, to) =>
               tHook[h] = from /\ tHook' = [tHook EXCEPT ![h] = to]
         /\ TyltPayins!GoOn(h, from, to) =>
               /\ tHook[h] = from /\ tHook' = [tHook EXCEPT ![h] = to]
               /\ tNote' = [tNote EXCEPT ![h] = tNote[h]]
         /\ TyltPayins!Leave(h, from) =>
               /\ tHook[h] = from /\ tHook' = [tHook EXCEPT ![h] = "idle"]
               /\ tNote' = [tNote EXCEPT ![h] = TyltPayins!NoNote]
  BY TyltFacts DEF TyltPayins!GoOn, TyltPayins!Leave, TyltPayins!HookStep

\* The row and its books are left alone.
TyltQuiet ==
    /\ UNCHANGED <<tRail, tStatus, tCredits, tReversals, tFees, tRequest, tOrder>>
    /\ tTaken' \subseteq TyltBody /\ tManuals' \in 0 .. MaxManual

LEMMA TyltGoes ==
  ASSUME TyltInv, NEW h \in TyltPayins!Actor, NEW to \in TyltSteps,
         NEW n \in TyltNote,
         tHook' = [tHook EXCEPT ![h] = to], tNote' = [tNote EXCEPT ![h] = n],
         ~Legacy => TyltKnows(to, n, tOrder, tRail), TyltQuiet
  PROVE  TyltInv'
<1>f. TyltTypes /\ (~Legacy => TyltBooks)
  BY TyltFacts
<1>1. TyltTypes'
  BY <1>f DEF TyltQuiet, TyltTypes
<1>2. ~Legacy => TyltBooks'
  BY <1>f DEF TyltQuiet, TyltBooks
<1>z. TyltMoves(h, to, n)
  BY <1>1, <1>2 DEF TyltQuiet, TyltMoves
<1> QED  BY <1>z, TyltOwn

LEMMA TyltSame ==
  ASSUME TyltInv, UNCHANGED <<tRail, tStatus, tCredits, tReversals, tFees,
                              tRequest, tOrder, tTaken, tManuals>>
  PROVE  TyltQuiet
  BY TyltFacts DEF TyltTypes, TyltQuiet

LEMMA TyltLeaves ==
  ASSUME TyltInv, NEW h \in TyltPayins!Actor, NEW from,
         TyltPayins!Leave(h, from), TyltQuiet
  PROVE  TyltInv'
<1>1. /\ "idle" \in TyltSteps /\ TyltPayins!NoNote \in TyltNote
      /\ ~Legacy => TyltKnows("idle", TyltPayins!NoNote, tOrder, tRail)
  BY TyltNotes DEF TyltSteps, TyltKnows
<1>2. /\ tHook' = [tHook EXCEPT ![h] = "idle"]
      /\ tNote' = [tNote EXCEPT ![h] = TyltPayins!NoNote]
  BY TyltSteppers
<1> QED  BY <1>1, <1>2, TyltGoes

\* A handler keeps its note, and may go on to settle what was paid.
LEMMA TyltGoesOn ==
  ASSUME TyltInv, NEW h \in TyltPayins!Actor, NEW from, NEW to \in TyltSteps,
         TyltPayins!GoOn(h, from, to), TyltQuiet,
         ~Legacy /\ to = "settle" => tOrder \in {"completed", "manual"}
  PROVE  TyltInv'
<1>1. /\ tHook' = [tHook EXCEPT ![h] = to]
      /\ tNote' = [tNote EXCEPT ![h] = tNote[h]] /\ tNote[h] \in TyltNote
      /\ ~Legacy => TyltKnows(tHook[h], tNote[h], tOrder, tRail)
  BY TyltSteppers
<1>2. ~Legacy => TyltKnows(to, tNote[h], tOrder, tRail)
  BY <1>1 DEF TyltKnows
<1> QED  BY <1>1, <1>2, TyltGoes

\* The create call, and what becomes of the order at Tylt.
LEMMA TyltRequests ==
  ASSUME TyltInv, TyltPayins!Request \/ TyltPayins!TyltReceives
                  \/ TyltPayins!TyltSettles
  PROVE  TyltInv'
<1>f. /\ TyltTypes
      /\ tHook \in [TyltPayins!Actor -> TyltSteps]
      /\ tNote \in [TyltPayins!Actor -> TyltNote]
      /\ ~Legacy => /\ TyltBooks
                    /\ \A h \in TyltPayins!Actor :
                          TyltKnows(tHook[h], tNote[h], tOrder, tRail)
  BY TyltFacts
<1>u. UNCHANGED <<tRail, tCredits, tReversals, tFees, tTaken, tManuals, tHook,
                  tNote>>
  BY DEF TyltPayins!Request, TyltPayins!Insert, TyltPayins!CreateCrossRamp,
     TyltPayins!CreateH2h, TyltPayins!CreateCpg, TyltPayins!CreateEur,
     TyltPayins!TyltReceives, TyltPayins!TyltSettles, TyltPayins!row,
     TyltPayins!books, TyltPayins!handlers
<1>1. \/ /\ tRequest = "new" /\ tRequest' = "await" /\ tStatus' = "pending"
         /\ tOrder' = "sent"
      \/ /\ tRequest = "await" /\ tRequest' \in {"done", "gone"}
         /\ tStatus' = tStatus /\ tOrder' = tOrder
      \/ /\ tRequest = "await" /\ tOrder' = tOrder
         /\ tStatus' \in {"failed", tStatus}
         /\ \/ tRequest' = "done" /\ tOrder = "refused"
            \/ tRequest' = "lost"
      \/ /\ tRequest' = tRequest /\ tStatus' = tStatus
         /\ \/ tOrder = "sent" /\ tOrder' \in {"open", "refused"}
            \/ tOrder = "open" /\ tOrder' \in {"completed", "expired"}
            \/ tOrder = "expired" /\ tOrder' = "manual"
  <2>1. CASE TyltPayins!Insert
    BY <2>1 DEF TyltPayins!Insert, TyltPayins!Proceed
  <2>2. CASE \/ TyltPayins!CreateCrossRamp \/ TyltPayins!CreateH2h
             \/ TyltPayins!CreateCpg \/ TyltPayins!CreateEur
    <3>1. tOrder' = tOrder
      BY <2>2 DEF TyltPayins!CreateCrossRamp, TyltPayins!CreateH2h,
         TyltPayins!CreateCpg, TyltPayins!CreateEur
    <3>2. \/ TyltPayins!Accepted \/ TyltPayins!Refused \/ TyltPayins!Unhandled
          \/ /\ TyltPayins!Proceed("await", "lost")
             /\ tStatus' = IF tStatus = "pending" THEN "failed" ELSE tStatus
      BY <2>2 DEF TyltPayins!CreateCrossRamp, TyltPayins!CreateH2h,
         TyltPayins!CreateCpg, TyltPayins!CreateEur
    <3> QED
      BY <3>1, <3>2 DEF TyltPayins!Accepted, TyltPayins!Refused,
         TyltPayins!Unhandled, TyltPayins!Proceed
  <2>3. CASE TyltPayins!TyltReceives \/ TyltPayins!TyltSettles
    BY <2>3 DEF TyltPayins!TyltReceives, TyltPayins!TyltSettles, TyltPayins!row
  <2> QED  BY <2>1, <2>2, <2>3 DEF TyltPayins!Request
<1>2. TyltTypes'
  BY <1>1, <1>u, <1>f DEF TyltTypes
<1>3. ASSUME ~Legacy PROVE TyltBooks'
  <2>1. TyltBooks
    BY <1>3, <1>f
  <2> QED  BY <2>1, <1>1, <1>u, <1>f DEF TyltBooks, TyltTypes
<1>4. ASSUME ~Legacy, NEW h \in TyltPayins!Actor
      PROVE TyltKnows(tHook'[h], tNote'[h], tOrder', tRail')
  <2>1. TyltKnows(tHook[h], tNote[h], tOrder, tRail) /\ TyltBooks
    BY <1>4, <1>f
  <2> QED  BY <2>1, <1>1, <1>u DEF TyltKnows, TyltBooks
<1>5. TyltPayins!TypeOK'
  <2>1. {"nothing", "manual"} \cup TyltPayins!Body
           = {"nothing", "manual", "success", "settled", "failed"}
    BY DEF TyltPayins!Body
  <2> QED
    BY <1>2, <1>u, <1>f, <2>1 DEF TyltPayins!TypeOK, TyltPayins!Body, TyltTypes,
       TyltSteps, TyltNote, TyltBody, TyltCredits
<1> QED  BY <1>3, <1>4, <1>5 DEF TyltInv

\* A callback is claimed, or staff ask for Tylt's record.
LEMMA TyltBegins ==
  ASSUME TyltInv, \/ TyltPayins!Reconcile
                  \/ \E h \in Handler : TyltPayins!ClaimWebhook(h)
  PROVE  TyltInv'
<1>f. TyltTypes /\ MaxManual \in Nat
  BY TyltFacts
<1>a. "staff" \in TyltPayins!Actor /\ Handler \subseteq TyltPayins!Actor
  BY DEF TyltPayins!Actor
<1>1. PICK h \in TyltPayins!Actor, s \in {"manual", "success", "settled", "failed"} :
        /\ TyltPayins!HookStep(h, "idle", "look")
        /\ tNote' = [tNote EXCEPT ![h] = [TyltPayins!NoNote EXCEPT !.says = s]]
        /\ s = "manual" => tOrder = "manual"
        /\ tRail = "eur" /\ s \in {"success", "settled"} => tOrder = "completed"
        /\ TyltQuiet
  <2>1. CASE TyltPayins!Reconcile
    <3>1. /\ tRail = "crossramp" /\ TyltPayins!Decision \in {"success", "failed"}
          /\ TyltPayins!HookStep("staff", "idle", "look")
          /\ tNote' = [tNote EXCEPT !["staff"] =
                          [TyltPayins!NoNote EXCEPT !.says = TyltPayins!Decision]]
          /\ UNCHANGED <<tRail, tStatus, tCredits, tReversals, tFees, tRequest,
                         tOrder, tTaken, tManuals>>
      BY <2>1, TyltDecision DEF TyltPayins!Reconcile, TyltPayins!row,
         TyltPayins!books
    <3>2. TyltQuiet
      BY <3>1, TyltSame
    <3> QED  BY <3>1, <3>2, <1>a
  <2>2. ASSUME NEW h \in Handler, TyltPayins!ClaimWebhook(h)
        PROVE  \E s \in {"manual", "success", "settled", "failed"} :
        /\ TyltPayins!HookStep(h, "idle", "look")
        /\ tNote' = [tNote EXCEPT ![h] = [TyltPayins!NoNote EXCEPT !.says = s]]
        /\ s = "manual" => tOrder = "manual"
        /\ tRail = "eur" /\ s \in {"success", "settled"} => tOrder = "completed"
        /\ TyltQuiet
    <3>1. PICK s \in {"manual", "success", "settled", "failed"} :
        /\ TyltPayins!HookStep(h, "idle", "look")
        /\ tNote' = [tNote EXCEPT ![h] = [TyltPayins!NoNote EXCEPT !.says = s]]
        /\ IF s = "manual"
           THEN /\ tOrder = "manual" /\ tManuals < MaxManual
                /\ tManuals' = tManuals + 1 /\ UNCHANGED tTaken
           ELSE /\ TyltPayins!MaySay(s) /\ s \notin tTaken
                /\ tTaken' = tTaken \cup {s} /\ UNCHANGED tManuals
      BY <2>2 DEF TyltPayins!ClaimWebhook, TyltPayins!Body
    <3>2. UNCHANGED <<tRail, tStatus, tCredits, tReversals, tFees, tRequest, tOrder>>
      BY <2>2 DEF TyltPayins!ClaimWebhook, TyltPayins!row, TyltPayins!books
    <3>3. tTaken' \subseteq TyltBody /\ tManuals' \in 0 .. MaxManual
      BY <3>1, <1>f DEF TyltTypes, TyltBody
    <3>4. tRail = "eur" /\ s \in {"success", "settled"} => tOrder = "completed"
      BY <3>1 DEF TyltPayins!MaySay
    <3> QED  BY <3>1, <3>2, <3>3, <3>4 DEF TyltQuiet
  <2> QED  BY <2>1, <2>2, <1>a
<1> DEFINE n == [TyltPayins!NoNote EXCEPT !.says = s]
<1>2. n \in TyltNote /\ n.says = s /\ n.seen = "none"
  BY TyltNotes
<1>3. tNote' = [tNote EXCEPT ![h] = n]
  BY <1>1
<1> HIDE DEF n
<1>4. TyltKnows("look", n, tOrder, tRail)
  BY <1>1, <1>2 DEF TyltKnows
<1>5. tHook' = [tHook EXCEPT ![h] = "look"] /\ "look" \in TyltSteps
  BY <1>1, TyltSteppers DEF TyltSteps
<1> QED  BY <1>1, <1>2, <1>3, <1>4, <1>5, TyltGoes

\* UPI: the row is read, a credit of it is looked for, Tylt is asked.
LEMMA TyltReads ==
  ASSUME TyltInv, NEW h \in TyltPayins!Actor,
         \/ TyltPayins!LookUpUpi(h) \/ TyltPayins!FindExistingCredit(h)
         \/ TyltPayins!AskUpi(h)
  PROVE  TyltInv'
<1>f. /\ TyltTypes /\ (~Legacy => TyltBooks) /\ tNote[h] \in TyltNote
      /\ ~Legacy => TyltKnows(tHook[h], tNote[h], tOrder, tRail)
      /\ tNote \in [TyltPayins!Actor -> TyltNote]
  BY TyltFacts, TyltSteppers
<1>q. TyltQuiet
  <2>1. UNCHANGED <<tRail, tStatus, tCredits, tReversals, tFees, tRequest,
                    tOrder, tTaken, tManuals>>
    BY DEF TyltPayins!LookUpUpi, TyltPayins!FindExistingCredit, TyltPayins!AskUpi,
       TyltPayins!row, TyltPayins!books
  <2> QED  BY <2>1, TyltSame
<1>s. {"credit", "ask", "settle", "fail", "look"} \subseteq TyltSteps
  BY DEF TyltSteps
<1>1. CASE TyltPayins!LookUpUpi(h)
  <2>1. CASE TyltPayins!Leave(h, "look")
    BY <2>1, <1>q, TyltLeaves
  <2>2. CASE ~TyltPayins!Leave(h, "look")
    <3>1. PICK to \in {"credit", "ask"} :
            /\ TyltPayins!HookStep(h, "look", to)
            /\ tNote' = [tNote EXCEPT ![h].read = tStatus]
      BY <1>1, <2>2 DEF TyltPayins!LookUpUpi
    <3> DEFINE n == [tNote[h] EXCEPT !.read = tStatus]
    <3>2. tNote' = [tNote EXCEPT ![h] = n]
      BY <3>1, <1>f
    <3>3. n \in TyltNote /\ n.says = tNote[h].says /\ n.seen = tNote[h].seen
      <4>1. tStatus \in {"none", "pending", "success", "failed"}
        BY <1>f DEF TyltTypes
      <4> QED  BY <4>1, <1>f, TyltReadNote
    <3> HIDE DEF n
    <3>4. ~Legacy => TyltKnows(to, n, tOrder, tRail)
      BY <3>1, <3>3, <1>f DEF TyltKnows
    <3>5. tHook' = [tHook EXCEPT ![h] = to] /\ to \in TyltSteps
      BY <3>1, <1>s, TyltSteppers, ZenonT(30)
    <3> QED  BY <3>2, <3>3, <3>4, <3>5, <1>q, TyltGoes
  <2> QED  BY <2>1, <2>2
<1>2. CASE TyltPayins!FindExistingCredit(h)
  <2>1. CASE TyltPayins!Leave(h, "credit")
    BY <2>1, <1>q, TyltLeaves
  <2>2. CASE ~TyltPayins!Leave(h, "credit")
    <3>1. PICK w \in TyltPayins!SomeCredit :
            /\ TyltPayins!HookStep(h, "credit", "ask")
            /\ tNote' = [tNote EXCEPT ![h] = [tNote[h] EXCEPT !.seen = w]]
      BY <1>2, <2>2 DEF TyltPayins!FindExistingCredit
    <3>2. w \in {"none", "usdt", "old"} /\ (~Legacy => w # "old")
      BY <3>1, <1>f DEF TyltPayins!SomeCredit, TyltBooks
    <3> DEFINE n == [tNote[h] EXCEPT !.seen = w]
    <3>3. n \in TyltNote /\ n.says = tNote[h].says /\ n.seen = w
      BY <3>2, <1>f, TyltSeenNote
    <3>4. tNote' = [tNote EXCEPT ![h] = n]
      BY <3>1
    <3> HIDE DEF n
    <3>5. ~Legacy => TyltKnows("ask", n, tOrder, tRail)
      BY <3>2, <3>3, <1>f DEF TyltKnows
    <3>6. tHook' = [tHook EXCEPT ![h] = "ask"]
      BY <3>1, TyltSteppers, ZenonT(30)
    <3> QED  BY <3>3, <3>4, <3>5, <3>6, <1>q, <1>s, TyltGoes
  <2> QED  BY <2>1, <2>2
<1>3. CASE TyltPayins!AskUpi(h)
  <2>1. CASE TyltPayins!Leave(h, "ask")
    BY <2>1, <1>q, TyltLeaves
  <2>2. CASE ~TyltPayins!Leave(h, "ask")
    <3>1. PICK to \in {"settle", "fail"} :
            /\ TyltPayins!GoOn(h, "ask", to)
            /\ to = "settle" => /\ TyltPayins!SaysSuccess(h)
                                /\ TyltPayins!Recovers(h) \/ TyltPayins!Confirmed(h)
      BY <1>3, <2>2 DEF TyltPayins!AskUpi
    <3>2. ~Legacy /\ to = "settle" => tOrder \in {"completed", "manual"}
      <4>1. CASE TyltPayins!Recovers(h)
        BY <4>1, <1>f DEF TyltPayins!Recovers, TyltPayins!RevivesFailed,
           TyltPayins!MovesCredit, TyltKnows
      <4>2. CASE TyltPayins!Confirmed(h)
        BY <3>1, <4>2, TyltDecision DEF TyltPayins!Confirmed
      <4> QED  BY <3>1, <4>1, <4>2
    <3> QED  BY <3>1, <3>2, <1>q, <1>s, TyltGoesOn
  <2> QED  BY <2>1, <2>2
<1> QED  BY <1>1, <1>2, <1>3

\* CPG asks Tylt's record, EUR believes the callback.
LEMMA TyltAsks ==
  ASSUME TyltInv, NEW h \in TyltPayins!Actor,
         \/ TyltPayins!LookUpCpg(h) \/ TyltPayins!AskCpg(h)
         \/ TyltPayins!LookUpEur(h)
  PROVE  TyltInv'
<1>f. ~Legacy => TyltKnows(tHook[h], tNote[h], tOrder, tRail)
  BY TyltSteppers
<1>q. TyltQuiet
  <2>1. UNCHANGED <<tRail, tStatus, tCredits, tReversals, tFees, tRequest,
                    tOrder, tTaken, tManuals>>
    BY DEF TyltPayins!LookUpCpg, TyltPayins!AskCpg, TyltPayins!LookUpEur,
       TyltPayins!row, TyltPayins!books
  <2> QED  BY <2>1, TyltSame
<1>1. CASE \E from \in {"look", "ask"} : TyltPayins!Leave(h, from)
  BY <1>1, <1>q, TyltLeaves
<1>2. CASE ~ \E from \in {"look", "ask"} : TyltPayins!Leave(h, from)
  <2>1. PICK from \in {"look", "ask"}, to \in {"ask", "settle", "fail"} :
          /\ TyltPayins!GoOn(h, from, to)
          /\ to = "settle" =>
                /\ TyltPayins!SaysSuccess(h)
                /\ TyltPayins!Confirmed(h) \/ tRail = "eur"
    BY <1>2 DEF TyltPayins!LookUpCpg, TyltPayins!AskCpg, TyltPayins!LookUpEur
  <2>2. ~Legacy /\ to = "settle" => tOrder \in {"completed", "manual"}
    <3>1. CASE TyltPayins!SaysSuccess(h) /\ TyltPayins!Confirmed(h)
      BY <3>1, TyltDecision DEF TyltPayins!Confirmed
    <3>2. CASE TyltPayins!SaysSuccess(h) /\ tRail = "eur"
      BY <3>2, <1>f DEF TyltPayins!SaysSuccess, TyltKnows
    <3> QED  BY <2>1, <3>1, <3>2
  <2>3. to \in TyltSteps
    BY DEF TyltSteps
  <2> QED  BY <2>1, <2>2, <2>3, <1>q, TyltGoesOn
<1> QED  BY <1>1, <1>2

\* What a settlement writes: nothing, the success alone, or a first credit.
TyltSettled ==
    \/ UNCHANGED <<tStatus, tCredits, tReversals, tFees>>
    \/ /\ tStatus \in {"pending", "failed"} /\ tCredits["usdt"] = 1
       /\ tStatus' = "success" /\ UNCHANGED <<tCredits, tReversals, tFees>>
    \/ /\ tStatus \in {"pending", "failed"} /\ tCredits["usdt"] = 0
       /\ tStatus' = "success" /\ TyltPayins!CreditWallet
       /\ tReversals' = tReversals

LEMMA TyltWallet ==
  ASSUME tCredits \in TyltCredits, tFees \in Nat, TyltPayins!CreditWallet
  PROVE  /\ tCredits' \in TyltCredits /\ tFees' \in Nat
         /\ tCredits'["old"] = tCredits["old"]
         /\ tCredits'["usdt"] = tCredits["usdt"] + 1
         /\ tFees' \in {tFees, tFees + 1}
  BY DEF TyltPayins!CreditWallet, TyltPayins!TakeFee, TyltCredits

\* The success is applied by a handler that Tylt's record, or an operator of
\* Tylt, confirmed.
LEMMA TyltSettles ==
  ASSUME TyltInv, NEW h \in TyltPayins!Actor,
         \/ TyltPayins!SettleUpi(h) \/ TyltPayins!SettleCpg(h)
         \/ TyltPayins!SettleEur(h)
  PROVE  TyltInv'
<1>f. /\ TyltTypes /\ (~Legacy => TyltBooks) /\ tNote[h] \in TyltNote
      /\ ~Legacy => TyltKnows(tHook[h], tNote[h], tOrder, tRail)
  BY TyltFacts, TyltSteppers
<1>1. /\ TyltPayins!Leave(h, "settle")
      /\ UNCHANGED <<tRail, tRequest, tOrder, tTaken, tManuals>>
  BY DEF TyltPayins!SettleUpi, TyltPayins!SettleCpg, TyltPayins!SettleEur,
     TyltPayins!CreditPending
<1>2. /\ tHook[h] = "settle" /\ tHook' = [tHook EXCEPT ![h] = "idle"]
      /\ tNote' = [tNote EXCEPT ![h] = TyltPayins!NoNote]
  BY <1>1, TyltSteppers
<1>3. /\ tStatus' \in {tStatus, "success"}
      /\ \/ UNCHANGED <<tCredits, tFees>>
         \/ TyltPayins!CreditWallet
      /\ tReversals' \in {tReversals, tReversals + 1}
  <2>1. CASE TyltPayins!SettleUpi(h)
    BY <2>1 DEF TyltPayins!SettleUpi, TyltPayins!row, TyltPayins!books
  <2>2. CASE TyltPayins!SettleCpg(h) \/ TyltPayins!SettleEur(h)
    BY <2>2 DEF TyltPayins!SettleCpg, TyltPayins!SettleEur,
       TyltPayins!CreditPending, TyltPayins!row, TyltPayins!books
  <2> QED  BY <2>1, <2>2
<1>4. TyltTypes'
  <2>1. tCredits' \in TyltCredits /\ tFees' \in Nat /\ tReversals' \in Nat
    BY <1>3, <1>f, TyltWallet DEF TyltTypes
  <2> QED  BY <2>1, <1>1, <1>3, <1>f DEF TyltTypes
<1>5. ASSUME ~Legacy PROVE TyltBooks'
  <2>f. TyltBooks /\ tOrder \in {"completed", "manual"} /\ tNote[h].seen # "old"
    BY <1>5, <1>2, <1>f DEF TyltKnows
  <2>1. TyltSettled
    <3>1. CASE TyltPayins!SettleUpi(h) /\ tStatus \notin TyltPayins!FromStatus(h)
      BY <3>1 DEF TyltPayins!SettleUpi, TyltPayins!row, TyltPayins!books,
         TyltSettled
    <3>2. CASE TyltPayins!SettleUpi(h) /\ tStatus \in TyltPayins!FromStatus(h)
      <4>1. ~TyltPayins!MovesCredit(tNote[h])
        BY <2>f DEF TyltPayins!MovesCredit
      <4>2. tStatus \in {"pending", "failed"} /\ tStatus' = "success"
        BY <3>2, <4>1 DEF TyltPayins!SettleUpi, TyltPayins!FromStatus
      <4>3. PICK w \in TyltPayins!SomeCredit :
                \/ /\ w = "none" /\ TyltPayins!CreditWallet
                   /\ tReversals' = tReversals
                \/ w # "none" /\ UNCHANGED <<tCredits, tReversals, tFees>>
        BY <3>2, <4>1 DEF TyltPayins!SettleUpi, TyltPayins!books
      <4>4. IF w = "none" THEN tCredits["usdt"] = 0 ELSE tCredits["usdt"] = 1
        <5>1. tCredits["old"] = 0 /\ tCredits["usdt"] \in {0, 1}
          BY <2>f DEF TyltBooks
        <5> QED  BY <4>3, <5>1 DEF TyltPayins!SomeCredit
      <4> QED  BY <4>2, <4>3, <4>4 DEF TyltSettled
    <3>3. CASE TyltPayins!SettleCpg(h) \/ TyltPayins!SettleEur(h)
      BY <3>3, <2>f DEF TyltPayins!SettleCpg, TyltPayins!SettleEur,
         TyltPayins!CreditPending, TyltPayins!row, TyltPayins!books, TyltBooks,
         TyltSettled
    <3> QED  BY <3>1, <3>2, <3>3
  <2>2. CASE UNCHANGED <<tStatus, tCredits, tReversals, tFees>>
    BY <2>2, <2>f, <1>1 DEF TyltBooks
  <2>3. CASE /\ tStatus \in {"pending", "failed"} /\ tCredits["usdt"] = 1
             /\ tStatus' = "success" /\ UNCHANGED <<tCredits, tReversals, tFees>>
    BY <2>3, <2>f, <1>1 DEF TyltBooks
  <2>4. CASE /\ tStatus \in {"pending", "failed"} /\ tCredits["usdt"] = 0
             /\ tStatus' = "success" /\ TyltPayins!CreditWallet
             /\ tReversals' = tReversals
    <3>1. /\ tCredits'["old"] = 0 /\ tCredits'["usdt"] = 1
          /\ tFees' \in {0, 1} /\ tFees = 0 /\ tReversals' = 0
      BY <2>4, <2>f, <1>f, TyltWallet DEF TyltBooks, TyltTypes
    <3> QED  BY <3>1, <2>4, <2>f, <1>1 DEF TyltBooks
  <2> QED  BY <2>1, <2>2, <2>3, <2>4 DEF TyltSettled
<1>6. /\ "idle" \in TyltSteps /\ TyltPayins!NoNote \in TyltNote
      /\ ~Legacy => TyltKnows("idle", TyltPayins!NoNote, tOrder, tRail)
  BY TyltNotes DEF TyltSteps, TyltKnows
<1>7. tOrder' = tOrder /\ tRail' = tRail
  BY <1>1
<1>z. TyltMoves(h, "idle", TyltPayins!NoNote)
  BY <1>2, <1>4, <1>5, <1>6, <1>7 DEF TyltMoves
<1> QED  BY <1>z, TyltOwn

\* A failure is recorded of a pay-in that waits.
LEMMA TyltFails ==
  ASSUME TyltInv, NEW h \in TyltPayins!Actor, TyltPayins!Fail(h)
  PROVE  TyltInv'
<1>f. TyltTypes /\ (~Legacy => TyltBooks)
  BY TyltFacts
<1>1. /\ TyltPayins!Leave(h, "fail")
      /\ UNCHANGED <<tRail, tCredits, tReversals, tFees, tRequest, tOrder, tTaken,
                     tManuals>>
      /\ tStatus' = tStatus \/ (tStatus = "pending" /\ tStatus' = "failed")
  BY DEF TyltPayins!Fail, TyltPayins!books
<1>2. /\ tHook' = [tHook EXCEPT ![h] = "idle"]
      /\ tNote' = [tNote EXCEPT ![h] = TyltPayins!NoNote]
  BY <1>1, TyltSteppers
<1>3. TyltTypes'
  BY <1>1, <1>f DEF TyltTypes
<1>4. ~Legacy => TyltBooks'
  BY <1>1, <1>f DEF TyltBooks
<1>5. /\ "idle" \in TyltSteps /\ TyltPayins!NoNote \in TyltNote
      /\ ~Legacy => TyltKnows("idle", TyltPayins!NoNote, tOrder, tRail)
  BY TyltNotes DEF TyltSteps, TyltKnows
<1>6. tOrder' = tOrder /\ tRail' = tRail
  BY <1>1
<1>z. TyltMoves(h, "idle", TyltPayins!NoNote)
  BY <1>2, <1>3, <1>4, <1>5, <1>6 DEF TyltMoves
<1> QED  BY <1>z, TyltOwn

LEMMA TyltInit == TyltPayins!Init => TyltInv
<1> SUFFICES ASSUME TyltPayins!Init PROVE TyltInv
  OBVIOUS
<1>1. /\ tNote \in [TyltPayins!Actor -> TyltNote]
      /\ \A h \in TyltPayins!Actor : tNote[h].says = "nothing"
                                     /\ tNote[h].seen = "none"
  BY TyltNotes DEF TyltPayins!Init
<1>2. /\ tHook \in [TyltPayins!Actor -> TyltSteps]
      /\ \A h \in TyltPayins!Actor : tHook[h] = "idle"
  BY DEF TyltPayins!Init, TyltSteps
<1>3. tCredits \in TyltCredits /\ (~Legacy => tCredits["usdt"] = 0)
      /\ (~Legacy => tCredits["old"] = 0)
  BY DEF TyltPayins!Init, TyltCredits
<1>4. TyltTypes
  BY <1>3, RailsAssumption DEF TyltPayins!Init, TyltTypes
<1>5. TyltPayins!TypeOK
  BY <1>1, <1>2, <1>4, TyltTyped
<1>6. ASSUME ~Legacy PROVE TyltBooks
  BY <1>3, <1>6 DEF TyltPayins!Init, TyltBooks
<1>7. \A h \in TyltPayins!Actor : TyltKnows(tHook[h], tNote[h], tOrder, tRail)
  BY <1>1, <1>2 DEF TyltKnows
<1> QED  BY <1>5, <1>6, <1>7 DEF TyltInv

LEMMA TyltNext == ASSUME TyltInv, TyltPayins!Next PROVE TyltInv'
<1>1. CASE \E h \in TyltPayins!Actor : TyltPayins!Apply(h)
  BY <1>1, TyltReads, TyltAsks, TyltSettles, TyltFails DEF TyltPayins!Apply
<1> QED  BY <1>1, TyltRequests, TyltBegins DEF TyltPayins!Next

LEMMA TyltMeans ==
    TyltInv /\ ~Legacy => TyltPayins!CreditedOnce /\ TyltPayins!CreditedIsPaid
<1> SUFFICES ASSUME TyltInv, ~Legacy
             PROVE  TyltPayins!CreditedOnce /\ TyltPayins!CreditedIsPaid
  OBVIOUS
<1>1. TyltBooks /\ TyltTypes
  BY TyltFacts
<1>2. TyltPayins!Credit = tCredits["usdt"]
  BY <1>1 DEF TyltBooks, TyltPayins!Credit
<1> QED
  BY <1>1, <1>2 DEF TyltBooks, TyltTypes, TyltPayins!CreditedOnce,
     TyltPayins!CreditedIsPaid

-----------------------------------------------------------------------------
(* A crypto payout over CPG *)

CpgSteps == {"idle", "look", "ask", "check", "refund", "settle", "mark",
             "markTell", "done"}

\* What a callback's handler at a step knows of Tylt's order: its outcome, once
\* Tylt's record has said it, does not change any more.
CpgKnows(step, known) ==
    /\ step # "idle" => known \in {"open", "completed", "failed"}
    /\ step \in {"check", "refund"} => known = "failed"
    /\ step = "settle" => known = "completed"

\* The row, the refund, the request and the order, seen together.
CpgFollows ==
    /\ cEntries.payout_refund = IF cStatus = "failed" THEN 1 ELSE 0
    /\ cRequest = "new" <=> cStatus = "none"
    /\ cRequest = "new" => cOrder = "none"
    /\ cRequest = "refund" => cOrder = "refused"
    /\ cStatus = "success" => cOrder = "completed"
    /\ cStatus = "failed" => cOrder \in {"failed", "refused"} \/ cRequest = "lost"

CpgInv ==
    /\ CpgPayouts!TypeOK
    /\ CpgFollows
    /\ \A c \in Callback : CpgKnows(cHook[c], cOrder)

CpgTypes ==
    /\ cStatus \in {"none", "pending", "success", "failed"}
    /\ cEntries \in [{"payout", "payout_refund", "platform_fee"} -> Nat]
    /\ cBalance \in Nat /\ cReview \in BOOLEAN
    /\ cRequest \in {"new", "await", "refund", "unsure", "done", "lost", "gone"}
    /\ cOrder \in {"none", "sent", "open", "refused", "completed", "failed"}
    /\ cSays \in [Callback -> {"nothing", "completed", "failed"}]
    /\ cHook \in [Callback -> CpgSteps]
    /\ cEvent \in [Callback -> {"absent", "received", "processed", "failed"}]
    /\ cTold \in [Callback -> {"nothing", "success", "failed"}]
    /\ cErrors \in 0 .. MaxError

LEMMA CpgTypesAre == CpgPayouts!TypeOK <=> CpgTypes
  BY DEF CpgPayouts!TypeOK, CpgPayouts!Final, CpgTypes, CpgSteps

LEMMA CpgInit == CpgPayouts!Init => CpgInv
<1> SUFFICES ASSUME CpgPayouts!Init PROVE CpgInv
  OBVIOUS
<1>1. CpgTypes
  <2>1. cEntries \in [{"payout", "payout_refund", "platform_fee"} -> Nat]
    BY DEF CpgPayouts!Init
  <2>2. cErrors \in 0 .. MaxError /\ cBalance \in Nat
    BY TekkoAssumption DEF CpgPayouts!Init
  <2>3. /\ cSays \in [Callback -> {"nothing", "completed", "failed"}]
        /\ cHook \in [Callback -> CpgSteps]
        /\ cEvent \in [Callback -> {"absent", "received", "processed", "failed"}]
        /\ cTold \in [Callback -> {"nothing", "success", "failed"}]
    BY DEF CpgPayouts!Init, CpgSteps
  <2> QED  BY <2>1, <2>2, <2>3 DEF CpgPayouts!Init, CpgTypes
<1> QED  BY <1>1, CpgTypesAre DEF CpgPayouts!Init, CpgInv, CpgFollows, CpgKnows

\* The handler of one callback moves; the order stays.
CpgMoves(c, to) ==
    /\ cHook[c] # "idle" \/ cOrder \in {"open", "completed", "failed"}
    /\ cHook' = [cHook EXCEPT ![c] = to] /\ to \in CpgSteps
    /\ CpgKnows(to, cOrder)
    /\ cOrder' = cOrder /\ cRequest' = cRequest
    /\ CpgTypes' /\ CpgFollows'

LEMMA CpgOwn ==
  ASSUME CpgInv, NEW c \in Callback, NEW to, CpgMoves(c, to)
  PROVE  CpgInv'
<1>1. cHook \in [Callback -> CpgSteps]
  BY CpgTypesAre DEF CpgInv, CpgTypes
<1>2. ASSUME NEW d \in Callback PROVE CpgKnows(cHook'[d], cOrder')
  BY <1>1 DEF CpgMoves, CpgInv
<1>3. CpgPayouts!TypeOK'
  BY DEF CpgMoves, CpgTypes, CpgPayouts!TypeOK, CpgPayouts!Final, CpgSteps
<1> QED  BY <1>2, <1>3 DEF CpgInv, CpgMoves

\* What a step of a handler starts from.
LEMMA CpgFacts ==
  ASSUME CpgInv
  PROVE  /\ CpgTypes /\ CpgFollows
         /\ \A c \in Callback : CpgKnows(cHook[c], cOrder)
         /\ \A c \in Callback, from, to \in CpgSteps :
               CpgPayouts!HookStep(c, from, to) =>
                  /\ cHook[c] = from /\ cHook' = [cHook EXCEPT ![c] = to]
                  /\ cHook' \in [Callback -> CpgSteps]
         /\ Amount \in Nat /\ Fee \in Nat /\ MaxError \in Nat
<1>1. CpgTypes
  BY CpgTypesAre DEF CpgInv
<1> QED  BY <1>1, TekkoAssumption DEF CpgInv, CpgPayouts!HookStep, CpgTypes

\* A refund that is due, by the request or a callback.
LEMMA CpgRefund ==
  ASSUME CpgInv, CpgPayouts!RefundPayoutDebit, cOrder' = cOrder,
         cRequest' \in {"new", "await", "refund", "unsure", "done", "lost", "gone"},
         cRequest = "new" <=> cRequest' = "new",
         cRequest' # "refund" \/ cRequest' = cRequest,
         cRequest = "lost" => cRequest' = "lost",
         \/ cOrder \in {"failed", "refused"} \/ cRequest' = "lost",
         UNCHANGED <<cReview, cSays, cEvent, cTold, cErrors>>,
         cHook' \in [Callback -> CpgSteps]
  PROVE  CpgTypes' /\ CpgFollows'
<1>f. CpgTypes /\ CpgFollows /\ Amount \in Nat
  BY CpgFacts
<1>1. CASE cStatus = "pending"
  <2>1. /\ cStatus' = "failed" /\ cBalance' \in Nat
        /\ cEntries' \in [{"payout", "payout_refund", "platform_fee"} -> Nat]
        /\ cEntries'.payout_refund = 1
    BY <1>1, <1>f DEF CpgPayouts!RefundPayoutDebit, CpgTypes, CpgFollows
  <2> QED  BY <2>1, <1>1, <1>f DEF CpgTypes, CpgFollows
<1>2. CASE cStatus # "pending"
  <2>1. cStatus' = cStatus /\ cEntries' = cEntries /\ cBalance' = cBalance
    BY <1>2 DEF CpgPayouts!RefundPayoutDebit, CpgPayouts!money
  <2> QED  BY <2>1, <1>2, <1>f DEF CpgTypes, CpgFollows
<1> QED  BY <1>1, <1>2

\* The request debits, hears of its order, refunds; Tylt decides.
LEMMA CpgRequest ==
  ASSUME CpgInv, \/ CpgPayouts!Debit \/ CpgPayouts!Answered
                 \/ CpgPayouts!Unanswered \/ CpgPayouts!RefundRequest
                 \/ CpgPayouts!TyltReceives \/ CpgPayouts!TyltSettles
  PROVE  CpgInv'
<1>f. /\ CpgTypes /\ CpgFollows /\ Amount \in Nat /\ Fee \in Nat
      /\ \A c \in Callback : CpgKnows(cHook[c], cOrder)
  BY CpgFacts
<1>h. cHook' = cHook
  BY DEF CpgPayouts!Debit, CpgPayouts!Answered, CpgPayouts!Unanswered,
         CpgPayouts!RefundRequest, CpgPayouts!TyltReceives,
         CpgPayouts!TyltSettles, CpgPayouts!webhook
<1>1. CpgTypes' /\ CpgFollows'
  <2>1. CASE CpgPayouts!Debit
    <3>1. /\ cRequest = "new" /\ cRequest' = "await" /\ cStatus' = "pending"
          /\ cOrder' = "sent" /\ cBalance >= Amount + Fee
          /\ cEntries' = [cEntries EXCEPT !.payout = 1]
          /\ cBalance' = cBalance - Amount
          /\ UNCHANGED <<cReview, cSays, cEvent, cTold, cErrors>>
      BY <2>1 DEF CpgPayouts!Debit, CpgPayouts!Proceed, CpgPayouts!webhook
    <3>2. /\ cBalance' \in Nat
          /\ cEntries' \in [{"payout", "payout_refund", "platform_fee"} -> Nat]
          /\ cEntries'.payout_refund = cEntries.payout_refund
      BY <3>1, <1>f DEF CpgTypes
    <3> QED  BY <3>1, <3>2, <1>f, <1>h DEF CpgTypes, CpgFollows
  <2>2. CASE CpgPayouts!Answered \/ CpgPayouts!Unanswered
    <3>1. /\ cRequest = "await" /\ cRequest' \in {"refund", "done", "unsure"}
          /\ cRequest' = "refund" => cOrder = "refused"
          /\ UNCHANGED <<cStatus, cEntries, cBalance, cReview, cOrder, cSays,
                         cEvent, cTold, cErrors>>
      BY <2>2 DEF CpgPayouts!Answered, CpgPayouts!Unanswered, CpgPayouts!money,
                  CpgPayouts!Proceed, CpgPayouts!webhook
    <3> QED  BY <3>1, <1>f, <1>h DEF CpgTypes, CpgFollows
  <2>3. CASE CpgPayouts!RefundRequest
    <3>1. /\ \/ cRequest = "refund" /\ cRequest' = "done"
             \/ cRequest = "unsure" /\ cRequest' = "lost"
          /\ cOrder' = cOrder /\ CpgPayouts!RefundPayoutDebit
          /\ UNCHANGED <<cReview, cSays, cEvent, cTold, cErrors>>
      BY <2>3 DEF CpgPayouts!RefundRequest, CpgPayouts!Proceed, CpgPayouts!webhook
    <3>2. cOrder \in {"failed", "refused"} \/ cRequest' = "lost"
      BY <3>1, <1>f DEF CpgFollows
    <3>3. cHook' \in [Callback -> CpgSteps]
      BY <1>h, <1>f DEF CpgTypes
    <3> QED  BY <3>1, <3>2, <3>3, CpgRefund
  <2>4. CASE CpgPayouts!TyltReceives \/ CpgPayouts!TyltSettles
    <3>1. /\ \/ cOrder = "sent" /\ cOrder' \in {"open", "refused"}
             \/ cOrder = "open" /\ cOrder' \in {"completed", "failed"}
          /\ UNCHANGED <<cStatus, cEntries, cBalance, cReview, cRequest, cSays,
                         cEvent, cTold, cErrors>>
      BY <2>4 DEF CpgPayouts!TyltReceives, CpgPayouts!TyltSettles,
                  CpgPayouts!Final, CpgPayouts!money, CpgPayouts!webhook
    <3> QED  BY <3>1, <1>f, <1>h DEF CpgTypes, CpgFollows
  <2> QED  BY <2>1, <2>2, <2>3, <2>4
<1>2. \/ cOrder' = cOrder
      \/ cOrder = "none" /\ cOrder' = "sent"
      \/ cOrder = "sent" /\ cOrder' \in {"open", "refused"}
      \/ cOrder = "open" /\ cOrder' \in {"completed", "failed"}
  BY <1>f DEF CpgPayouts!Debit, CpgPayouts!Answered, CpgPayouts!Unanswered,
     CpgPayouts!RefundRequest, CpgPayouts!TyltReceives, CpgPayouts!TyltSettles,
     CpgPayouts!Final, CpgPayouts!Proceed, CpgFollows
<1>3. ASSUME NEW c \in Callback PROVE CpgKnows(cHook'[c], cOrder')
  <2>1. CpgKnows(cHook[c], cOrder) /\ cHook' = cHook
    BY <1>f, <1>h
  <2> QED  BY <1>2, <2>1 DEF CpgKnows
<1>4. CpgPayouts!TypeOK'
  BY <1>1 DEF CpgTypes, CpgPayouts!TypeOK, CpgPayouts!Final, CpgSteps
<1> QED  BY <1>1, <1>3, <1>4 DEF CpgInv

\* A callback is claimed, looked up, compared with Tylt's record and applied.
LEMMA CpgHandles ==
  ASSUME CpgInv, NEW c \in Callback, CpgPayouts!HandleCallback(c)
  PROVE  CpgInv'
<1>f. /\ CpgTypes /\ CpgFollows /\ Amount \in Nat /\ Fee \in Nat
      /\ CpgKnows(cHook[c], cOrder)
  BY CpgFacts
<1>o. cOrder' = cOrder /\ cRequest' = cRequest /\ cErrors' = cErrors
  BY DEF CpgPayouts!HandleCallback, CpgPayouts!Claim, CpgPayouts!LookUp,
         CpgPayouts!AskTylt, CpgPayouts!StillPending, CpgPayouts!RefundCallback,
         CpgPayouts!Settle, CpgPayouts!MarkProcessed
<1>1. CASE CpgPayouts!Claim(c)
  <2>1. /\ CpgPayouts!HookStep(c, "idle", "look")
        /\ cOrder \in {"open", "completed", "failed"}
        /\ UNCHANGED <<cStatus, cEntries, cBalance, cReview, cTold>>
    BY <1>1 DEF CpgPayouts!Claim, CpgPayouts!Final, CpgPayouts!money
  <2>2. /\ cSays' \in [Callback -> {"nothing", "completed", "failed"}]
        /\ cEvent' \in [Callback -> {"absent", "received", "processed", "failed"}]
    BY <1>1, <1>f DEF CpgPayouts!Claim, CpgPayouts!Final, CpgTypes
  <2>3. /\ cHook' = [cHook EXCEPT ![c] = "look"] /\ "look" \in CpgSteps
        /\ cHook' \in [Callback -> CpgSteps]
    BY <2>1, CpgFacts DEF CpgSteps
  <2>4. CpgTypes' /\ CpgFollows'
    BY <2>1, <2>2, <2>3, <1>f, <1>o DEF CpgTypes, CpgFollows
  <2>z. CpgMoves(c, "look")
    BY <2>1, <2>3, <2>4, <1>o DEF CpgMoves, CpgKnows
  <2> QED  BY <2>z, CpgOwn
<1>2. CASE CpgPayouts!LookUp(c) \/ CpgPayouts!AskTylt(c)
           \/ CpgPayouts!StillPending(c)
  <2>1. /\ UNCHANGED <<cStatus, cEntries, cBalance, cSays, cEvent, cTold>>
        /\ cReview' \in BOOLEAN
    BY <1>2, <1>f DEF CpgPayouts!LookUp, CpgPayouts!AskTylt,
         CpgPayouts!StillPending, CpgPayouts!money, CpgTypes
  <2>2. PICK from \in CpgSteps, to \in CpgSteps :
          /\ CpgPayouts!HookStep(c, from, to) /\ from # "idle"
          /\ CpgKnows(to, cOrder)
    <3>1. CASE CpgPayouts!LookUp(c)
      BY <3>1, <1>f DEF CpgPayouts!LookUp, CpgPayouts!HookStep, CpgSteps, CpgKnows
    <3>2. CASE CpgPayouts!AskTylt(c)
      <4>1. CpgPayouts!HookStep(c, "ask", "mark")
            \/ /\ CpgPayouts!HookStep(c, "ask", "check") /\ cOrder = "failed"
            \/ /\ CpgPayouts!HookStep(c, "ask", "settle") /\ cOrder = "completed"
        <5>1. cSays[c] \in {"nothing", "completed", "failed"} /\ cOrder # "nothing"
          BY <1>f DEF CpgTypes
        <5> QED  BY <5>1, <3>2 DEF CpgPayouts!AskTylt
      <4>2. cOrder \in {"open", "completed", "failed"}
        BY <4>1, <1>f DEF CpgPayouts!HookStep, CpgKnows
      <4>3. {"ask", "mark", "check", "settle"} \subseteq CpgSteps
        BY DEF CpgSteps
      <4> QED  BY <4>1, <4>2, <4>3 DEF CpgKnows
    <3>3. CASE CpgPayouts!StillPending(c)
      BY <3>3, <1>f DEF CpgPayouts!StillPending, CpgPayouts!HookStep, CpgSteps,
         CpgKnows
    <3> QED  BY <1>2, <3>1, <3>2, <3>3
  <2>3. /\ cHook[c] = from /\ cHook' = [cHook EXCEPT ![c] = to]
        /\ cHook' \in [Callback -> CpgSteps]
    BY <2>2, CpgFacts
  <2>4. CpgTypes' /\ CpgFollows'
    BY <2>1, <2>3, <1>f, <1>o DEF CpgTypes, CpgFollows
  <2>z. CpgMoves(c, to)
    BY <2>2, <2>3, <2>4, <1>o DEF CpgMoves
  <2> QED  BY <2>z, CpgOwn
<1>3. CASE CpgPayouts!RefundCallback(c)
  <2>1. /\ CpgPayouts!HookStep(c, "refund", "markTell")
        /\ CpgPayouts!RefundPayoutDebit
        /\ UNCHANGED <<cReview, cSays, cEvent, cTold>>
    BY <1>3 DEF CpgPayouts!RefundCallback
  <2>2. {"refund", "markTell"} \subseteq CpgSteps
    BY DEF CpgSteps
  <2>3. /\ cHook[c] = "refund" /\ cHook' = [cHook EXCEPT ![c] = "markTell"]
        /\ cHook' \in [Callback -> CpgSteps]
    BY <2>1, <2>2, CpgFacts
  <2>4. CpgTypes' /\ CpgFollows'
    <3>1. cOrder = "failed"
      BY <2>3, <1>f DEF CpgKnows
    <3>2. /\ cRequest' \in {"new", "await", "refund", "unsure", "done", "lost",
                            "gone"}
      BY <1>f, <1>o DEF CpgTypes
    <3> QED  BY <2>1, <2>3, <1>o, <3>1, <3>2, CpgRefund
  <2>z. CpgMoves(c, "markTell")
    BY <2>2, <2>3, <2>4, <1>o, <1>f DEF CpgMoves, CpgKnows
  <2> QED  BY <2>z, CpgOwn
<1>4. CASE CpgPayouts!Settle(c)
  <2>1. PICK to \in {"markTell", "mark"} :
          /\ CpgPayouts!HookStep(c, "settle", to)
          /\ UNCHANGED <<cReview, cSays, cEvent, cTold>>
    BY <1>4 DEF CpgPayouts!Settle
  <2>2. {"settle", to} \subseteq CpgSteps
    BY DEF CpgSteps
  <2>3. /\ cHook[c] = "settle" /\ cHook' = [cHook EXCEPT ![c] = to]
        /\ cHook' \in [Callback -> CpgSteps]
    BY <2>1, <2>2, CpgFacts
  <2>4. cOrder = "completed"
    BY <2>3, <1>f DEF CpgKnows
  <2>5. /\ \/ cStatus = "pending" /\ cStatus' = "success"
           \/ cStatus' = cStatus
        /\ cBalance' \in Nat
        /\ cEntries' \in [{"payout", "payout_refund", "platform_fee"} -> Nat]
        /\ cEntries'.payout_refund = cEntries.payout_refund
    <3>1. CASE cStatus = "pending"
      BY <1>4, <1>f, <3>1 DEF CpgPayouts!Settle, CpgTypes
    <3>2. CASE cStatus # "pending"
      BY <1>4, <1>f, <3>2 DEF CpgPayouts!Settle, CpgPayouts!money, CpgTypes
    <3> QED  BY <3>1, <3>2
  <2>6. CpgTypes' /\ CpgFollows'
    BY <2>1, <2>3, <2>4, <2>5, <1>f, <1>o DEF CpgTypes, CpgFollows
  <2>z. CpgMoves(c, to)
    BY <2>2, <2>3, <2>4, <2>6, <1>o DEF CpgMoves, CpgKnows
  <2> QED  BY <2>z, CpgOwn
<1>5. CASE CpgPayouts!MarkProcessed(c)
  <2>1. PICK from \in {"markTell", "mark"} :
          /\ CpgPayouts!HookStep(c, from, "done")
          /\ UNCHANGED <<cStatus, cEntries, cBalance, cReview, cSays>>
    BY <1>5 DEF CpgPayouts!MarkProcessed, CpgPayouts!money
  <2>2. {"done", from} \subseteq CpgSteps
    BY DEF CpgSteps
  <2>3. /\ cHook[c] = from /\ cHook' = [cHook EXCEPT ![c] = "done"]
        /\ cHook' \in [Callback -> CpgSteps]
    BY <2>1, <2>2, CpgFacts
  <2>4. /\ cEvent' \in [Callback -> {"absent", "received", "processed", "failed"}]
        /\ cTold' \in [Callback -> {"nothing", "success", "failed"}]
    <3>1. CpgPayouts!Outcome(c) \in {"success", "failed"}
      BY DEF CpgPayouts!Outcome
    <3> QED  BY <3>1, <1>5, <1>f DEF CpgPayouts!MarkProcessed, CpgTypes
  <2>5. CpgTypes' /\ CpgFollows'
    BY <2>1, <2>3, <2>4, <1>f, <1>o DEF CpgTypes, CpgFollows
  <2>z. CpgMoves(c, "done")
    BY <2>2, <2>3, <2>5, <1>o, <1>f DEF CpgMoves, CpgKnows
  <2> QED  BY <2>z, CpgOwn
<1> QED  BY <1>1, <1>2, <1>3, <1>4, <1>5 DEF CpgPayouts!HandleCallback

\* A handler that dies has said all it will say.
LEMMA CpgDies ==
  ASSUME CpgInv, CpgPayouts!HandlerFails
  PROVE  CpgInv'
<1>f. /\ CpgTypes /\ CpgFollows /\ MaxError \in Nat
      /\ \A c \in Callback : CpgKnows(cHook[c], cOrder)
  BY CpgFacts
<1>1. /\ cErrors' \in 0 .. MaxError
      /\ UNCHANGED <<cStatus, cEntries, cBalance, cReview, cOrder, cSays, cTold>>
  BY <1>f DEF CpgPayouts!HandlerFails, CpgPayouts!money, CpgTypes
<1>2. CASE /\ cRequest \in {"await", "refund", "unsure"} /\ cRequest' = "gone"
           /\ UNCHANGED <<cHook, cEvent>>
  <2>1. CpgTypes' /\ CpgFollows'
    BY <1>1, <1>2, <1>f DEF CpgTypes, CpgFollows
  <2>2. CpgPayouts!TypeOK'
    BY <2>1 DEF CpgTypes, CpgPayouts!TypeOK, CpgPayouts!Final, CpgSteps
  <2>3. \A c \in Callback : CpgKnows(cHook'[c], cOrder')
    BY <1>1, <1>2, <1>f
  <2> QED  BY <2>1, <2>2, <2>3 DEF CpgInv
<1>3. CASE \E c \in Callback :
              /\ cHook[c] \notin {"idle", "done"}
              /\ cHook' = [cHook EXCEPT ![c] = "done"]
              /\ cEvent' \in {cEvent, [cEvent EXCEPT ![c] = "failed"]}
              /\ cRequest' = cRequest
  <2>1. PICK c \in Callback :
              /\ cHook[c] \notin {"idle", "done"}
              /\ cHook' = [cHook EXCEPT ![c] = "done"]
              /\ cEvent' \in {cEvent, [cEvent EXCEPT ![c] = "failed"]}
              /\ cRequest' = cRequest
    BY <1>3
  <2>2. /\ cEvent' \in [Callback -> {"absent", "received", "processed", "failed"}]
        /\ cHook' \in [Callback -> CpgSteps] /\ "done" \in CpgSteps
    BY <2>1, <1>f DEF CpgTypes, CpgSteps
  <2>3. CpgTypes' /\ CpgFollows'
    BY <1>1, <2>1, <2>2, <1>f DEF CpgTypes, CpgFollows
  <2>z. CpgMoves(c, "done")
    BY <1>1, <2>1, <2>2, <2>3, <1>f DEF CpgMoves, CpgKnows
  <2> QED  BY <2>z, CpgOwn
<1> QED  BY <1>2, <1>3 DEF CpgPayouts!HandlerFails

LEMMA CpgNext == ASSUME CpgInv, CpgPayouts!Next PROVE CpgInv'
  BY CpgRequest, CpgHandles, CpgDies DEF CpgPayouts!Next

LEMMA CpgMeans == CpgInv => CpgPayouts!FollowsTheRecord
  BY DEF CpgInv, CpgFollows, CpgPayouts!FollowsTheRecord

-----------------------------------------------------------------------------
(* A EUR payout *)

EurTypes ==
    /\ eStatus \in {"none", "pending", "success", "failed"}
    /\ eAmount \in {"fiat", "quote"} /\ eRead \in {"nothing", "fiat", "quote"}
    /\ eDebited \in Nat /\ eRefunded \in Nat /\ eFees \in 0 .. 1
    /\ eBalance \in Nat
    /\ eRequest \in {"new", "await", "debit", "record", "done", "gone"}
    /\ eOrder \in {"none", "sent", "open", "refused", "completed", "failed"}
    /\ eHook \in {"idle", "apply", "tell", "done"}
    /\ eTold \in {"nothing", "success", "failed"}
    /\ eErrors \in 0 .. MaxError

\* Nothing happens to the payout before it is there, and its fee comes last.
EurStarts ==
    /\ eRequest = "new" <=> eStatus = "none"
    /\ eRequest = "new" => eOrder = "none"
    /\ eStatus \in {"none", "pending"} => eFees = 0

\* Where the request is says what the wallet has paid, and what it has recorded
\* it has paid; what the callback has read the row still says, and the one that
\* returns something does so once.
EurInOrder ==
    /\ eRequest \in {"new", "await", "debit"} => eDebited = 0 /\ eAmount = "fiat"
    /\ eRequest = "record" => eDebited = Quote /\ eAmount = "fiat"
    /\ eAmount = "quote" => eDebited = Quote
    /\ eRead = "quote" => eAmount = "quote"
    /\ eHook \in {"idle", "apply"} => eRefunded = 0
    /\ \/ eRefunded = 0
       \/ /\ eRefunded = EurPayouts!Worth(eRead)
          /\ eStatus = "failed" /\ eOrder = "failed"

EurInv == EurPayouts!TypeOK /\ EurStarts /\ EurInOrder

EurNumbers == {Fiat, Quote, Fee, Opening, MaxError} \subseteq Nat

LEMMA EurFacts ==
  /\ EurPayouts!TypeOK <=> EurTypes
  /\ EurNumbers
  /\ \A a \in {"nothing", "fiat", "quote"} : EurPayouts!Worth(a) \in Nat
  BY TekkoAssumption, RailsAssumption
     DEF EurPayouts!TypeOK, EurPayouts!Final, EurTypes, EurNumbers, EurPayouts!Worth

LEMMA EurInit == EurPayouts!Init => EurInv
<1> SUFFICES ASSUME EurPayouts!Init PROVE EurInv
  OBVIOUS
<1>1. EurTypes
  BY EurFacts DEF EurPayouts!Init, EurTypes, EurNumbers
<1> QED  BY <1>1, EurFacts DEF EurPayouts!Init, EurInv, EurStarts, EurInOrder

\* The request and Tylt.
LEMMA EurRequests ==
  ASSUME EurInv, \/ EurPayouts!CreateInstance \/ EurPayouts!RequestStep
                 \/ EurPayouts!TyltReceives \/ EurPayouts!TyltSettles
  PROVE  EurInv'
<1>f. EurTypes /\ EurStarts /\ EurInOrder /\ EurNumbers
  BY EurFacts DEF EurInv
<1>1. CASE EurPayouts!CreateInstance
  <2>1. /\ eRequest = "new" /\ eRequest' = "await" /\ eStatus' = "pending"
        /\ eOrder' = "sent"
        /\ UNCHANGED <<eAmount, eDebited, eRefunded, eFees, eBalance, eHook,
                       eRead, eTold, eErrors>>
    BY <1>1 DEF EurPayouts!CreateInstance, EurPayouts!Proceed,
       EurPayouts!ledger, EurPayouts!callback
  <2>2. EurTypes'
    BY <2>1, <1>f DEF EurTypes
  <2>3. EurStarts'
    BY <2>1, <1>f DEF EurStarts
  <2>4. EurInOrder'
    BY <2>1, <1>f DEF EurInOrder, EurStarts
  <2> QED
    BY <2>2, <2>3, <2>4 DEF EurInv, EurTypes, EurPayouts!TypeOK, EurPayouts!Final
<1>2. CASE EurPayouts!Answered \/ EurPayouts!Unanswered
  BY <1>2, <1>f DEF EurInv, EurPayouts!Answered, EurPayouts!Unanswered,
     EurPayouts!Proceed, EurPayouts!MarkFailed, EurPayouts!row,
     EurPayouts!ledger, EurPayouts!callback, EurTypes, EurStarts, EurInOrder,
     EurPayouts!TypeOK, EurPayouts!Final
<1>3. CASE EurPayouts!DebitQuote
  <2>1. /\ eRequest = "debit" /\ eRequest' = "record"
        /\ eDebited' = eDebited + Quote /\ eBalance' = eBalance - Quote
        /\ eDebited' \in Nat /\ eBalance' \in Nat
        /\ UNCHANGED <<eStatus, eAmount, eRefunded, eFees, eOrder, eHook,
                       eRead, eTold, eErrors>>
    BY <1>3, <1>f DEF EurPayouts!DebitQuote, EurPayouts!Proceed, EurPayouts!row,
       EurPayouts!callback, EurTypes, EurNumbers
  <2>2. EurTypes'
    BY <2>1, <1>f DEF EurTypes
  <2>3. EurStarts' /\ EurInOrder'
    BY <2>1, <1>f DEF EurStarts, EurInOrder, EurTypes, EurNumbers
  <2> QED  BY <2>2, <2>3 DEF EurInv, EurTypes, EurPayouts!TypeOK, EurPayouts!Final
<1>4. CASE EurPayouts!RefuseDebit \/ EurPayouts!RecordQuote
  BY <1>4, <1>f DEF EurInv, EurPayouts!RefuseDebit, EurPayouts!RecordQuote,
     EurPayouts!Proceed, EurPayouts!MarkFailed, EurPayouts!row,
     EurPayouts!ledger, EurPayouts!callback, EurTypes, EurStarts, EurInOrder,
     EurPayouts!TypeOK, EurPayouts!Final
<1>5. CASE EurPayouts!RequestDies
  BY <1>5, <1>f DEF EurInv, EurPayouts!RequestDies,
     EurPayouts!Proceed, EurPayouts!row, EurNumbers,
     EurPayouts!ledger, EurPayouts!callback, EurTypes, EurStarts, EurInOrder,
     EurPayouts!TypeOK, EurPayouts!Final
<1>6. CASE EurPayouts!TyltReceives \/ EurPayouts!TyltSettles
  BY <1>6, <1>f DEF EurInv, EurPayouts!TyltReceives, EurPayouts!TyltSettles,
     EurPayouts!row, EurPayouts!ledger, EurPayouts!callback, EurTypes,
     EurStarts, EurInOrder, EurPayouts!TypeOK, EurPayouts!Final
<1> QED
  BY <1>1, <1>2, <1>3, <1>4, <1>5, <1>6 DEF EurPayouts!RequestStep

\* The final callback.
LEMMA EurCallbacks ==
  ASSUME EurInv, EurPayouts!CallbackStep
  PROVE  EurInv'
<1>f. EurTypes /\ EurStarts /\ EurInOrder /\ EurNumbers
  BY EurFacts DEF EurInv
<1>1. CASE EurPayouts!LookUp
  BY <1>1, <1>f DEF EurInv, EurPayouts!LookUp, EurPayouts!HookStep,
     EurPayouts!row, EurPayouts!ledger, EurTypes, EurStarts, EurInOrder,
     EurPayouts!TypeOK, EurPayouts!Final
<1>2. CASE EurPayouts!Refund
  <2>1. /\ eHook = "apply" /\ eHook' = "tell" /\ eOrder = "failed"
        /\ UNCHANGED <<eAmount, eDebited, eFees, eRequest, eOrder, eRead, eTold,
                       eErrors>>
    BY <1>2 DEF EurPayouts!Refund, EurPayouts!HookStep
  <2>2. \/ /\ eStatus = "pending" /\ eStatus' = "failed"
           /\ eRefunded' = eRefunded + EurPayouts!Worth(eRead)
           /\ EurPayouts!Worth(eRead) \in Nat /\ eRefunded' \in Nat
           /\ eBalance' \in Nat
        \/ /\ eStatus # "pending" /\ eStatus' = eStatus
           /\ eRefunded' = eRefunded /\ eBalance' = eBalance
    <3>1. CASE eStatus = "pending"
      <4>1. EurPayouts!Worth(eRead) \in Nat
        BY <1>f, EurFacts DEF EurTypes
      <4> QED
        BY <4>1, <3>1, <1>2, <1>f DEF EurPayouts!Refund, EurTypes
    <3>2. CASE eStatus # "pending"
      BY <3>2, <1>2 DEF EurPayouts!Refund
    <3> QED  BY <3>1, <3>2
  <2>3. EurTypes' /\ EurStarts'
    BY <2>1, <2>2, <1>f DEF EurTypes, EurStarts
  <2>4. EurInOrder'
    BY <2>1, <2>2, <1>f DEF EurInOrder
  <2> QED  BY <2>3, <2>4 DEF EurInv, EurTypes, EurPayouts!TypeOK, EurPayouts!Final
<1>3. CASE EurPayouts!Settle
  <2>1. /\ eHook = "apply" /\ eHook' \in {"tell", "done"} /\ eOrder = "completed"
        /\ UNCHANGED <<eAmount, eDebited, eRefunded, eRequest, eOrder, eRead,
                       eTold, eErrors>>
    BY <1>3 DEF EurPayouts!Settle, EurPayouts!HookStep
  <2>2. \/ /\ eStatus = "pending" /\ eStatus' = "success" /\ eHook' = "tell"
           /\ eFees' \in 0 .. 1 /\ eBalance' \in Nat
        \/ /\ eStatus # "pending" /\ eStatus' = eStatus
           /\ eFees' = eFees /\ eBalance' = eBalance
    <3>1. CASE eStatus = "pending"
      <4>1. eFees = 0
        BY <3>1, <1>f DEF EurStarts
      <4> QED
        BY <4>1, <3>1, <1>3, <1>f DEF EurPayouts!Settle, EurPayouts!HookStep,
           EurTypes, EurNumbers
    <3>2. CASE eStatus # "pending"
      BY <3>2, <1>3 DEF EurPayouts!Settle
    <3> QED  BY <3>1, <3>2
  <2>3. EurTypes' /\ EurStarts'
    BY <2>1, <2>2, <1>f DEF EurTypes, EurStarts
  <2>4. EurInOrder'
    BY <2>1, <2>2, <1>f DEF EurInOrder
  <2> QED  BY <2>3, <2>4 DEF EurInv, EurTypes, EurPayouts!TypeOK, EurPayouts!Final
<1>4. CASE EurPayouts!Tell \/ EurPayouts!CallbackFails
  BY <1>4, <1>f DEF EurInv, EurPayouts!Tell, EurPayouts!CallbackFails,
     EurPayouts!HookStep, EurPayouts!row, EurPayouts!ledger, EurNumbers,
     EurTypes, EurStarts, EurInOrder, EurPayouts!TypeOK, EurPayouts!Final
<1> QED
  BY <1>1, <1>2, <1>3, <1>4 DEF EurPayouts!CallbackStep

LEMMA EurNext == ASSUME EurInv, EurPayouts!Next PROVE EurInv'
  BY EurRequests, EurCallbacks DEF EurPayouts!Next

LEMMA EurMeans == EurInv => EurPayouts!RefundsWhatItRead
  BY DEF EurInv, EurInOrder, EurPayouts!RefundsWhatItRead

-----------------------------------------------------------------------------
(* A pay-in over Tekko *)

PayinSteps == {"idle", "look", "ask", "settle", "fail", "fee"}
PayinBody == {"paid", "credited", "expired"}
PayinNote == [says : {"nothing", "paid", "credited", "expired"},
              read : {"none", "pending", "success", "failed"}]

\* What no handler changes but by the row: the types of everything else.
PayinTypes ==
    /\ kProduct \in Product
    /\ kStatus \in {"none", "pending", "success", "failed"}
    /\ kCredits \in Nat /\ kFees \in Nat
    /\ kRequest \in {"new", "await", "done", "lost", "gone"}
    /\ kOrder \in {"none", "sent", "open", "refused", "paid", "credited",
                   "expired"}
    /\ kMapped \in BOOLEAN
    /\ kEvent \in [PayinBody -> {"none", "owed", "processed"}]
    /\ kStumbles \in 0 .. MaxStumbles

\* Only money that Tekko holds is spoken of as credited, or settled.
PayinKnows(step, n, known, of) ==
    /\ n.says = "credited" => known = "credited"
    /\ step = "settle" => known = "credited"
    /\ of = "va" => n.says \in {"nothing", "credited"}
    /\ step = "look" => n.says # "nothing"

\* What callbacks may say: of a VA only that a deposit is there.
PayinTold(says, known, of) ==
    /\ says["credited"] # "none" => known = "credited"
    /\ of = "va" => says["paid"] = "none" /\ says["expired"] = "none"

PayinBooks ==
    /\ kCredits = IF kStatus = "success" THEN 1 ELSE 0
    /\ kFees <= kCredits
    /\ kStatus = "success" => kOrder = "credited"

\* A pay-in that has no row yet.
PayinStarts == kRequest = "new" => kStatus = "none" /\ kOrder = "none"

\* The fee is left to whoever applied the credit, and not taken yet.
PayinOneFee ==
    /\ \A h \in TekkoPayins!Actor :
          kHook[h] = "fee" => kStatus = "success" /\ kFees = 0
    /\ \A g, h \in TekkoPayins!Actor :
          kHook[g] = "fee" /\ kHook[h] = "fee" => g = h

PayinInv ==
    /\ TekkoPayins!TypeOK
    /\ PayinBooks /\ PayinStarts /\ PayinOneFee
    /\ PayinTold(kEvent, kOrder, kProduct)
    /\ \A h \in TekkoPayins!Actor : PayinKnows(kHook[h], kNote[h], kOrder, kProduct)

LEMMA PayinTyped ==
    TekkoPayins!TypeOK <=>
       /\ PayinTypes
       /\ kHook \in [TekkoPayins!Actor -> PayinSteps]
       /\ kNote \in [TekkoPayins!Actor -> PayinNote]
<1>1. {"nothing"} \cup TekkoPayins!Body = {"nothing", "paid", "credited", "expired"}
  BY DEF TekkoPayins!Body
<1> QED
  BY <1>1 DEF TekkoPayins!TypeOK, TekkoPayins!Body, PayinTypes, PayinSteps,
     PayinNote, PayinBody

LEMMA PayinOutcome ==
    /\ TekkoPayins!Outcome("credited") = "settle"
    /\ TekkoPayins!Outcome("expired") = "fail"
    /\ \A says : says \notin {"credited", "expired"} =>
          TekkoPayins!Outcome(says) = "idle"
<1>1. TekkoPayins!Outcome("credited") = "settle"
  BY DEF TekkoPayins!Outcome
<1>2. TekkoPayins!Outcome("expired") = "fail"
  BY DEF TekkoPayins!Outcome
<1>3. ASSUME NEW says, says # "credited", says # "expired" PROVE TekkoPayins!Outcome(says) = "idle"
  BY <1>3 DEF TekkoPayins!Outcome
<1> QED  BY <1>1, <1>2, <1>3

LEMMA PayinActors == /\ "poll" \in TekkoPayins!Actor /\ "staff" \in TekkoPayins!Actor
                     /\ Handler \subseteq TekkoPayins!Actor
  BY DEF TekkoPayins!Actor

LEMMA PayinNotes ==
    /\ TekkoPayins!NoNote \in PayinNote /\ TekkoPayins!NoNote.says = "nothing"
    /\ \A n \in PayinNote :
          /\ n.says \in PayinBody \cup {"nothing"}
          /\ \A s \in PayinBody : /\ [n EXCEPT !.says = s] \in PayinNote
                                  /\ [n EXCEPT !.says = s].says = s
          /\ \A r \in {"none", "pending", "success", "failed"} :
                /\ [n EXCEPT !.read = r] \in PayinNote
                /\ [n EXCEPT !.read = r].says = n.says
  BY DEF TekkoPayins!NoNote, PayinNote, PayinBody

\* What a step starts from.
LEMMA PayinFacts ==
  ASSUME PayinInv
  PROVE  /\ PayinTypes
         /\ kHook \in [TekkoPayins!Actor -> PayinSteps]
         /\ kNote \in [TekkoPayins!Actor -> PayinNote]
         /\ PayinBooks /\ PayinStarts /\ PayinOneFee
         /\ PayinTold(kEvent, kOrder, kProduct)
         /\ \A h \in TekkoPayins!Actor :
               PayinKnows(kHook[h], kNote[h], kOrder, kProduct)
         /\ MaxStumbles \in Nat
  BY PayinTyped, RailsAssumption DEF PayinInv

\* One handler moves; what it does to the row keeps the books, and the fee is
\* left to it only if it applied the credit.
PayinMoves(h, to, n) ==
    /\ kHook' = [kHook EXCEPT ![h] = to] /\ to \in PayinSteps
    /\ kNote' = [kNote EXCEPT ![h] = n] /\ n \in PayinNote
    /\ PayinKnows(to, n, kOrder, kProduct)
    /\ kOrder' = kOrder /\ kRequest' = kRequest /\ kProduct' = kProduct
    /\ PayinTypes' /\ PayinBooks' /\ PayinStarts'
    /\ PayinTold(kEvent', kOrder, kProduct)
    /\ to = "fee" => kStatus # "success" /\ kStatus' = "success" /\ kFees' = 0
    /\ kHook[h] # "fee" => kFees' = kFees
    /\ kStatus = "success" => kStatus' = "success"

LEMMA PayinOwn ==
  ASSUME PayinInv, NEW h \in TekkoPayins!Actor, NEW to, NEW n,
         PayinMoves(h, to, n)
  PROVE  PayinInv'
<1>f. /\ kHook \in [TekkoPayins!Actor -> PayinSteps]
      /\ kNote \in [TekkoPayins!Actor -> PayinNote]
      /\ PayinOneFee
      /\ \A g \in TekkoPayins!Actor :
            PayinKnows(kHook[g], kNote[g], kOrder, kProduct)
  BY PayinFacts
<1>1. /\ kHook' \in [TekkoPayins!Actor -> PayinSteps]
      /\ kNote' \in [TekkoPayins!Actor -> PayinNote]
      /\ \A g \in TekkoPayins!Actor :
            /\ kHook'[g] = IF g = h THEN to ELSE kHook[g]
            /\ kNote'[g] = IF g = h THEN n ELSE kNote[g]
  BY <1>f DEF PayinMoves
<1>2. TekkoPayins!TypeOK'
  <2>1. {"nothing"} \cup TekkoPayins!Body
           = {"nothing", "paid", "credited", "expired"}
    BY DEF TekkoPayins!Body
  <2> QED
    BY <1>1, <2>1 DEF PayinMoves, PayinTypes, TekkoPayins!TypeOK,
       TekkoPayins!Body, PayinBody, PayinSteps, PayinNote
<1>3. PayinOneFee'
  BY <1>1, <1>f DEF PayinMoves, PayinOneFee
<1>4. ASSUME NEW g \in TekkoPayins!Actor
      PROVE PayinKnows(kHook'[g], kNote'[g], kOrder', kProduct')
  BY <1>1, <1>f DEF PayinMoves
<1> QED  BY <1>2, <1>3, <1>4 DEF PayinMoves, PayinInv

\* A handler that leaves row and books alone.
PayinQuiet(h, to, n) ==
    /\ kHook' = [kHook EXCEPT ![h] = to] /\ to \in PayinSteps \ {"fee"}
    /\ kNote' = [kNote EXCEPT ![h] = n] /\ n \in PayinNote
    /\ PayinKnows(to, n, kOrder, kProduct)
    /\ UNCHANGED <<kProduct, kCredits, kFees, kRequest, kOrder, kMapped>>
    /\ \/ kStatus' = kStatus
       \/ kStatus = "pending" /\ kStatus' = "failed"
    /\ kEvent' \in [PayinBody -> {"none", "owed", "processed"}]
    /\ PayinTold(kEvent', kOrder, kProduct)
    /\ kStumbles' \in 0 .. MaxStumbles

LEMMA PayinQuiets ==
  ASSUME PayinInv, NEW h \in TekkoPayins!Actor, NEW to, NEW n,
         PayinQuiet(h, to, n)
  PROVE  PayinInv'
<1>f. PayinTypes /\ PayinBooks /\ PayinStarts
  BY PayinFacts
<1>1. PayinTypes'
  BY <1>f DEF PayinQuiet, PayinTypes
<1>2. PayinBooks' /\ PayinStarts'
  BY <1>f DEF PayinQuiet, PayinBooks, PayinStarts
<1>z. PayinMoves(h, to, n)
  BY <1>1, <1>2 DEF PayinQuiet, PayinMoves
<1> QED  BY <1>z, PayinOwn

\* The create call, Tekko and operations.
LEMMA PayinRequest ==
  ASSUME PayinInv, \/ TekkoPayins!Insert \/ TekkoPayins!CreateAnswered
                   \/ TekkoPayins!TekkoReceives \/ TekkoPayins!TekkoExpires
                   \/ TekkoPayins!TekkoPaid \/ TekkoPayins!TekkoCredits
                   \/ TekkoPayins!FixMapping
  PROVE  PayinInv'
<1>f. /\ PayinTypes
      /\ kHook \in [TekkoPayins!Actor -> PayinSteps]
      /\ kNote \in [TekkoPayins!Actor -> PayinNote]
      /\ PayinBooks /\ PayinStarts /\ PayinOneFee
      /\ PayinTold(kEvent, kOrder, kProduct)
      /\ \A h \in TekkoPayins!Actor :
            PayinKnows(kHook[h], kNote[h], kOrder, kProduct)
  BY PayinFacts
<1>h. UNCHANGED <<kProduct, kCredits, kFees, kHook, kNote, kStumbles>>
  BY DEF TekkoPayins!Insert, TekkoPayins!CreateAnswered,
     TekkoPayins!TekkoReceives, TekkoPayins!TekkoExpires, TekkoPayins!TekkoPaid,
     TekkoPayins!TekkoCredits, TekkoPayins!FixMapping, TekkoPayins!row,
     TekkoPayins!books, TekkoPayins!handlers
<1>1. /\ kStatus' = kStatus \/ (kStatus # "success" /\ kStatus' \in {"pending", "failed"})
      /\ \/ kOrder' = kOrder
         \/ /\ kOrder # "credited"
            /\ kOrder' \in {"sent", "open", "refused", "paid", "expired", "credited"}
      /\ kRequest' \in {"await", "done", "lost", "gone"} \/ UNCHANGED <<kRequest, kStatus>>
      /\ kRequest' = "new" => kOrder' = kOrder \/ kOrder # "none"
  <2>1. CASE TekkoPayins!Insert
    BY <2>1, <1>f DEF TekkoPayins!Insert, TekkoPayins!Proceed, PayinStarts
  <2>2. CASE TekkoPayins!CreateAnswered
    <3>1. kOrder \in {"open", "refused", "expired"}
      BY <2>2 DEF TekkoPayins!CreateAnswered
    <3>2. kStatus # "success"
      BY <3>1, <1>f DEF PayinBooks
    <3> QED
      BY <2>2, <3>2 DEF TekkoPayins!CreateAnswered, TekkoPayins!Proceed
  <2>3. CASE TekkoPayins!TekkoReceives \/ TekkoPayins!TekkoExpires
             \/ TekkoPayins!TekkoPaid \/ TekkoPayins!TekkoCredits
             \/ TekkoPayins!FixMapping
    BY <2>3 DEF TekkoPayins!TekkoReceives, TekkoPayins!TekkoExpires,
       TekkoPayins!TekkoPaid, TekkoPayins!TekkoCredits, TekkoPayins!FixMapping,
       TekkoPayins!row
  <2> QED  BY <2>1, <2>2, <2>3
<1>2. /\ kEvent' \in [PayinBody -> {"none", "owed", "processed"}]
      /\ PayinTold(kEvent', kOrder', kProduct')
      /\ kMapped' \in BOOLEAN
  <2>1. CASE TekkoPayins!Insert \/ TekkoPayins!CreateAnswered
             \/ TekkoPayins!TekkoReceives \/ TekkoPayins!FixMapping
    <3>1. kEvent' = kEvent /\ kMapped' \in BOOLEAN
      BY <2>1, <1>f DEF TekkoPayins!Insert, TekkoPayins!CreateAnswered,
         TekkoPayins!TekkoReceives, TekkoPayins!FixMapping, PayinTypes
    <3> QED  BY <3>1, <1>f, <1>1, <1>h DEF PayinTypes, PayinTold
  <2>2. CASE TekkoPayins!TekkoExpires \/ TekkoPayins!TekkoPaid
    <3>1. PICK body \in {"expired", "paid"} :
             /\ kEvent' = [kEvent EXCEPT ![body] = "owed"] /\ kMapped' = kMapped
             /\ kProduct # "va"
      BY <2>2 DEF TekkoPayins!TekkoExpires, TekkoPayins!TekkoPaid, TekkoPayins!Owe
    <3>2. kEvent'["credited"] = kEvent["credited"]
      BY <3>1, <1>f DEF PayinTypes, PayinBody
    <3> QED  BY <3>1, <3>2, <1>f, <1>1, <1>h DEF PayinTypes, PayinBody, PayinTold
  <2>3. CASE TekkoPayins!TekkoCredits
    BY <2>3, <1>f, <1>h DEF TekkoPayins!TekkoCredits, TekkoPayins!Owe, PayinTypes,
       PayinBody, PayinTold
  <2> QED  BY <2>1, <2>2, <2>3
<1>3. PayinTypes'
  BY <1>f, <1>h, <1>1, <1>2 DEF PayinTypes
<1>4. PayinBooks'
  BY <1>f, <1>h, <1>1 DEF PayinBooks
<1>5. PayinStarts'
  BY <1>f, <1>1 DEF PayinStarts
<1>6. PayinOneFee'
  BY <1>f, <1>h, <1>1 DEF PayinOneFee
<1>7. ASSUME NEW h \in TekkoPayins!Actor
      PROVE PayinKnows(kHook'[h], kNote'[h], kOrder', kProduct')
  BY <1>f, <1>h, <1>1 DEF PayinKnows
<1>8. TekkoPayins!TypeOK'
  <2>1. {"nothing"} \cup TekkoPayins!Body
           = {"nothing", "paid", "credited", "expired"}
    BY DEF TekkoPayins!Body
  <2> QED
    BY <1>3, <1>f, <1>h, <2>1 DEF PayinTypes, TekkoPayins!TypeOK,
       TekkoPayins!Body, PayinBody, PayinSteps, PayinNote
<1> QED  BY <1>2, <1>4, <1>5, <1>6, <1>7, <1>8 DEF PayinInv

\* How a handler goes on, and how it ends.
LEMMA PayinSteppers ==
  ASSUME PayinInv, NEW h \in TekkoPayins!Actor, NEW from, NEW to
  PROVE  /\ kNote[h] \in PayinNote /\ PayinKnows(kHook[h], kNote[h], kOrder, kProduct)
         /\ TekkoPayins!HookStep(h, from, to) =>
               kHook[h] = from /\ kHook' = [kHook EXCEPT ![h] = to]
         /\ TekkoPayins!GoOn(h, from, to) =>
               /\ kHook[h] = from /\ kHook' = [kHook EXCEPT ![h] = to]
               /\ kNote' = [kNote EXCEPT ![h] = kNote[h]]
         /\ TekkoPayins!Done(h, from) =>
               /\ kHook[h] = from /\ kHook' = [kHook EXCEPT ![h] = "idle"]
               /\ kNote' = [kNote EXCEPT ![h] = TekkoPayins!NoNote]
               /\ kEvent' \in [PayinBody -> {"none", "owed", "processed"}]
               /\ PayinTold(kEvent', kOrder, kProduct)
<1>f. /\ kNote \in [TekkoPayins!Actor -> PayinNote]
      /\ kEvent \in [PayinBody -> {"none", "owed", "processed"}]
      /\ PayinTold(kEvent, kOrder, kProduct)
      /\ PayinKnows(kHook[h], kNote[h], kOrder, kProduct)
  BY PayinFacts DEF PayinTypes
<1>1. ASSUME TekkoPayins!Done(h, from)
      PROVE  /\ kHook[h] = from /\ kHook' = [kHook EXCEPT ![h] = "idle"]
             /\ kNote' = [kNote EXCEPT ![h] = TekkoPayins!NoNote]
             /\ kEvent' \in [PayinBody -> {"none", "owed", "processed"}]
             /\ PayinTold(kEvent', kOrder, kProduct)
  <2>1. kEvent' = kEvent \/ kEvent' = [kEvent EXCEPT ![kNote[h].says] = "processed"]
    BY <1>1 DEF TekkoPayins!Done
  <2>2. /\ kEvent' \in [PayinBody -> {"none", "owed", "processed"}]
        /\ PayinTold(kEvent', kOrder, kProduct)
    BY <2>1, <1>f DEF PayinKnows, PayinBody, PayinTold
  <2> QED  BY <2>2, <1>1 DEF TekkoPayins!Done, TekkoPayins!HookStep
<1> QED
  BY <1>1, <1>f DEF TekkoPayins!GoOn, TekkoPayins!HookStep

\* What the quiet steps leave alone.
PayinRest ==
    /\ UNCHANGED <<kProduct, kCredits, kFees, kRequest, kOrder, kMapped>>
    /\ kStatus' = kStatus \/ (kStatus = "pending" /\ kStatus' = "failed")
    /\ kStumbles' \in 0 .. MaxStumbles

LEMMA PayinQuietEnd ==
  ASSUME PayinInv, NEW h \in TekkoPayins!Actor, NEW from,
         TekkoPayins!Done(h, from), PayinRest
  PROVE  PayinInv'
<1>1. "idle" \in PayinSteps \ {"fee"} /\ TekkoPayins!NoNote \in PayinNote
      /\ PayinKnows("idle", TekkoPayins!NoNote, kOrder, kProduct)
  BY PayinNotes DEF PayinSteps, PayinKnows
<1>z. PayinQuiet(h, "idle", TekkoPayins!NoNote)
  BY <1>1, PayinSteppers DEF PayinQuiet, PayinRest
<1> QED  BY <1>z, PayinQuiets

LEMMA PayinQuietStep ==
  ASSUME PayinInv, NEW h \in TekkoPayins!Actor, NEW from,
         NEW to \in PayinSteps \ {"fee"}, NEW n \in PayinNote,
         TekkoPayins!HookStep(h, from, to), kNote' = [kNote EXCEPT ![h] = n],
         PayinKnows(to, n, kOrder, kProduct), kEvent' = kEvent, PayinRest
  PROVE  PayinInv'
<1>0. PayinTypes /\ PayinTold(kEvent, kOrder, kProduct)
  BY PayinFacts
<1>1. /\ kEvent' \in [PayinBody -> {"none", "owed", "processed"}]
      /\ PayinTold(kEvent', kOrder, kProduct)
  BY <1>0 DEF PayinTypes
<1>2. kHook' = [kHook EXCEPT ![h] = to]
  BY PayinSteppers
<1>z. PayinQuiet(h, to, n)
  BY <1>1, <1>2 DEF PayinQuiet, PayinRest
<1> QED  BY <1>z, PayinQuiets

LEMMA PayinSame ==
  ASSUME PayinInv, UNCHANGED <<kProduct, kCredits, kFees, kRequest, kOrder,
                               kMapped, kStatus, kStumbles>>
  PROVE  PayinRest
  BY PayinFacts DEF PayinTypes, PayinRest

\* A callback comes in, or somebody asks.
LEMMA PayinBegin ==
  ASSUME PayinInv,
         \/ \E h \in Handler : TekkoPayins!ClaimWebhook(h)
         \/ \E h \in TekkoPayins!Actor : TekkoPayins!Poll(h)
         \/ TekkoPayins!EnterVaCredit
  PROVE  PayinInv'
<1>r. PayinRest /\ kEvent' = kEvent
  <2>1. UNCHANGED <<kProduct, kCredits, kFees, kRequest, kOrder, kMapped,
                    kStatus, kStumbles, kEvent>>
    BY DEF TekkoPayins!ClaimWebhook, TekkoPayins!Poll, TekkoPayins!EnterVaCredit,
       TekkoPayins!row, TekkoPayins!books
  <2> QED  BY <2>1, PayinSame
<1>1. CASE \E h \in Handler : TekkoPayins!ClaimWebhook(h)
  <2>1. PICK h \in Handler, body \in PayinBody :
          /\ TekkoPayins!HookStep(h, "idle", "look") /\ kEvent[body] = "owed"
          /\ kNote' = [kNote EXCEPT ![h].says = body]
    BY <1>1 DEF TekkoPayins!ClaimWebhook, TekkoPayins!Body, PayinBody
  <2>2. h \in TekkoPayins!Actor
    BY PayinActors
  <2> DEFINE n == [kNote[h] EXCEPT !.says = body]
  <2>3. kNote' = [kNote EXCEPT ![h] = n] /\ n \in PayinNote /\ n.says = body
    <3>1. kNote \in [TekkoPayins!Actor -> PayinNote]
      BY PayinFacts
    <3> QED  BY <2>1, <2>2, <3>1, PayinNotes
  <2> HIDE DEF n
  <2>4. PayinKnows("look", n, kOrder, kProduct)
    <3>1. PayinTold(kEvent, kOrder, kProduct)
      BY PayinFacts
    <3> QED  BY <2>1, <2>3, <3>1 DEF PayinKnows, PayinTold, PayinBody
  <2>5. "look" \in PayinSteps \ {"fee"}
    BY DEF PayinSteps
  <2> QED  BY <2>1, <2>2, <2>3, <2>4, <2>5, <1>r, PayinQuietStep
<1>2. CASE \E h \in TekkoPayins!Actor : TekkoPayins!Poll(h)
  <2>1. PICK h \in TekkoPayins!Actor :
          /\ TekkoPayins!HookStep(h, "idle", "ask")
          /\ kNote' = [kNote EXCEPT ![h].read = "pending"]
    BY <1>2 DEF TekkoPayins!Poll
  <2> DEFINE n == [kNote[h] EXCEPT !.read = "pending"]
  <2>3. kNote' = [kNote EXCEPT ![h] = n] /\ n \in PayinNote
        /\ n.says = kNote[h].says
    <3>1. kNote \in [TekkoPayins!Actor -> PayinNote]
      BY PayinFacts
    <3> QED  BY <2>1, <3>1, PayinNotes
  <2> HIDE DEF n
  <2>4. PayinKnows("ask", n, kOrder, kProduct)
    BY <2>3, PayinSteppers DEF PayinKnows
  <2>5. "ask" \in PayinSteps \ {"fee"}
    BY DEF PayinSteps
  <2> QED  BY <2>1, <2>3, <2>4, <2>5, <1>r, PayinQuietStep
<1>3. CASE TekkoPayins!EnterVaCredit
  <2>1. /\ kOrder = "credited" /\ TekkoPayins!HookStep("staff", "idle", "settle")
        /\ kNote' = kNote
    BY <1>3 DEF TekkoPayins!EnterVaCredit
  <2>2. "staff" \in TekkoPayins!Actor
    BY PayinActors
  <2>3. kNote' = [kNote EXCEPT !["staff"] = kNote["staff"]]
        /\ kNote["staff"] \in PayinNote
    <3>1. kNote \in [TekkoPayins!Actor -> PayinNote]
      BY PayinFacts
    <3> QED  BY <2>1, <2>2, <3>1
  <2>4. PayinKnows("settle", kNote["staff"], kOrder, kProduct)
    BY <2>1, <2>2, PayinSteppers DEF PayinKnows
  <2>5. "settle" \in PayinSteps \ {"fee"}
    BY DEF PayinSteps
  <2> QED  BY <2>1, <2>2, <2>3, <2>4, <2>5, <1>r, PayinQuietStep
<1> QED  BY <1>1, <1>2, <1>3

\* The row is looked up, Tekko is asked; a failure is recorded.
LEMMA PayinReads ==
  ASSUME PayinInv, NEW h \in TekkoPayins!Actor,
         \/ TekkoPayins!LookUp(h) \/ TekkoPayins!LookUpVa(h)
         \/ TekkoPayins!ThrowUnmapped(h) \/ TekkoPayins!ApplyExpired(h)
         \/ TekkoPayins!AskTekko(h) \/ TekkoPayins!Stumble(h)
  PROVE  PayinInv'
<1>f. /\ kNote[h] \in PayinNote /\ PayinTypes
      /\ PayinKnows(kHook[h], kNote[h], kOrder, kProduct)
      /\ kNote \in [TekkoPayins!Actor -> PayinNote] /\ MaxStumbles \in Nat
  BY PayinSteppers, PayinFacts
<1>r. PayinRest
  <2>1. CASE ~TekkoPayins!Stumble(h)
    <3>1. UNCHANGED <<kProduct, kCredits, kFees, kRequest, kOrder, kMapped,
                      kStumbles>>
      BY <2>1 DEF TekkoPayins!LookUp, TekkoPayins!LookUpVa,
         TekkoPayins!ThrowUnmapped, TekkoPayins!ApplyExpired,
         TekkoPayins!AskTekko, TekkoPayins!row, TekkoPayins!books
    <3>2. kStatus' = kStatus \/ (kStatus = "pending" /\ kStatus' = "failed")
      BY <2>1 DEF TekkoPayins!LookUp, TekkoPayins!LookUpVa,
         TekkoPayins!ThrowUnmapped, TekkoPayins!ApplyExpired,
         TekkoPayins!AskTekko, TekkoPayins!row
    <3> QED  BY <3>1, <3>2, <1>f DEF PayinRest, PayinTypes
  <2>2. CASE TekkoPayins!Stumble(h)
    BY <2>2, <1>f DEF TekkoPayins!Stumble, TekkoPayins!row, TekkoPayins!books,
       PayinRest, PayinTypes
  <2> QED  BY <2>1, <2>2
<1>s. {"idle", "look", "ask", "settle", "fail"} \subseteq PayinSteps \ {"fee"}
  BY DEF PayinSteps
<1>n. TekkoPayins!NoNote \in PayinNote
      /\ PayinKnows("idle", TekkoPayins!NoNote, kOrder, kProduct)
  BY PayinNotes DEF PayinKnows
<1>1. CASE TekkoPayins!LookUp(h)
  <2>1. CASE TekkoPayins!Done(h, "look")
    BY <2>1, <1>r, PayinQuietEnd
  <2>2. CASE ~TekkoPayins!Done(h, "look")
    <3> DEFINE to == TekkoPayins!Outcome(kNote[h].says)
               n == [kNote[h] EXCEPT !.read = kStatus]
    <3>1. /\ to # "idle" /\ TekkoPayins!HookStep(h, "look", to)
          /\ kNote' = [kNote EXCEPT ![h].read = kStatus] /\ kEvent' = kEvent
      BY <1>1, <2>2 DEF TekkoPayins!LookUp
    <3>2. \/ to = "settle" /\ kNote[h].says = "credited"
          \/ to = "fail"
      BY <3>1, PayinOutcome
    <3>3. kNote' = [kNote EXCEPT ![h] = n] /\ n \in PayinNote
          /\ n.says = kNote[h].says
      BY <3>1, <1>f, PayinNotes DEF PayinTypes
    <3>4. PayinKnows(to, n, kOrder, kProduct)
      BY <3>2, <3>3, <1>f DEF PayinKnows
    <3>5. to \in PayinSteps \ {"fee"}
      BY <3>2, <1>s
    <3> HIDE DEF n, to
    <3> QED  BY <3>1, <3>3, <3>4, <3>5, <1>r, PayinQuietStep
  <2> QED  BY <2>1, <2>2
<1>2. CASE TekkoPayins!LookUpVa(h)
  <2>1. TekkoPayins!GoOn(h, "look", "settle") /\ kEvent' = kEvent
    BY <1>2 DEF TekkoPayins!LookUpVa
  <2>2. /\ TekkoPayins!HookStep(h, "look", "settle") /\ kHook[h] = "look"
        /\ kNote' = [kNote EXCEPT ![h] = kNote[h]]
    BY <2>1, PayinSteppers DEF TekkoPayins!GoOn
  <2>3. kProduct = "va"
    BY <1>2 DEF TekkoPayins!LookUpVa
  <2>4. PayinKnows("settle", kNote[h], kOrder, kProduct)
    BY <2>2, <2>3, <1>f DEF PayinKnows
  <2> QED  BY <2>1, <2>2, <2>4, <1>s, <1>f, <1>r, PayinQuietStep
<1>3. CASE TekkoPayins!ThrowUnmapped(h) \/ TekkoPayins!Stumble(h)
  <2>1. PICK from : TekkoPayins!HookStep(h, from, "idle")
    BY <1>3 DEF TekkoPayins!ThrowUnmapped, TekkoPayins!Stumble
  <2>2. kNote' = [kNote EXCEPT ![h] = TekkoPayins!NoNote] /\ kEvent' = kEvent
    BY <1>3 DEF TekkoPayins!ThrowUnmapped, TekkoPayins!Stumble
  <2> QED  BY <2>1, <2>2, <1>n, <1>s, <1>r, PayinQuietStep
<1>4. CASE TekkoPayins!ApplyExpired(h)
  BY <1>4, <1>r, PayinQuietEnd DEF TekkoPayins!ApplyExpired
<1>5. CASE TekkoPayins!AskTekko(h)
  <2>1. CASE TekkoPayins!Done(h, "ask")
    BY <2>1, <1>r, PayinQuietEnd
  <2>2. CASE ~TekkoPayins!Done(h, "ask")
    <3> DEFINE to == TekkoPayins!Outcome(kOrder)
    <3>1. /\ to # "idle" /\ TekkoPayins!GoOn(h, "ask", to) /\ kEvent' = kEvent
      BY <1>5, <2>2 DEF TekkoPayins!AskTekko
    <3>2. \/ to = "settle" /\ kOrder = "credited"
          \/ to = "fail"
      BY <3>1, PayinOutcome
    <3>3. /\ TekkoPayins!HookStep(h, "ask", to)
          /\ kNote' = [kNote EXCEPT ![h] = kNote[h]]
      BY <3>1, PayinSteppers DEF TekkoPayins!GoOn
    <3>4. PayinKnows(to, kNote[h], kOrder, kProduct)
      BY <3>2, <1>f DEF PayinKnows
    <3>5. to \in PayinSteps \ {"fee"}
      BY <3>2, <1>s
    <3> HIDE DEF to
    <3> QED  BY <3>1, <3>3, <3>4, <3>5, <1>f, <1>r, PayinQuietStep
  <2> QED  BY <2>1, <2>2
<1> QED  BY <1>1, <1>2, <1>3, <1>4, <1>5

\* The credit is applied by whoever finds the pay-in open, and its fee is left
\* to that handler.
LEMMA PayinCredits ==
  ASSUME PayinInv, NEW h \in TekkoPayins!Actor,
         \/ TekkoPayins!SettlePending(h) \/ TekkoPayins!SettleVa(h)
         \/ TekkoPayins!ChargeFee(h)
  PROVE  PayinInv'
<1>f. /\ PayinTypes /\ PayinBooks /\ PayinStarts /\ PayinOneFee
      /\ PayinTold(kEvent, kOrder, kProduct)
      /\ PayinKnows(kHook[h], kNote[h], kOrder, kProduct)
      /\ kNote[h] \in PayinNote
      /\ kNote \in [TekkoPayins!Actor -> PayinNote]
  BY PayinFacts, PayinSteppers
<1>u. UNCHANGED <<kProduct, kRequest, kOrder, kMapped, kStumbles>>
  BY DEF TekkoPayins!SettlePending, TekkoPayins!SettleVa, TekkoPayins!ChargeFee
<1>s. {"idle", "settle", "fee"} \subseteq PayinSteps
  BY DEF PayinSteps
<1>n. TekkoPayins!NoNote \in PayinNote
      /\ PayinKnows("idle", TekkoPayins!NoNote, kOrder, kProduct)
  BY PayinNotes DEF PayinKnows
<1>1. CASE /\ TekkoPayins!SettlePending(h) \/ TekkoPayins!SettleVa(h)
           /\ kStatus \in {"pending", "none"} /\ TekkoPayins!Credit
           /\ TekkoPayins!GoOn(h, "settle", "fee")
           /\ kEvent' = kEvent /\ kFees' = kFees
  <2>1. /\ kHook[h] = "settle" /\ kHook' = [kHook EXCEPT ![h] = "fee"]
        /\ kNote' = [kNote EXCEPT ![h] = kNote[h]]
        /\ kStatus' = "success" /\ kCredits' = kCredits + 1
    BY <1>1, PayinSteppers DEF TekkoPayins!Credit
  <2>2. kCredits = 0 /\ kFees = 0 /\ kOrder = "credited" /\ kStatus # "success"
    BY <1>1, <2>1, <1>f DEF PayinBooks, PayinKnows, PayinTypes
  <2>3. kCredits' = 1 /\ kFees' = 0
    BY <2>1, <2>2, <1>1
  <2>4. PayinTypes' /\ PayinBooks' /\ PayinStarts'
    BY <2>1, <2>2, <2>3, <1>1, <1>u, <1>f DEF PayinTypes, PayinBooks, PayinStarts
  <2>5. PayinKnows("fee", kNote[h], kOrder, kProduct)
    BY <1>f DEF PayinKnows
  <2>6. PayinTold(kEvent', kOrder, kProduct)
    BY <1>1, <1>f
  <2>7. kFees' = kFees /\ kOrder' = kOrder /\ kRequest' = kRequest
        /\ kProduct' = kProduct
    BY <1>1, <1>u
  <2>z. PayinMoves(h, "fee", kNote[h])
    BY <2>1, <2>2, <2>3, <2>4, <2>5, <2>6, <2>7, <1>f, <1>s DEF PayinMoves
  <2> QED  BY <2>z, PayinOwn
<1>2. CASE /\ TekkoPayins!Done(h, "settle")
           /\ UNCHANGED <<kStatus, kCredits, kFees>>
  <2>1. PayinRest
    BY <1>2, <1>u, PayinSame
  <2> QED  BY <1>2, <2>1, PayinQuietEnd
<1>3. CASE TekkoPayins!ChargeFee(h)
  <2>1. /\ kHook[h] = "fee" /\ kHook' = [kHook EXCEPT ![h] = "idle"]
        /\ kNote' = [kNote EXCEPT ![h] = TekkoPayins!NoNote]
        /\ kEvent' \in [PayinBody -> {"none", "owed", "processed"}]
        /\ PayinTold(kEvent', kOrder, kProduct)
    BY <1>3, PayinSteppers DEF TekkoPayins!ChargeFee
  <2>2. /\ kFees' \in {kFees, kFees + 1} /\ kStatus' = kStatus
        /\ kCredits' = kCredits
    BY <1>3 DEF TekkoPayins!ChargeFee
  <2>3. kStatus = "success" /\ kFees = 0
    BY <2>1, <1>f DEF PayinOneFee
  <2>4. PayinTypes' /\ PayinBooks' /\ PayinStarts'
    BY <2>1, <2>2, <2>3, <1>u, <1>f DEF PayinTypes, PayinBooks, PayinStarts
  <2>5. kOrder' = kOrder /\ kRequest' = kRequest /\ kProduct' = kProduct
    BY <1>u
  <2>z. PayinMoves(h, "idle", TekkoPayins!NoNote)
    BY <2>1, <2>2, <2>4, <2>5, <1>n, <1>s DEF PayinMoves
  <2> QED  BY <2>z, PayinOwn
<1>4. \/ TekkoPayins!ChargeFee(h)
      \/ /\ TekkoPayins!SettlePending(h) \/ TekkoPayins!SettleVa(h)
         /\ kFees' = kFees
         /\ \/ /\ kStatus \in {"pending", "none"} /\ TekkoPayins!Credit
               /\ TekkoPayins!GoOn(h, "settle", "fee") /\ kEvent' = kEvent
            \/ TekkoPayins!Done(h, "settle") /\ UNCHANGED <<kStatus, kCredits>>
  BY DEF TekkoPayins!SettlePending, TekkoPayins!SettleVa
<1> QED  BY <1>1, <1>2, <1>3, <1>4

LEMMA PayinInit == TekkoPayins!Init => PayinInv
<1> SUFFICES ASSUME TekkoPayins!Init PROVE PayinInv
  OBVIOUS
<1>1. kNote \in [TekkoPayins!Actor -> PayinNote]
      /\ \A h \in TekkoPayins!Actor : kNote[h].says = "nothing"
  BY PayinNotes DEF TekkoPayins!Init
<1>2. kEvent \in [PayinBody -> {"none", "owed", "processed"}]
      /\ \A b \in PayinBody : kEvent[b] = "none"
  BY DEF TekkoPayins!Init, TekkoPayins!Body, PayinBody
<1>3. kHook \in [TekkoPayins!Actor -> PayinSteps]
      /\ \A h \in TekkoPayins!Actor : kHook[h] = "idle"
  BY DEF TekkoPayins!Init, PayinSteps
<1>4. PayinTypes
  <2>1. kMapped \in BOOLEAN /\ kStumbles = 0 /\ MaxStumbles \in Nat
    BY RailsAssumption DEF TekkoPayins!Init
  <2>2. kRequest \in {"done", "new"} /\ kOrder \in {"open", "none"}
    BY DEF TekkoPayins!Init
  <2> QED  BY <1>2, <2>1, <2>2 DEF TekkoPayins!Init, PayinTypes
<1>5. TekkoPayins!TypeOK
  BY <1>1, <1>3, <1>4, PayinTyped
<1>6. PayinBooks /\ PayinStarts
  BY DEF TekkoPayins!Init, PayinBooks, PayinStarts
<1>7. PayinOneFee
  BY <1>3 DEF PayinOneFee
<1>8. PayinTold(kEvent, kOrder, kProduct)
  BY <1>2 DEF PayinTold, PayinBody
<1>9. \A h \in TekkoPayins!Actor : PayinKnows(kHook[h], kNote[h], kOrder, kProduct)
  BY <1>1, <1>3 DEF PayinKnows
<1> QED  BY <1>5, <1>6, <1>7, <1>8, <1>9 DEF PayinInv

LEMMA PayinNext == ASSUME PayinInv, TekkoPayins!Next PROVE PayinInv'
<1>1. CASE \E h \in TekkoPayins!Actor : TekkoPayins!Apply(h)
  BY <1>1, PayinReads, PayinCredits DEF TekkoPayins!Apply
<1>2. CASE \E h \in TekkoPayins!Actor : TekkoPayins!Stumble(h)
  BY <1>2, PayinReads
<1> QED  BY <1>1, <1>2, PayinRequest, PayinBegin DEF TekkoPayins!Next

LEMMA PayinMeans == PayinInv => TekkoPayins!CreditedOnce
<1> SUFFICES ASSUME PayinInv PROVE TekkoPayins!CreditedOnce
  OBVIOUS
<1>1. PayinBooks /\ PayinTypes
  BY PayinFacts
<1> QED  BY <1>1 DEF PayinBooks, PayinTypes, TekkoPayins!CreditedOnce

-----------------------------------------------------------------------------
(* A merchant's standing with Tekko *)

VaBvn == {"not_submitted", "pending", "verified", "failed"}
VaSteps == {"idle", "customer", "verify", "poll", "write", "ask", "apply",
            "look", "account", "payout"}
VaNote == [for : {"account", "payout", "submit", "ops", "none"}, read : VaBvn,
           answer : VaBvn]

VaTypes ==
    /\ vLocal \in [there : BOOLEAN, va : BOOLEAN, bvn : VaBvn]
    /\ vLegacyVa \in BOOLEAN /\ vLinked \in BOOLEAN /\ vRemoteVa \in BOOLEAN
    /\ vBlocked \in BOOLEAN /\ vAccepted \in BOOLEAN
    /\ vRemote \in VaBvn
    /\ vSubmits \in 0 .. MaxSubmits /\ vBlocks \in 0 .. MaxBlocks

\* A call that has read "verified" anywhere, or acts on it, does so of a
\* merchant that Tekko accepted.
VaKnows(step, n, known) ==
    /\ n.read = "verified" => known
    /\ n.answer = "verified" => known
    /\ step \in {"payout", "account"} => known
    /\ step = "look" /\ n.for = "submit" => known

\* So do the copy and Tekko's own record; an account is Tekko's, and of such a
\* merchant, before it is in either copy.
VaHolds ==
    /\ vLocal.bvn = "verified" => vAccepted
    /\ vRemote = "verified" => vAccepted
    /\ vLocal.va => vRemoteVa /\ vAccepted
    /\ vLegacyVa => vRemoteVa /\ vAccepted

VaInv ==
    /\ Accounts!TypeOK
    /\ VaHolds
    /\ \A c \in Caller : VaKnows(vCall[c], vNote[c], vAccepted)

LEMMA VaTyped ==
    Accounts!TypeOK <=> /\ VaTypes
                        /\ vCall \in [Caller -> VaSteps]
                        /\ vNote \in [Caller -> VaNote]
<1>1. Accounts!Purpose \cup {"none"} = {"account", "payout", "submit", "ops", "none"}
  BY DEF Accounts!Purpose
<1>2. {vLegacyVa, vLinked, vRemoteVa, vBlocked, vAccepted} \subseteq BOOLEAN
      <=> /\ vLegacyVa \in BOOLEAN /\ vLinked \in BOOLEAN /\ vRemoteVa \in BOOLEAN
          /\ vBlocked \in BOOLEAN /\ vAccepted \in BOOLEAN
  BY Zenon
<1> QED
  BY <1>1, <1>2 DEF Accounts!TypeOK, Accounts!Bvn, VaTypes, VaSteps, VaNote, VaBvn

LEMMA VaFacts ==
  ASSUME VaInv
  PROVE  /\ VaTypes /\ VaHolds
         /\ vCall \in [Caller -> VaSteps] /\ vNote \in [Caller -> VaNote]
         /\ \A c \in Caller : VaKnows(vCall[c], vNote[c], vAccepted)
         /\ MaxSubmits \in Nat /\ MaxBlocks \in Nat
  BY VaTyped, RailsAssumption DEF VaInv

\* One call moves; what Tekko has accepted stays accepted.
VaMoves(c, to, n) ==
    /\ vCall' = [vCall EXCEPT ![c] = to] /\ to \in VaSteps
    /\ vNote' = [vNote EXCEPT ![c] = n] /\ n \in VaNote
    /\ VaKnows(to, n, vAccepted') /\ (vAccepted => vAccepted')
    /\ VaTypes' /\ VaHolds'

LEMMA VaOwn ==
  ASSUME VaInv, NEW c \in Caller, NEW to, NEW n, VaMoves(c, to, n)
  PROVE  VaInv'
<1>f. /\ vCall \in [Caller -> VaSteps] /\ vNote \in [Caller -> VaNote]
      /\ \A d \in Caller : VaKnows(vCall[d], vNote[d], vAccepted)
  BY VaFacts
<1>1. /\ vCall' \in [Caller -> VaSteps] /\ vNote' \in [Caller -> VaNote]
      /\ \A d \in Caller : /\ vCall'[d] = IF d = c THEN to ELSE vCall[d]
                           /\ vNote'[d] = IF d = c THEN n ELSE vNote[d]
  BY <1>f DEF VaMoves
<1>2. Accounts!TypeOK'
  <2>1. VaTypes'
    BY DEF VaMoves
  <2>2. {vLegacyVa, vLinked, vRemoteVa, vBlocked, vAccepted}' \subseteq BOOLEAN
    BY <2>1, Zenon DEF VaTypes
  <2>3. Accounts!Purpose \cup {"none"}
           = {"account", "payout", "submit", "ops", "none"}
    BY DEF Accounts!Purpose
  <2> QED
    BY <1>1, <2>1, <2>2, <2>3 DEF Accounts!TypeOK, Accounts!Bvn, VaTypes,
       VaSteps, VaNote, VaBvn
<1>3. ASSUME NEW d \in Caller PROVE VaKnows(vCall'[d], vNote'[d], vAccepted')
  BY <1>1, <1>f DEF VaMoves, VaKnows
<1> QED  BY <1>2, <1>3 DEF VaInv, VaMoves

LEMMA VaInit == Accounts!Init => VaInv
<1> SUFFICES ASSUME Accounts!Init PROVE VaInv
  OBVIOUS
<1>1. Accounts!NoNote \in VaNote /\ VaKnows("idle", Accounts!NoNote, vAccepted)
  BY DEF Accounts!NoNote, VaNote, VaBvn, VaKnows
<1>2. /\ vCall \in [Caller -> VaSteps] /\ vNote \in [Caller -> VaNote]
      /\ \A c \in Caller : VaKnows(vCall[c], vNote[c], vAccepted)
  BY <1>1 DEF Accounts!Init, VaSteps
<1>3. VaTypes
  <2>1. vLocal \in [there : BOOLEAN, va : BOOLEAN, bvn : VaBvn]
    BY DEF Accounts!Init, VaBvn
  <2>2. vRemote \in VaBvn
    BY DEF Accounts!Init, VaBvn
  <2>3. vSubmits \in 0 .. MaxSubmits /\ vBlocks \in 0 .. MaxBlocks
    BY RailsAssumption DEF Accounts!Init
  <2> QED  BY <2>1, <2>2, <2>3 DEF Accounts!Init, VaTypes
<1>4. VaHolds
  BY DEF Accounts!Init, VaHolds
<1> QED  BY <1>2, <1>3, <1>4, VaTyped DEF VaInv

LEMMA VaNotes ==
    /\ Accounts!NoNote \in VaNote
    /\ Accounts!NoNote.read = "not_submitted"
    /\ Accounts!NoNote.answer = "not_submitted"
    /\ \A n \in VaNote :
          /\ n.read \in VaBvn /\ n.answer \in VaBvn
          /\ \A a \in VaBvn : /\ [n EXCEPT !.answer = a] \in VaNote
                              /\ [n EXCEPT !.answer = a].read = n.read
                              /\ [n EXCEPT !.answer = a].answer = a
    /\ \A n \in VaNote : /\ [n EXCEPT !.for = "submit"] \in VaNote
                         /\ [n EXCEPT !.for = "submit"].read = n.read
                         /\ [n EXCEPT !.for = "submit"].answer = n.answer
    /\ \A p \in {"account", "payout", "ops"}, r \in VaBvn :
          LET n == [Accounts!NoNote EXCEPT !.for = p, !.read = r] IN
          n \in VaNote /\ n.read = r /\ n.answer = "not_submitted"
  BY DEF Accounts!NoNote, VaNote, VaBvn

LEMMA VaAnswers ==
  ASSUME NEW n \in VaNote, NEW a \in VaBvn
  PROVE  /\ [n EXCEPT !.answer = a] \in VaNote
         /\ [n EXCEPT !.answer = a].read = n.read
         /\ [n EXCEPT !.answer = a].answer = a
  BY VaNotes

\* What an upsert leaves.
LEMMA VaWrites ==
  ASSUME VaTypes
  PROVE  /\ \A s \in VaBvn : Accounts!WriteBvn(s) =>
               /\ vLocal' \in [there : BOOLEAN, va : BOOLEAN, bvn : VaBvn]
               /\ vLocal'.bvn = s /\ vLocal'.va = vLocal.va
         /\ Accounts!WriteVa =>
               /\ vLocal' \in [there : BOOLEAN, va : BOOLEAN, bvn : VaBvn]
               /\ vLocal'.bvn = vLocal.bvn /\ vLocal'.va
  BY DEF VaTypes, Accounts!WriteBvn, Accounts!WriteVa

LEMMA VaSteppers ==
  ASSUME VaInv, NEW c \in Caller, NEW from, NEW to
  PROVE  /\ vNote[c] \in VaNote /\ VaKnows(vCall[c], vNote[c], vAccepted)
         /\ Accounts!CallStep(c, from, to) =>
               vCall[c] = from /\ vCall' = [vCall EXCEPT ![c] = to]
         /\ Accounts!GoOn(c, from, to) =>
               /\ vCall[c] = from /\ vCall' = [vCall EXCEPT ![c] = to]
               /\ vNote' = [vNote EXCEPT ![c] = vNote[c]]
         /\ Accounts!Return(c, from) =>
               /\ vCall[c] = from /\ vCall' = [vCall EXCEPT ![c] = "idle"]
               /\ vNote' = [vNote EXCEPT ![c] = Accounts!NoNote]
  BY VaFacts DEF Accounts!GoOn, Accounts!Return, Accounts!CallStep

\* What every step keeps of copy and truth: it writes at most one status that
\* Tekko gave, or an account that Tekko has opened.
VaKept ==
    /\ vLegacyVa' = vLegacyVa /\ vLinked' \in BOOLEAN
    /\ vRemoteVa' \in BOOLEAN /\ (vRemoteVa => vRemoteVa')
    /\ vSubmits' \in 0 .. MaxSubmits /\ vBlocks' \in 0 .. MaxBlocks
    /\ vBlocked' \in BOOLEAN
    /\ vAccepted' \in BOOLEAN /\ (vAccepted => vAccepted')
    /\ vRemote' \in VaBvn /\ (vRemote' = "verified" => vAccepted')
    /\ \/ vLocal' = vLocal
       \/ \E s \in VaBvn : /\ Accounts!WriteBvn(s)
                           /\ s = "verified" => vAccepted'
       \/ Accounts!WriteVa /\ vRemoteVa' /\ vAccepted'

LEMMA VaKeeps ==
  ASSUME VaInv, VaKept
  PROVE  VaTypes' /\ VaHolds'
<1>f. VaTypes /\ VaHolds
  BY VaFacts
<1>1. /\ vLocal' \in [there : BOOLEAN, va : BOOLEAN, bvn : VaBvn]
      /\ vLocal'.bvn = "verified" => vAccepted'
      /\ vLocal'.va => vRemoteVa' /\ vAccepted'
  <2>1. CASE vLocal' = vLocal
    BY <2>1, <1>f DEF VaTypes, VaHolds, VaKept
  <2>2. CASE \E s \in VaBvn : /\ Accounts!WriteBvn(s)
                              /\ s = "verified" => vAccepted'
    BY <2>2, <1>f, VaWrites DEF VaHolds, VaKept
  <2>3. CASE Accounts!WriteVa /\ vRemoteVa' /\ vAccepted'
    BY <2>3, <1>f, VaWrites DEF VaHolds, VaKept
  <2> QED  BY <2>1, <2>2, <2>3 DEF VaKept
<1> QED  BY <1>1, <1>f DEF VaKept, VaTypes, VaHolds

LEMMA VaGoes ==
  ASSUME VaInv, NEW c \in Caller, NEW to \in VaSteps, NEW n \in VaNote,
         vCall' = [vCall EXCEPT ![c] = to], vNote' = [vNote EXCEPT ![c] = n],
         VaKnows(to, n, vAccepted'), VaKept
  PROVE  VaInv'
<1>1. VaTypes' /\ VaHolds' /\ (vAccepted => vAccepted')
  BY VaKeeps DEF VaKept
<1>z. VaMoves(c, to, n)
  BY <1>1 DEF VaMoves
<1> QED  BY <1>z, VaOwn

\* What does not change is kept.
LEMMA VaSame ==
  ASSUME VaInv
  PROVE  /\ vLinked' = vLinked => vLinked' \in BOOLEAN
         /\ vRemoteVa' = vRemoteVa
               => vRemoteVa' \in BOOLEAN /\ (vRemoteVa => vRemoteVa')
         /\ vSubmits' = vSubmits => vSubmits' \in 0 .. MaxSubmits
         /\ vBlocks' = vBlocks => vBlocks' \in 0 .. MaxBlocks
         /\ vBlocked' = vBlocked => vBlocked' \in BOOLEAN
         /\ vAccepted' = vAccepted
               => vAccepted' \in BOOLEAN /\ (vAccepted => vAccepted')
         /\ vRemote' = vRemote /\ (vAccepted => vAccepted')
               => vRemote' \in VaBvn /\ (vRemote' = "verified" => vAccepted')
         /\ vLocal.bvn \in VaBvn /\ (vLocal.bvn = "verified" => vAccepted)
         /\ vRemote \in VaBvn /\ (vRemote = "verified" => vAccepted)
  BY VaFacts DEF VaTypes, VaHolds

\* The merchant submits its BVN, and a customer is made for it.
LEMMA VaSubmits ==
  ASSUME VaInv, NEW c \in Caller,
         Accounts!Submit(c) \/ Accounts!EnsureCustomer(c)
  PROVE  VaInv'
<1>f. /\ VaTypes /\ VaHolds /\ vNote \in [Caller -> VaNote] /\ vNote[c] \in VaNote
      /\ VaKnows(vCall[c], vNote[c], vAccepted) /\ MaxSubmits \in Nat
  BY VaFacts
<1>s. {"idle", "customer", "verify"} \subseteq VaSteps
  BY DEF VaSteps
<1>b. {"pending", "failed", "not_submitted"} \subseteq VaBvn
  BY DEF VaBvn
<1>1. CASE Accounts!Submit(c)
  <2>1. /\ UNCHANGED <<vLegacyVa, vLinked, vRemote, vRemoteVa, vBlocks, vAccepted>>
        /\ vSubmits < MaxSubmits /\ vSubmits' = vSubmits + 1
        /\ Accounts!WriteBvn("pending") /\ vBlocked' = FALSE
        /\ Accounts!CallStep(c, "idle", "customer")
        /\ vNote' = [vNote EXCEPT ![c].for = "submit"]
    BY <1>1 DEF Accounts!Submit, Accounts!truth
  <2> DEFINE n == [vNote[c] EXCEPT !.for = "submit"]
  <2>2. vNote' = [vNote EXCEPT ![c] = n] /\ n \in VaNote
        /\ n.read = vNote[c].read /\ n.answer = vNote[c].answer
    BY <2>1, <1>f, VaNotes
  <2> HIDE DEF n
  <2>3. VaKnows("customer", n, vAccepted')
    BY <2>1, <2>2, <1>f DEF VaKnows
  <2>4. vSubmits' \in 0 .. MaxSubmits
    BY <2>1, <1>f DEF VaTypes
  <2>5. VaKept
    BY <2>1, <2>4, <1>b, VaSame DEF VaKept
  <2>6. vCall' = [vCall EXCEPT ![c] = "customer"]
    BY <2>1, VaSteppers, ZenonT(30)
  <2> QED  BY <2>2, <2>3, <2>5, <2>6, <1>s, VaGoes
<1>2. CASE Accounts!EnsureCustomer(c)
  <2>1. /\ UNCHANGED <<vLocal, vLegacyVa, vRemote, vRemoteVa, vSubmits, vBlocks,
                       vBlocked, vAccepted>>
        /\ vLinked' \in BOOLEAN
    <3>1. vLinked' = TRUE \/ vLinked' = vLinked
      BY <1>2 DEF Accounts!EnsureCustomer
    <3> QED  BY <3>1, <1>2, <1>f DEF Accounts!EnsureCustomer, Accounts!truth, VaTypes
  <2>2. VaKept
    BY <2>1, VaSame DEF VaKept
  <2>3. CASE Accounts!GoOn(c, "customer", "verify")
    <3>1. VaKnows("verify", vNote[c], vAccepted')
      BY <2>1, <1>f DEF VaKnows
    <3> QED  BY <2>3, <2>2, <3>1, <1>s, <1>f, VaSteppers, VaGoes
  <2>4. CASE Accounts!Return(c, "customer")
    <3>1. VaKnows("idle", Accounts!NoNote, vAccepted')
      BY VaNotes DEF VaKnows
    <3> QED  BY <2>4, <2>2, <3>1, <1>s, VaNotes, VaSteppers, VaGoes
  <2> QED  BY <1>2, <2>3, <2>4 DEF Accounts!EnsureCustomer
<1> QED  BY <1>1, <1>2

LEMMA VaIdles ==
  ASSUME VaInv, NEW c \in Caller, NEW from, Accounts!Return(c, from), VaKept
  PROVE  VaInv'
<1>1. /\ VaKnows("idle", Accounts!NoNote, vAccepted') /\ "idle" \in VaSteps
      /\ Accounts!NoNote \in VaNote
  BY VaNotes DEF VaKnows, VaSteps
<1> QED  BY <1>1, VaSteppers, VaGoes

\* Tekko verifies, is polled, decides; what it said is recorded.
LEMMA VaVerifies ==
  ASSUME VaInv, NEW c \in Caller,
         \/ Accounts!VerifyAnswered(c) \/ Accounts!PollBvn(c)
         \/ Accounts!RecordBvn(c)
  PROVE  VaInv'
<1>f. /\ VaTypes /\ VaHolds /\ vNote \in [Caller -> VaNote] /\ vNote[c] \in VaNote
      /\ VaKnows(vCall[c], vNote[c], vAccepted)
      /\ vNote[c].read \in VaBvn /\ vNote[c].answer \in VaBvn
  BY VaFacts, VaNotes
<1>s. {"verify", "poll", "write", "look"} \subseteq VaSteps
  BY DEF VaSteps
<1>b. {"pending", "failed", "verified", "not_submitted"} \subseteq VaBvn
  BY DEF VaBvn
<1>1. CASE Accounts!VerifyAnswered(c)
  <2>1. /\ UNCHANGED <<vLegacyVa, vLinked, vRemoteVa, vSubmits, vBlocks, vBlocked>>
        /\ vAccepted' = (vAccepted \/ vRemote' = "verified")
    BY <1>1 DEF Accounts!VerifyAnswered
  <2>2. /\ vAccepted' \in BOOLEAN /\ (vAccepted => vAccepted')
        /\ vRemote' = "verified" => vAccepted'
    BY <2>1, <1>f DEF VaTypes
  <2>3. \/ /\ vRemote' \in {"pending", "verified", "failed"} /\ vLocal' = vLocal
           /\ Accounts!CallStep(c, "verify",
                 IF vRemote' = "pending" THEN "poll" ELSE "write")
           /\ vNote' = [vNote EXCEPT ![c].answer = vRemote']
        \/ /\ Accounts!Return(c, "verify") /\ vRemote' = vRemote
           /\ Accounts!WriteBvn("failed") \/ vLocal' = vLocal
    BY <1>1 DEF Accounts!VerifyAnswered
  <2>4. CASE /\ Accounts!Return(c, "verify") /\ vRemote' = vRemote
             /\ Accounts!WriteBvn("failed") \/ vLocal' = vLocal
    <3>1. VaKept
      BY <2>1, <2>2, <2>4, <1>b, VaSame DEF VaKept
    <3> QED  BY <3>1, <2>4, VaIdles
  <2>5. CASE /\ vRemote' \in {"pending", "verified", "failed"} /\ vLocal' = vLocal
             /\ Accounts!CallStep(c, "verify",
                   IF vRemote' = "pending" THEN "poll" ELSE "write")
             /\ vNote' = [vNote EXCEPT ![c].answer = vRemote']
    <3>1. VaKept
      BY <2>1, <2>2, <2>5, <1>b, VaSame DEF VaKept
    <3>2. PICK to \in {"poll", "write"} : vCall' = [vCall EXCEPT ![c] = to]
      BY <2>5, VaSteppers, ZenonT(30)
    <3>3. PICK a \in VaBvn : a = vRemote'
      BY <2>5, <1>b
    <3> DEFINE n == [vNote[c] EXCEPT !.answer = a]
    <3>4. vNote' = [vNote EXCEPT ![c] = n] /\ n \in VaNote
          /\ n.read = vNote[c].read /\ n.answer = a
      <4>1. vNote' = [vNote EXCEPT ![c].answer = a]
        BY <2>5, <3>3
      <4>2. vNote' = [vNote EXCEPT ![c] = n]
        BY <4>1, <1>f
      <4>3. a \in VaBvn
        BY <3>3
      <4>4. /\ n \in VaNote /\ n.read = vNote[c].read /\ n.answer = a
        BY <4>3, <1>f, VaAnswers
      <4> QED  BY <4>2, <4>4
    <3> HIDE DEF n
    <3>5. VaKnows(to, n, vAccepted')
      BY <2>2, <3>3, <3>4, <1>f DEF VaKnows
    <3> QED  BY <3>1, <3>2, <3>4, <3>5, <1>s, VaGoes
  <2> QED  BY <2>3, <2>4, <2>5
<1>2. CASE Accounts!PollBvn(c)
  <2>1. /\ UNCHANGED <<vLocal, vLegacyVa, vLinked, vRemote, vRemoteVa, vSubmits,
                       vBlocks, vBlocked, vAccepted>>
        /\ \/ /\ Accounts!CallStep(c, "poll", "write")
              /\ \E a \in {vRemote} \cup Accounts!Misheard :
                    vNote' = [vNote EXCEPT ![c].answer = a]
           \/ Accounts!Return(c, "poll")
    BY <1>2 DEF Accounts!PollBvn, Accounts!copy, Accounts!truth
  <2>2. VaKept
    BY <2>1, VaSame DEF VaKept
  <2>3. CASE Accounts!Return(c, "poll")
    BY <2>2, <2>3, VaIdles
  <2>4. CASE /\ Accounts!CallStep(c, "poll", "write")
             /\ \E a \in {vRemote} \cup Accounts!Misheard :
                   vNote' = [vNote EXCEPT ![c].answer = a]
    <3>1. PICK a \in {vRemote} \cup Accounts!Misheard :
             vNote' = [vNote EXCEPT ![c].answer = a]
      BY <2>4
    <3>2. a \in VaBvn /\ (a = "verified" => vAccepted)
      BY <1>f, <1>b DEF VaTypes, VaHolds, Accounts!Misheard
    <3> DEFINE n == [vNote[c] EXCEPT !.answer = a]
    <3>3. vNote' = [vNote EXCEPT ![c] = n] /\ n \in VaNote
          /\ n.read = vNote[c].read /\ n.answer = a
      BY <3>1, <3>2, <1>f, VaAnswers
    <3> HIDE DEF n
    <3>4. VaKnows("write", n, vAccepted')
      BY <2>1, <3>2, <3>3, <1>f DEF VaKnows
    <3>5. vCall' = [vCall EXCEPT ![c] = "write"]
      BY <2>4, VaSteppers, ZenonT(30)
    <3> QED  BY <2>2, <3>3, <3>4, <3>5, <1>s, VaGoes
  <2> QED  BY <2>1, <2>3, <2>4
<1>3. CASE Accounts!RecordBvn(c)
  <2>1. /\ UNCHANGED <<vLegacyVa, vLinked, vRemote, vRemoteVa, vSubmits, vBlocks,
                       vBlocked, vAccepted>>
        /\ Accounts!WriteBvn(vNote[c].answer)
    BY <1>3 DEF Accounts!RecordBvn, Accounts!truth
  <2>2. VaKept
    BY <2>1, <1>f, VaSame DEF VaKept, VaKnows
  <2>3. CASE vNote[c].answer = "verified" /\ Accounts!GoOn(c, "write", "look")
    <3>1. VaKnows("look", vNote[c], vAccepted')
      BY <2>1, <2>3, <1>f DEF VaKnows
    <3>2. /\ vCall' = [vCall EXCEPT ![c] = "look"]
          /\ vNote' = [vNote EXCEPT ![c] = vNote[c]]
      BY <2>3, VaSteppers
    <3> QED  BY <2>2, <3>1, <3>2, <1>s, <1>f, VaGoes
  <2>4. CASE Accounts!Return(c, "write")
    BY <2>2, <2>4, VaIdles
  <2> QED  BY <1>3, <2>3, <2>4 DEF Accounts!RecordBvn
<1> QED  BY <1>1, <1>2, <1>3

\* The copy is read, Tekko asked, and the copy brought up to date.
LEMMA VaSyncs ==
  ASSUME VaInv, NEW c \in Caller,
         \/ Accounts!ReadLocal(c) \/ Accounts!AskRemote(c)
         \/ Accounts!ApplySync(c)
  PROVE  VaInv'
<1>f. /\ VaTypes /\ VaHolds /\ vNote \in [Caller -> VaNote] /\ vNote[c] \in VaNote
      /\ VaKnows(vCall[c], vNote[c], vAccepted)
      /\ vNote[c].read \in VaBvn /\ vNote[c].answer \in VaBvn
      /\ vLocal.bvn \in VaBvn
  BY VaFacts, VaNotes, VaSame
<1>s. {"idle", "ask", "apply", "look", "payout"} \subseteq VaSteps
  BY DEF VaSteps
<1>1. CASE Accounts!ReadLocal(c)
  <2>1. /\ UNCHANGED <<vLocal, vLegacyVa, vLinked, vRemote, vRemoteVa, vSubmits,
                       vBlocks, vBlocked, vAccepted>>
        /\ Accounts!CallStep(c, "idle", "ask")
    BY <1>1 DEF Accounts!ReadLocal, Accounts!copy, Accounts!truth
  <2>2. VaKept
    BY <2>1, VaSame DEF VaKept
  <2>3. PICK p \in {"account", "payout", "ops"} :
           vNote' = [vNote EXCEPT ![c] = [Accounts!NoNote EXCEPT
                                             !.for = p, !.read = vLocal.bvn]]
    BY <1>1 DEF Accounts!ReadLocal
  <2> DEFINE n == [Accounts!NoNote EXCEPT !.for = p, !.read = vLocal.bvn]
  <2>4. n \in VaNote /\ n.read = vLocal.bvn /\ n.answer = "not_submitted"
    BY <1>f, VaNotes
  <2> HIDE DEF n
  <2>5. VaKnows("ask", n, vAccepted')
    BY <2>1, <2>4, <1>f DEF VaKnows, VaHolds
  <2>6. vCall' = [vCall EXCEPT ![c] = "ask"] /\ vNote' = [vNote EXCEPT ![c] = n]
    BY <2>1, <2>3, VaSteppers, ZenonT(30) DEF n
  <2> QED  BY <2>2, <2>4, <2>5, <2>6, <1>s, VaGoes
<1>2. CASE Accounts!AskRemote(c)
  <2>1. /\ UNCHANGED <<vLocal, vLegacyVa, vLinked, vRemote, vRemoteVa, vSubmits,
                       vBlocks, vBlocked, vAccepted>>
        /\ Accounts!CallStep(c, "ask", "apply")
    BY <1>2 DEF Accounts!AskRemote, Accounts!copy, Accounts!truth
  <2>2. VaKept
    BY <2>1, VaSame DEF VaKept
  <2>3. PICK a \in {vRemote, vNote[c].read} \cup Accounts!Misheard :
           vNote' = [vNote EXCEPT ![c].answer = a]
    <3>1. CASE vNote' = [vNote EXCEPT ![c].answer = vNote[c].read]
      BY <3>1
    <3>2. ASSUME NEW a \in {vRemote} \cup Accounts!Misheard,
                 vNote' = [vNote EXCEPT ![c].answer = a]
          PROVE  \E b \in {vRemote, vNote[c].read} \cup Accounts!Misheard :
                    vNote' = [vNote EXCEPT ![c].answer = b]
      BY <3>2
    <3>3. \/ vNote' = [vNote EXCEPT ![c].answer = vNote[c].read]
          \/ \E a \in {vRemote} \cup Accounts!Misheard :
                vNote' = [vNote EXCEPT ![c].answer = a]
      BY <1>2 DEF Accounts!AskRemote
    <3> QED  BY <3>1, <3>2, <3>3, Zenon
  <2>4. a \in VaBvn /\ (a = "verified" => vAccepted)
    BY <2>3, <1>f DEF VaTypes, VaHolds, VaKnows, VaBvn, Accounts!Misheard
  <2> DEFINE n == [vNote[c] EXCEPT !.answer = a]
  <2>5. vNote' = [vNote EXCEPT ![c] = n] /\ n \in VaNote
        /\ n.read = vNote[c].read /\ n.answer = a
    <3>1. n \in VaNote /\ n.read = vNote[c].read /\ n.answer = a
      BY <2>4, <1>f, VaAnswers
    <3> QED  BY <2>3, <3>1, <1>f
  <2> HIDE DEF n
  <2>6. VaKnows("apply", n, vAccepted')
    BY <2>1, <2>4, <2>5, <1>f DEF VaKnows
  <2>7. vCall' = [vCall EXCEPT ![c] = "apply"]
    BY <2>1, VaSteppers
  <2> QED  BY <2>2, <2>5, <2>6, <2>7, <1>s, VaGoes
<1>3. CASE Accounts!ApplySync(c)
  <2>1. /\ UNCHANGED <<vLegacyVa, vLinked, vRemote, vRemoteVa, vSubmits, vBlocks,
                       vAccepted>>
        /\ vBlocked' = (vBlocked /\ ~(vNote[c].for = "ops"))
        /\ vLocal' = vLocal \/ Accounts!WriteBvn(vNote[c].answer)
    BY <1>3 DEF Accounts!ApplySync, Accounts!truth
  <2>2. vBlocked' \in BOOLEAN
    BY <2>1
  <2>3. VaKept
    BY <2>1, <2>2, <1>f, VaSame DEF VaKept, VaKnows
  <2>4. CASE Accounts!Return(c, "apply")
    BY <2>3, <2>4, VaIdles
  <2>5. CASE /\ Accounts!AfterSync(vNote[c]) # "idle"
             /\ Accounts!GoOn(c, "apply", Accounts!AfterSync(vNote[c]))
    <3> DEFINE to == Accounts!AfterSync(vNote[c])
    <3>1. \/ to = "look" /\ vNote[c].for = "account"
          \/ to = "payout" /\ Accounts!Believed(vNote[c]) = "verified"
      <4>1. \/ to = "look" /\ vNote[c].for = "account"
            \/ to = "payout" /\ Accounts!Believed(vNote[c]) = "verified"
            \/ to = "idle"
        BY Zenon DEF Accounts!AfterSync
      <4> QED  BY <4>1, <2>5
    <3>2. to = "payout" => vAccepted
      BY <3>1, <1>f DEF Accounts!Believed, VaKnows
    <3> HIDE DEF to
    <3>3. VaKnows(to, vNote[c], vAccepted') /\ to \in VaSteps
      BY <3>1, <3>2, <2>1, <1>f, <1>s DEF VaKnows
    <3> USE DEF to
    <3>4. /\ vCall' = [vCall EXCEPT ![c] = to]
          /\ vNote' = [vNote EXCEPT ![c] = vNote[c]]
      BY <2>5, VaSteppers
    <3> HIDE DEF to
    <3> QED  BY <2>3, <3>3, <3>4, <1>f, VaGoes
  <2> QED  BY <1>3, <2>4, <2>5 DEF Accounts!ApplySync
<1> QED  BY <1>1, <1>2, <1>3

\* What a verified merchant does.
LEMMA VaActs ==
  ASSUME VaInv, NEW c \in Caller,
         \/ Accounts!LookAtCopy(c) \/ Accounts!ProvisionVa(c)
         \/ Accounts!SendPayout(c)
  PROVE  VaInv'
<1>f. /\ VaTypes /\ VaHolds /\ MaxBlocks \in Nat /\ vNote[c] \in VaNote
      /\ VaKnows(vCall[c], vNote[c], vAccepted)
  BY VaFacts
<1>1. CASE Accounts!LookAtCopy(c)
  <2>1. /\ UNCHANGED <<vLocal, vLegacyVa, vLinked, vRemote, vRemoteVa, vSubmits,
                       vBlocks, vBlocked, vAccepted>>
        /\ \/ /\ \/ vNote[c].for = "submit"
                 \/ Accounts!Believed(vNote[c]) = "verified"
              /\ Accounts!GoOn(c, "look", "account")
           \/ Accounts!Return(c, "look")
    BY <1>1 DEF Accounts!LookAtCopy, Accounts!copy, Accounts!truth
  <2>2. VaKept
    BY <2>1, VaSame DEF VaKept
  <2>3. CASE Accounts!Return(c, "look")
    BY <2>2, <2>3, VaIdles
  <2>4. CASE /\ \/ vNote[c].for = "submit"
                \/ Accounts!Believed(vNote[c]) = "verified"
             /\ Accounts!GoOn(c, "look", "account")
    <3>1. /\ vCall[c] = "look" /\ vCall' = [vCall EXCEPT ![c] = "account"]
          /\ vNote' = [vNote EXCEPT ![c] = vNote[c]]
      BY <2>4, VaSteppers
    <3>2. vAccepted
      BY <3>1, <2>4, <1>f DEF VaKnows, Accounts!Believed
    <3>3. VaKnows("account", vNote[c], vAccepted') /\ "account" \in VaSteps
      BY <3>2, <2>1, <1>f DEF VaKnows, VaSteps
    <3> QED  BY <2>2, <3>1, <3>3, <1>f, VaGoes
  <2> QED  BY <2>1, <2>3, <2>4
<1>2. CASE Accounts!ProvisionVa(c)
  <2>1. /\ Accounts!Return(c, "account") /\ vCall[c] = "account"
        /\ UNCHANGED <<vLegacyVa, vRemote, vSubmits, vBlocks, vBlocked, vAccepted>>
    BY <1>2 DEF Accounts!ProvisionVa, Accounts!Return, Accounts!CallStep
  <2>2. \/ vLinked' = TRUE /\ vRemoteVa' = TRUE /\ Accounts!WriteVa
        \/ /\ vLinked' = TRUE /\ vRemoteVa' \in {vRemoteVa, TRUE}
           /\ UNCHANGED vLocal
        \/ UNCHANGED <<vLocal, vLinked, vRemoteVa>>
    BY <1>2 DEF Accounts!ProvisionVa
  <2>3. /\ vLinked' \in BOOLEAN /\ vRemoteVa' \in BOOLEAN
        /\ vRemoteVa => vRemoteVa'
    BY <2>2, <1>f DEF VaTypes
  <2>4. vAccepted'
    BY <2>1, <1>f DEF VaKnows
  <2>5. VaKept
    BY <2>1, <2>2, <2>3, <2>4, VaSame DEF VaKept
  <2> QED  BY <2>1, <2>5, VaIdles
<1>3. CASE Accounts!SendPayout(c)
  <2>1. /\ Accounts!Return(c, "payout")
        /\ UNCHANGED <<vLegacyVa, vLinked, vRemote, vRemoteVa, vSubmits, vAccepted>>
    BY <1>3 DEF Accounts!SendPayout, Accounts!truth
  <2>2. \/ UNCHANGED <<vLocal, vBlocks, vBlocked>>
        \/ /\ Accounts!WriteBvn("failed") /\ vBlocked' = TRUE
           /\ vBlocks' \in 0 .. MaxBlocks
    BY <1>3, <1>f DEF Accounts!SendPayout, VaTypes
  <2>3. vBlocked' \in BOOLEAN /\ vBlocks' \in 0 .. MaxBlocks /\ "failed" \in VaBvn
    BY <2>2, <1>f DEF VaTypes, VaBvn
  <2>4. VaKept
    BY <2>1, <2>2, <2>3, VaSame DEF VaKept
  <2> QED  BY <2>1, <2>4, VaIdles
<1> QED  BY <1>1, <1>2, <1>3

\* Tekko decides by itself.
LEMMA VaDecides ==
  ASSUME VaInv, Accounts!TekkoDecides
  PROVE  VaInv'
<1>f. /\ VaTypes /\ VaHolds
      /\ vCall \in [Caller -> VaSteps] /\ vNote \in [Caller -> VaNote]
      /\ \A c \in Caller : VaKnows(vCall[c], vNote[c], vAccepted)
  BY VaFacts
<1>1. /\ UNCHANGED <<vLocal, vLegacyVa, vLinked, vRemoteVa, vCall, vNote, vSubmits,
                     vBlocks, vBlocked>>
      /\ vRemote' \in {"verified", "failed"}
      /\ vAccepted' = (vAccepted \/ vRemote' = "verified")
  BY DEF Accounts!TekkoDecides, Accounts!copy, Accounts!calls
<1>2. /\ vAccepted' \in BOOLEAN /\ (vAccepted => vAccepted')
      /\ vRemote' = "verified" => vAccepted'
  BY <1>1, <1>f DEF VaTypes
<1>3. vRemote' \in VaBvn
  BY <1>1 DEF VaBvn
<1>4. VaKept
  BY <1>1, <1>2, <1>3, VaSame DEF VaKept
<1>5. VaTypes' /\ VaHolds'
  BY <1>4, VaKeeps
<1>6. \A c \in Caller : VaKnows(vCall'[c], vNote'[c], vAccepted')
  BY <1>1, <1>2, <1>f DEF VaKnows
<1>7. Accounts!TypeOK'
  <2>1. {vLegacyVa, vLinked, vRemoteVa, vBlocked, vAccepted}' \subseteq BOOLEAN
    BY <1>5, Zenon DEF VaTypes
  <2>2. Accounts!Purpose \cup {"none"}
           = {"account", "payout", "submit", "ops", "none"}
    BY DEF Accounts!Purpose
  <2> QED
    BY <1>1, <1>5, <1>f, <2>1, <2>2 DEF Accounts!TypeOK, Accounts!Bvn, VaTypes,
       VaSteps, VaNote, VaBvn
<1> QED  BY <1>5, <1>6, <1>7 DEF VaInv

LEMMA VaNext == ASSUME VaInv, Accounts!Next PROVE VaInv'
  BY VaDecides, VaSubmits, VaVerifies, VaSyncs, VaActs
     DEF Accounts!Next, Accounts!Work

LEMMA VaMeans == VaInv => Accounts!VerifiedByTekko /\ Accounts!AccountIsReal
  BY DEF VaInv, VaKnows, VaHolds, Accounts!VerifiedByTekko,
     Accounts!AccountIsReal, Accounts!LocalVa

-----------------------------------------------------------------------------
(* All rails *)

AllInv ==
    /\ IInv
    /\ world = "tylt" => TyltInv
    /\ world = "cpg" => CpgInv
    /\ world = "eur" => EurInv
    /\ world = "tekko" => PayinInv
    /\ world = "va" => VaInv

LEMMA AllInitInv == AllInit => AllInv
<1> SUFFICES ASSUME AllInit PROVE AllInv
  OBVIOUS
<1>1. IInv
  BY InitIInv DEF AllInit
<1>2. /\ world = "tylt" => TyltInv
      /\ world = "cpg" => CpgInv
      /\ world = "eur" => EurInv
      /\ world = "tekko" => PayinInv
      /\ world = "va" => VaInv
  BY TyltInit, CpgInit, EurInit, PayinInit, VaInit DEF AllInit
<1> QED  BY <1>1, <1>2 DEF AllInv

\* A rail that stays where it is keeps its invariant.
LEMMA RailsStay ==
    /\ IInv /\ UNCHANGED vars => IInv'
    /\ TyltInv /\ UNCHANGED TyltPayinsVars => TyltInv'
    /\ CpgInv /\ UNCHANGED CpgPayoutsVars => CpgInv'
    /\ EurInv /\ UNCHANGED EurPayoutsVars => EurInv'
    /\ PayinInv /\ UNCHANGED TekkoPayinsVars => PayinInv'
    /\ VaInv /\ UNCHANGED AccountsVars => VaInv'
<1>1. IInv /\ UNCHANGED vars => IInv'
  BY NextIInv
<1>2. TyltInv /\ UNCHANGED TyltPayinsVars => TyltInv'
  BY DEF TyltPayinsVars, TyltInv, TyltPayins!TypeOK, TyltBooks
<1>3. CpgInv /\ UNCHANGED CpgPayoutsVars => CpgInv'
  BY DEF CpgPayoutsVars, CpgInv, CpgPayouts!TypeOK, CpgFollows
<1>4. EurInv /\ UNCHANGED EurPayoutsVars => EurInv'
  BY DEF EurPayoutsVars, EurInv, EurPayouts!TypeOK, EurStarts, EurInOrder
<1>5. PayinInv /\ UNCHANGED TekkoPayinsVars => PayinInv'
  BY DEF TekkoPayinsVars, PayinInv, TekkoPayins!TypeOK, PayinBooks,
     PayinStarts, PayinOneFee
<1>6. VaInv /\ UNCHANGED AccountsVars => VaInv'
  BY DEF AccountsVars, VaInv, Accounts!TypeOK, VaHolds
<1> QED  BY <1>1, <1>2, <1>3, <1>4, <1>5, <1>6

\* Every step keeps the invariant of its rail.
LEMMA AllNextInv == AllInv /\ [AllNext]_allVars => AllInv'
<1> SUFFICES ASSUME AllInv, [AllNext]_allVars PROVE AllInv'
  OBVIOUS
<1>1. CASE AllNext
  <2>1. world' = world
    BY <1>1 DEF AllNext
  <2>2. CASE world = "payout" /\ Next
    BY <2>1, <2>2, NextIInv DEF AllInv
  <2>3. CASE world = "tylt" /\ TyltPayins!Next /\ UNCHANGED vars
    BY <2>1, <2>3, TyltNext, RailsStay DEF AllInv
  <2>4. CASE world = "cpg" /\ CpgPayouts!Next /\ UNCHANGED vars
    BY <2>1, <2>4, CpgNext, RailsStay DEF AllInv
  <2>5. CASE world = "eur" /\ EurPayouts!Next /\ UNCHANGED vars
    BY <2>1, <2>5, EurNext, RailsStay DEF AllInv
  <2>6. CASE world = "tekko" /\ TekkoPayins!Next /\ UNCHANGED vars
    BY <2>1, <2>6, PayinNext, RailsStay DEF AllInv
  <2>7. CASE world = "va" /\ Accounts!Next /\ UNCHANGED vars
    BY <2>1, <2>7, VaNext, RailsStay DEF AllInv
  <2> QED  BY <1>1, <2>2, <2>3, <2>4, <2>5, <2>6, <2>7 DEF AllNext
<1>2. CASE UNCHANGED allVars
  BY <1>2, RailsStay DEF AllInv, allVars
<1> QED  BY <1>1, <1>2

\* The code of each rail keeps, in every interleaving, what its steps rely on.
THEOREM RailsInvariant == AllSpec => []AllInv
  BY AllInitInv, AllNextInv, PTL DEF AllSpec

\* Every variable of every rail has its type, for any constants.
THEOREM RailsTypes == AllSpec => []TypesOK
<1>1. AllInv => TypesOK
  BY DEF AllInv, IInv, TyltInv, CpgInv, EurInv, PayinInv, VaInv, TypesOK
<1> QED  BY <1>1, RailsInvariant, PTL

\* cpg-payout.ts, eur-payout.ts, ngn-payout.ts: for any amounts and any number of
\* callbacks, deliveries and calls, a payout is settled as the provider reported
\* the withdrawal that its row names, and a failed one returns, once, the amount
\* that the row held when the callback found it.
THEOREM PayoutsAlwaysFollowReports == AllSpec => []PayoutsFollowReports
<1>1. AllInv => PayoutsFollowReports
  <2>1. IInv => SettledAsReported
    BY DEF IInv, Followed, SettledAsReported
  <2> QED  BY <2>1, CpgMeans, EurMeans DEF AllInv, PayoutsFollowReports
<1> QED  BY <1>1, RailsInvariant, PTL

\* docs/MONEY_INVARIANTS.md: for any number of handlers, callbacks credit the
\* wallet exactly once, and only what was paid, however they, their repeats,
\* status calls and reconciles overlap.  A UPI pay-in that was credited in
\* another currency before the migration is the exception (upi_manual_twice).
THEOREM CreditedOnceAlways ==
    ASSUME ~Legacy PROVE AllSpec => []CreditedOnce
<1>1. AllInv => CreditedOnce
  BY TyltMeans, PayinMeans DEF AllInv, CreditedOnce
<1> QED  BY <1>1, RailsInvariant, PTL

\* ngn-va.ts: for any number of calls, submissions and refusals, a payout is only
\* tried for a merchant that Tekko has accepted, and the account that is shown
\* is one that Tekko has opened.
THEOREM VerifiedByTekkoAlways == AllSpec => []VerifiedByTekko
<1>1. AllInv => VerifiedByTekko
  BY VaMeans DEF AllInv, VerifiedByTekko
<1> QED  BY <1>1, RailsInvariant, PTL

\* ngn-payout.ts: in the composition too, the entries of a payout match its status.
THEOREM EntriesFollowStatus == AllSpec => []EntriesMatchStatus
<1>1. AllInv => EntriesMatchStatus
  BY DEF AllInv, IInv
<1> QED  BY <1>1, RailsInvariant, PTL
=============================================================================
