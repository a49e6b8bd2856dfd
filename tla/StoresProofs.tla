---------------------------- MODULE StoresProofs ----------------------------
(***************************************************************************)
(* Theorems about the two stores the ingress rests on: the retention       *)
(* budget, for every number of reservations, sessions, charges and limits, *)
(* and the outcome store, for any number of keys and callers and any       *)
(* capacity of the hot cache and of the quarantine.                        *)
(***************************************************************************)
EXTENDS Retention, OutcomeStore, FiniteSetTheorems, TLAPS

-----------------------------------------------------------------------------
(***************************************************************************)
(* PART 1.  The retention budget (Retention).                              *)
(***************************************************************************)

-----------------------------------------------------------------------------
(***************************************************************************)
(* Finite sets: what one reservation entering or leaving does to a count.  *)
(***************************************************************************)
\* Any set of reservations is finite and its cardinality a natural number.
LEMMA FiniteReservations ==
    ASSUME NEW R, R \subseteq Reservation
    PROVE  IsFiniteSet(R) /\ Cardinality(R) \in Nat
  BY ReservationAssumption, FS_Subset, FS_CardinalityType

\* A new reservation counts one more.
LEMMA CountAdd ==
    ASSUME NEW R, R \subseteq Reservation, NEW r, r \notin R
    PROVE  Cardinality(R \union {r}) = Cardinality(R) + 1
  BY FiniteReservations, FS_AddElement

\* A reservation that leaves counts one less.
LEMMA CountRemove ==
    ASSUME NEW R, R \subseteq Reservation, NEW r, r \in R
    PROVE  Cardinality(R \ {r}) = Cardinality(R) - 1
  BY FiniteReservations, FS_RemoveElement

-----------------------------------------------------------------------------
\* Type correctness of the budget.
THEOREM BudgetTypeCorrect == BudgetSpec => []BudgetTypeOK
<1>1. BudgetInit => BudgetTypeOK
  BY DEF BudgetInit, BudgetTypeOK, Usage, zeroUsage, zeroBreakdown, Owner
<1>2. BudgetTypeOK /\ [BudgetNext]_budgetVars => BudgetTypeOK'
  <2> SUFFICES ASSUME BudgetTypeOK, [BudgetNext]_budgetVars PROVE BudgetTypeOK'
    OBVIOUS
  <2> USE DEF BudgetTypeOK, Usage
  <2>1. ASSUME NEW s \in Session, NEW o \in Owner, NEW m \in Int, NEW b \in Int,
               Adjust(s, o, m, b)
        PROVE  /\ sessionUsage' \in [Session -> Usage]
               /\ sessionBreakdown' \in [Session -> [Owner -> Usage]]
               /\ processUsage' \in Usage
               /\ processBreakdown' \in [Owner -> Usage]
    BY <2>1 DEF Adjust, AdjustBreakdown, Plus
  <2>2. ASSUME NEW r \in Reservation, FinalizeRelease(r), holds' \in [Reservation -> Nat]
        PROVE  BudgetTypeOK'
    <3>1. session[r] \in Session /\ owner[r] \in Owner /\ charged[r] \in Nat
      BY ChargeAssumption DEF BudgetTypeOK
    <3> QED BY <2>1, <2>2, <3>1 DEF FinalizeRelease
  <2>3. ASSUME NEW r \in Reservation, NEW o \in Owner, TryReserve(r, o) PROVE BudgetTypeOK'
    <3>1. session[r] \in Session /\ charged[r] \in Nat
      BY ChargeAssumption DEF BudgetTypeOK
    <3> QED BY <2>1, <2>3, <3>1 DEF TryReserve
  <2>4. ASSUME NEW r \in Reservation, NEW o \in Owner, Transfer(r, o) PROVE BudgetTypeOK'
    BY <2>4 DEF Transfer, Plus
  <2>5. ASSUME NEW r \in Reservation, Hold(r) PROVE BudgetTypeOK'
    BY <2>5 DEF Hold
  <2>6. ASSUME NEW r \in Reservation, Unhold(r) PROVE BudgetTypeOK'
    <3>1. holds' \in [Reservation -> Nat]
      BY <2>6 DEF Unhold
    <3> QED BY <2>2, <2>6, <3>1 DEF Unhold
  <2>7. ASSUME NEW r \in Reservation, RequestRelease(r) PROVE BudgetTypeOK'
    BY <2>2, <2>7 DEF RequestRelease
  <2>8. CASE UNCHANGED budgetVars
    BY <2>8 DEF budgetVars
  <2> QED BY <2>3, <2>4, <2>5, <2>6, <2>7, <2>8 DEF BudgetNext
<1> QED BY <1>1, <1>2, PTL DEF BudgetSpec
-----------------------------------------------------------------------------
(***************************************************************************)
(* Conservation of the totals.  A total is what a set of reservations adds *)
(* up to in messages and in bytes; each of the three ways it can change is *)
(* one lemma: a reservation enters, leaves, or changes owner.              *)
(***************************************************************************)
Total(c, R) == [messages |-> Cardinality(R), bytes |-> Bytes(c, R)]

\* Each running total is the total of its set.
Exact ==
    /\ processUsage = Total(charged, Charged)
    /\ \A s \in Session : sessionUsage[s] = Total(charged, ChargedTo(s))
    /\ \A o \in Owner : processBreakdown[o] = Total(charged, OwnedBy(o))
    /\ \A s \in Session, o \in Owner : sessionBreakdown[s][o] = Total(charged, OwnedIn(s, o))

Units(c, R) == UNION {{r} \X (1..c[r]) : r \in R}

\* A set of reservations has finitely many bytes.
LEMMA FiniteUnits ==
    ASSUME NEW c \in [Reservation -> Nat], NEW R, R \subseteq Reservation
    PROVE  IsFiniteSet(Units(c, R)) /\ Bytes(c, R) \in Nat
<1> DEFINE slice(r) == {r} \X (1..c[r])
           S == {slice(r) : r \in R}
           f == [r \in R |-> slice(r)]
<1>1. f \in Surjection(R, S)
  BY DEF Surjection
<1>2. IsFiniteSet(S)
  <2> HIDE DEF f, S
  <2> QED BY <1>1, FiniteReservations, FS_Surjection
<1>3. ASSUME NEW T \in S PROVE IsFiniteSet(T)
  <2>1. PICK r \in R : T = slice(r)
    OBVIOUS
  <2>2. IsFiniteSet({r}) /\ c[r] \in Nat
    BY FS_Singleton
  <2>3. IsFiniteSet(1..c[r])
    BY <2>2, FS_Interval
  <2>4. IsFiniteSet({r} \X (1..c[r]))
    BY <2>2, <2>3, FS_Product
  <2> QED BY <2>1, <2>4
<1>4. IsFiniteSet(UNION S)
  <2> HIDE DEF S
  <2> QED BY <1>2, <1>3, FS_UNION
<1>5. UNION S = Units(c, R)
  BY DEF Units
<1> HIDE DEF S
<1> QED BY <1>4, <1>5, FS_CardinalityType DEF Bytes, Units

\* One reservation more or less changes the bytes by its charge.
LEMMA BytesAdd ==
    ASSUME NEW c \in [Reservation -> Nat], NEW R, R \subseteq Reservation,
           NEW r \in Reservation, r \notin R
    PROVE  Bytes(c, R \union {r}) = Bytes(c, R) + c[r]
<1> DEFINE own == {r} \X (1..c[r])
<1>1. IsFiniteSet(own) /\ Cardinality(own) = c[r]
  <2>1. c[r] \in Nat /\ IsFiniteSet({r}) /\ Cardinality({r}) = 1
    BY FS_Singleton
  <2>2. IsFiniteSet(1..c[r]) /\ Cardinality(1..c[r]) = c[r]
    BY <2>1, FS_Interval
  <2>3. IsFiniteSet(own) /\ Cardinality(own) = Cardinality({r}) * Cardinality(1..c[r])
    BY <2>1, <2>2, FS_Product
  <2> HIDE DEF own
  <2> QED BY <2>1, <2>2, <2>3
<1>2. Units(c, R \union {r}) = Units(c, R) \union own
  BY DEF Units
<1>3. Units(c, R) \intersect own = {}
  BY DEF Units
<1>4. IsFiniteSet(Units(c, R)) /\ Cardinality(Units(c, R)) \in Nat
  BY FiniteUnits, FS_CardinalityType
<1> HIDE DEF own
<1>5. Cardinality(Units(c, R) \union own) = Cardinality(Units(c, R)) + c[r]
  <2>1. Cardinality(Units(c, R) \intersect own) = 0
    BY <1>3, FS_EmptySet
  <2>2. Cardinality(Units(c, R) \union own)
            = Cardinality(Units(c, R)) + Cardinality(own)
              - Cardinality(Units(c, R) \intersect own)
    BY <1>1, <1>4, FS_Union
  <2> QED BY <1>1, <1>4, <2>1, <2>2
<1> QED BY <1>2, <1>5 DEF Bytes, Units

\* A reservation that enters a set adds one message and its charge to the total.
LEMMA TotalAdd ==
    ASSUME NEW c \in [Reservation -> Nat], NEW R, R \subseteq Reservation,
           NEW r \in Reservation, r \notin R
    PROVE  Total(c, R \union {r}) = Plus(Total(c, R), 1, c[r])
<1>1. Cardinality(R \union {r}) = Cardinality(R) + 1
  BY CountAdd
<1> QED BY <1>1, BytesAdd DEF Total, Plus

\* One that leaves takes them away again.
LEMMA TotalRemove ==
    ASSUME NEW c \in [Reservation -> Nat], NEW R, R \subseteq Reservation, NEW r \in R
    PROVE  Total(c, R \ {r}) = Plus(Total(c, R), -1, -c[r])
<1>1. R = (R \ {r}) \union {r} /\ R \ {r} \subseteq Reservation /\ r \in Reservation
  OBVIOUS
<1>2. Bytes(c, R) = Bytes(c, R \ {r}) + c[r]
  BY <1>1, BytesAdd
<1>3. Bytes(c, R \ {r}) \in Nat /\ c[r] \in Nat
  BY <1>1, FiniteUnits
<1>4. Cardinality(R \ {r}) = Cardinality(R) - 1 /\ Cardinality(R) \in Nat
  BY CountRemove, FiniteReservations
<1>5. Bytes(c, R \ {r}) = Bytes(c, R) + (-c[r])
  BY <1>2, <1>3
<1>6. Cardinality(R \ {r}) = Cardinality(R) + (-1)
  BY <1>4
<1> QED BY <1>5, <1>6 DEF Total, Plus

\* The empty set has the total zero.
LEMMA TotalEmpty == ASSUME NEW c PROVE Total(c, {}) = zeroUsage
<1>1. UNION {{r} \X (1..c[r]) : r \in {}} = {}
  OBVIOUS
<1> QED BY <1>1, FS_EmptySet DEF Total, Bytes, zeroUsage

\* The charges are natural numbers.
LEMMA ChargeTypes == BudgetTypeOK => charged \in [Reservation -> Nat]
BY ChargeAssumption DEF BudgetTypeOK

\* TryReserve adds one reservation to the sets it belongs to and to their totals.
LEMMA ReserveConserves ==
    ASSUME BudgetTypeOK, Exact, NEW r \in Reservation, NEW o \in Owner, TryReserve(r, o)
    PROVE  Exact'
<1> USE DEF BudgetTypeOK
<1>0. charged' = charged /\ charged \in [Reservation -> Nat]
  BY ChargeTypes DEF TryReserve
<1>1. /\ status' = [status EXCEPT ![r] = "live"] /\ owner' = [owner EXCEPT ![r] = o]
      /\ status[r] = "none" /\ session' = session /\ session[r] \in Session
  BY DEF TryReserve
<1>2. /\ sessionUsage' = [sessionUsage EXCEPT ![session[r]] = Plus(@, 1, charged[r])]
      /\ processUsage' = Plus(processUsage, 1, charged[r])
      /\ sessionBreakdown' = [sessionBreakdown EXCEPT ![session[r]][o] = Plus(@, 1, charged[r])]
      /\ processBreakdown' = [processBreakdown EXCEPT ![o] = Plus(@, 1, charged[r])]
  BY DEF TryReserve, Adjust, AdjustBreakdown
<1>3. r \notin Charged /\ Charged \subseteq Reservation /\ Charged' = Charged \union {r}
  BY <1>1 DEF Charged
<1>4. processUsage' = Total(charged, Charged')
  BY <1>0, <1>2, <1>3, TotalAdd DEF Exact
<1>5. ASSUME NEW s \in Session PROVE sessionUsage'[s] = Total(charged, ChargedTo(s)')
  <2>1. ChargedTo(s) \subseteq Reservation /\ r \notin ChargedTo(s)
    BY <1>3 DEF ChargedTo
  <2>2. ChargedTo(s)' = IF s = session[r] THEN ChargedTo(s) \union {r} ELSE ChargedTo(s)
    BY <1>1, <1>3 DEF ChargedTo
  <2>3. sessionUsage'[s] = IF s = session[r] THEN Plus(sessionUsage[s], 1, charged[r])
                                             ELSE sessionUsage[s]
    BY <1>2
  <2> HIDE DEF BudgetTypeOK
  <2> QED BY <1>0, <2>1, <2>2, <2>3, TotalAdd DEF Exact
<1>6. ASSUME NEW p \in Owner PROVE processBreakdown'[p] = Total(charged, OwnedBy(p)')
  <2>1. OwnedBy(p) \subseteq Reservation /\ r \notin OwnedBy(p)
    BY <1>3 DEF OwnedBy
  <2>2. OwnedBy(p)' = IF p = o THEN OwnedBy(p) \union {r} ELSE OwnedBy(p)
    BY <1>1, <1>3 DEF OwnedBy
  <2>3. processBreakdown'[p] = IF p = o THEN Plus(processBreakdown[p], 1, charged[r])
                                        ELSE processBreakdown[p]
    BY <1>2
  <2> HIDE DEF BudgetTypeOK
  <2> QED BY <1>0, <2>1, <2>2, <2>3, TotalAdd DEF Exact
<1>7. ASSUME NEW s \in Session, NEW p \in Owner
      PROVE  sessionBreakdown'[s][p] = Total(charged, OwnedIn(s, p)')
  <2>1. OwnedIn(s, p) \subseteq Reservation /\ r \notin OwnedIn(s, p)
    BY <1>3 DEF OwnedIn
  <2>2. OwnedIn(s, p)' = IF s = session[r] /\ p = o THEN OwnedIn(s, p) \union {r}
                                                   ELSE OwnedIn(s, p)
    BY <1>1, <1>3 DEF OwnedIn
  <2>3. sessionBreakdown'[s][p] =
          IF s = session[r] /\ p = o THEN Plus(sessionBreakdown[s][p], 1, charged[r])
                                     ELSE sessionBreakdown[s][p]
    BY <1>2
  <2> HIDE DEF BudgetTypeOK
  <2> QED BY <1>0, <2>1, <2>2, <2>3, TotalAdd DEF Exact
<1> QED BY <1>0, <1>4, <1>5, <1>6, <1>7 DEF Exact

\* FinalizeRelease removes one charged reservation, by its current owner, from the
\* sets it belongs to and from their totals.
LEMMA ReleaseConserves ==
    ASSUME BudgetTypeOK, Exact, NEW r \in Charged, FinalizeRelease(r)
    PROVE  Exact'
<1> USE DEF BudgetTypeOK
<1> DEFINE o == owner[r]
<1>0. charged' = charged /\ charged \in [Reservation -> Nat]
  BY ChargeTypes DEF FinalizeRelease
<1>1. /\ status' = [status EXCEPT ![r] = "released"] /\ owner' = owner
      /\ session' = session /\ session[r] \in Session /\ o \in Owner /\ r \in Reservation
  BY DEF FinalizeRelease, Charged
<1>2. /\ sessionUsage' = [sessionUsage EXCEPT ![session[r]] = Plus(@, -1, -charged[r])]
      /\ processUsage' = Plus(processUsage, -1, -charged[r])
      /\ sessionBreakdown' = [sessionBreakdown EXCEPT ![session[r]][o] = Plus(@, -1, -charged[r])]
      /\ processBreakdown' = [processBreakdown EXCEPT ![o] = Plus(@, -1, -charged[r])]
  BY DEF FinalizeRelease, Adjust, AdjustBreakdown
<1>3. Charged \subseteq Reservation /\ Charged' = Charged \ {r}
  BY <1>1 DEF Charged
<1>4. processUsage' = Total(charged, Charged')
  BY <1>0, <1>2, <1>3, TotalRemove DEF Exact
<1>5. ASSUME NEW s \in Session PROVE sessionUsage'[s] = Total(charged, ChargedTo(s)')
  <2>1. ChargedTo(s) \subseteq Reservation /\ (s = session[r] => r \in ChargedTo(s))
    BY <1>3 DEF ChargedTo
  <2>2. ChargedTo(s)' = IF s = session[r] THEN ChargedTo(s) \ {r} ELSE ChargedTo(s)
    BY <1>1, <1>3 DEF ChargedTo
  <2>3. sessionUsage'[s] = IF s = session[r] THEN Plus(sessionUsage[s], -1, -charged[r])
                                             ELSE sessionUsage[s]
    BY <1>2
  <2> HIDE DEF BudgetTypeOK
  <2> QED BY <1>0, <2>1, <2>2, <2>3, TotalRemove DEF Exact
<1>6. ASSUME NEW p \in Owner PROVE processBreakdown'[p] = Total(charged, OwnedBy(p)')
  <2>1. OwnedBy(p) \subseteq Reservation /\ (p = o => r \in OwnedBy(p))
    BY <1>3 DEF OwnedBy
  <2>2. OwnedBy(p)' = IF p = o THEN OwnedBy(p) \ {r} ELSE OwnedBy(p)
    BY <1>1, <1>3 DEF OwnedBy
  <2>3. processBreakdown'[p] = IF p = o THEN Plus(processBreakdown[p], -1, -charged[r])
                                        ELSE processBreakdown[p]
    BY <1>1, <1>2
  <2> HIDE DEF BudgetTypeOK, o
  <2> QED BY <1>0, <2>1, <2>2, <2>3, TotalRemove DEF Exact
<1>7. ASSUME NEW s \in Session, NEW p \in Owner
      PROVE  sessionBreakdown'[s][p] = Total(charged, OwnedIn(s, p)')
  <2>1. OwnedIn(s, p) \subseteq Reservation /\ (s = session[r] /\ p = o => r \in OwnedIn(s, p))
    BY <1>3 DEF OwnedIn
  <2>2. OwnedIn(s, p)' = IF s = session[r] /\ p = o THEN OwnedIn(s, p) \ {r}
                                                   ELSE OwnedIn(s, p)
    BY <1>1, <1>3 DEF OwnedIn
  <2>3. sessionBreakdown'[s][p] =
          IF s = session[r] /\ p = o THEN Plus(sessionBreakdown[s][p], -1, -charged[r])
                                     ELSE sessionBreakdown[s][p]
    BY <1>1, <1>2
  <2> HIDE DEF BudgetTypeOK, o
  <2> QED BY <1>0, <2>1, <2>2, <2>3, TotalRemove DEF Exact
<1> QED BY <1>0, <1>4, <1>5, <1>6, <1>7 DEF Exact

\* Transfer moves one charged reservation from the sets of its old owner to
\* those of the new one; the process and session totals keep theirs.
LEMMA TransferConserves ==
    ASSUME BudgetTypeOK, Exact, NEW r \in Reservation, NEW n \in Owner, Transfer(r, n)
    PROVE  Exact'
<1> USE DEF BudgetTypeOK
<1> DEFINE o == owner[r]
<1>0. charged' = charged /\ charged \in [Reservation -> Nat]
  BY ChargeTypes DEF Transfer
<1>1. /\ status' = status /\ owner' = [owner EXCEPT ![r] = n] /\ session' = session
      /\ sessionUsage' = sessionUsage /\ processUsage' = processUsage
      /\ status[r] = "live" /\ session[r] \in Session /\ o \in Owner /\ n # o
  BY DEF Transfer
<1>2. /\ sessionBreakdown' = [sessionBreakdown EXCEPT
             ![session[r]][o] = Plus(@, -1, -charged[r]),
             ![session[r]][n] = Plus(@, 1, charged[r])]
      /\ processBreakdown' = [processBreakdown EXCEPT
             ![o] = Plus(@, -1, -charged[r]), ![n] = Plus(@, 1, charged[r])]
  BY DEF Transfer
<1>3. Charged \subseteq Reservation /\ Charged' = Charged /\ r \in Charged
  BY <1>1 DEF Charged
<1>4. /\ processUsage' = Total(charged, Charged')
      /\ \A s \in Session : sessionUsage'[s] = Total(charged, ChargedTo(s)')
  BY <1>1, <1>3 DEF Exact, ChargedTo
<1>5. ASSUME NEW p \in Owner PROVE processBreakdown'[p] = Total(charged, OwnedBy(p)')
  <2>1. /\ OwnedBy(p) \subseteq Reservation /\ (p = o => r \in OwnedBy(p))
        /\ (p # o => r \notin OwnedBy(p))
    BY <1>3 DEF OwnedBy
  <2>2. OwnedBy(p)' = IF p = o THEN OwnedBy(p) \ {r}
                      ELSE IF p = n THEN OwnedBy(p) \union {r} ELSE OwnedBy(p)
    BY <1>1, <1>3 DEF OwnedBy
  <2>3. processBreakdown'[p] =
          IF p = o THEN Plus(processBreakdown[p], -1, -charged[r])
          ELSE IF p = n THEN Plus(processBreakdown[p], 1, charged[r])
                        ELSE processBreakdown[p]
    BY <1>1, <1>2
  <2> HIDE DEF BudgetTypeOK, o
  <2> QED BY <1>0, <2>1, <2>2, <2>3, TotalRemove, TotalAdd DEF Exact
<1>6. ASSUME NEW s \in Session, NEW p \in Owner
      PROVE  sessionBreakdown'[s][p] = Total(charged, OwnedIn(s, p)')
  <2>1. /\ OwnedIn(s, p) \subseteq Reservation
        /\ (s = session[r] /\ p = o => r \in OwnedIn(s, p))
        /\ (p # o => r \notin OwnedIn(s, p))
    BY <1>3 DEF OwnedIn
  <2>2. OwnedIn(s, p)' =
          IF s = session[r] /\ p = o THEN OwnedIn(s, p) \ {r}
          ELSE IF s = session[r] /\ p = n THEN OwnedIn(s, p) \union {r} ELSE OwnedIn(s, p)
    BY <1>1, <1>3 DEF OwnedIn
  <2>3. sessionBreakdown'[s][p] =
          IF s = session[r] /\ p = o THEN Plus(sessionBreakdown[s][p], -1, -charged[r])
          ELSE IF s = session[r] /\ p = n THEN Plus(sessionBreakdown[s][p], 1, charged[r])
                                         ELSE sessionBreakdown[s][p]
    BY <1>1, <1>2
  <2> HIDE DEF BudgetTypeOK, o
  <2> QED BY <1>0, <1>1, <2>1, <2>2, <2>3, TotalRemove, TotalAdd DEF Exact
<1> QED BY <1>0, <1>4, <1>5, <1>6 DEF Exact

\* Holds alone change no total.
LEMMA HoldConserves ==
    ASSUME Exact, UNCHANGED <<status, session, charged, owner, sessionUsage, sessionBreakdown,
                              processUsage, processBreakdown>>
    PROVE  Exact'
  BY DEF Exact, Charged, ChargedTo, OwnedBy, OwnedIn

\* A request under a hold keeps the reservation in every set it was in.
LEMMA RequestConserves ==
    ASSUME BudgetTypeOK, Exact, NEW r \in Reservation, status[r] = "live",
           status' = [status EXCEPT ![r] = "requested"],
           UNCHANGED <<session, charged, owner, sessionUsage, sessionBreakdown,
                       processUsage, processBreakdown>>
    PROVE  Exact'
<1>1. Charged' = Charged
  BY DEF Charged, BudgetTypeOK
<1> QED BY <1>1 DEF Exact, ChargedTo, OwnedBy, OwnedIn

-----------------------------------------------------------------------------
(***************************************************************************)
(* A hold keeps the charge.  It is what makes a release happen only to a   *)
(* charged reservation, so conservation rests on it.                       *)
(***************************************************************************)
\* Raw text under a callback's hold is charged; a requested release is pending
\* only because of a hold.
THEOREM HoldKeepsCharge == BudgetSpec => []HeldIsCharged
<1>1. BudgetInit => HeldIsCharged
  BY DEF BudgetInit, HeldIsCharged
<1>2. BudgetTypeOK /\ HeldIsCharged /\ [BudgetNext]_budgetVars => HeldIsCharged'
  <2> SUFFICES ASSUME BudgetTypeOK, HeldIsCharged, [BudgetNext]_budgetVars PROVE HeldIsCharged'
    OBVIOUS
  <2> USE DEF BudgetTypeOK, HeldIsCharged, Charged
  <2>1. ASSUME NEW r \in Reservation, NEW o \in Owner, TryReserve(r, o) PROVE HeldIsCharged'
    BY <2>1 DEF TryReserve
  <2>2. ASSUME NEW r \in Reservation, NEW o \in Owner, Transfer(r, o) PROVE HeldIsCharged'
    BY <2>2 DEF Transfer
  <2>3. ASSUME NEW r \in Reservation, Hold(r) PROVE HeldIsCharged'
    BY <2>3 DEF Hold
  <2>4. ASSUME NEW r \in Reservation, Unhold(r) PROVE HeldIsCharged'
    BY <2>4 DEF Unhold, FinalizeRelease
  <2>5. ASSUME NEW r \in Reservation, RequestRelease(r) PROVE HeldIsCharged'
    BY <2>5 DEF RequestRelease, FinalizeRelease
  <2>6. CASE UNCHANGED budgetVars
    BY <2>6 DEF budgetVars
  <2> QED BY <2>1, <2>2, <2>3, <2>4, <2>5, <2>6 DEF BudgetNext
<1> QED BY <1>1, <1>2, BudgetTypeCorrect, PTL DEF BudgetSpec

\* The running totals are the totals of their sets throughout.
THEOREM TotalsExact == BudgetSpec => []Exact
<1>1. BudgetInit => Exact
  <2> SUFFICES ASSUME BudgetInit PROVE Exact
    OBVIOUS
  <2>1. Charged = {}
    BY DEF BudgetInit, Charged
  <2>2. /\ \A s \in Session : ChargedTo(s) = {}
        /\ \A o \in Owner : OwnedBy(o) = {}
        /\ \A s \in Session, o \in Owner : OwnedIn(s, o) = {}
    BY <2>1 DEF ChargedTo, OwnedBy, OwnedIn
  <2> QED BY <2>1, <2>2, TotalEmpty DEF BudgetInit, Exact, zeroBreakdown
<1>2. BudgetTypeOK /\ HeldIsCharged /\ Exact /\ [BudgetNext]_budgetVars => Exact'
  <2> SUFFICES ASSUME BudgetTypeOK, HeldIsCharged, Exact, [BudgetNext]_budgetVars
               PROVE  Exact'
    OBVIOUS
  <2>1. ASSUME NEW r \in Reservation, NEW o \in Owner, TryReserve(r, o) PROVE Exact'
    BY <2>1, ReserveConserves
  <2>2. ASSUME NEW r \in Reservation, NEW o \in Owner, Transfer(r, o) PROVE Exact'
    BY <2>2, TransferConserves
  <2>3. ASSUME NEW r \in Reservation, Hold(r) PROVE Exact'
    BY <2>3, HoldConserves DEF Hold
  <2>4. ASSUME NEW r \in Reservation, Unhold(r) PROVE Exact'
    <3>1. CASE holds[r] = 1 /\ status[r] = "requested"
      <4>1. r \in Charged
        BY <3>1 DEF Charged
      <4> QED BY <2>4, <3>1, <4>1, ReleaseConserves DEF Unhold
    <3>2. CASE ~(holds[r] = 1 /\ status[r] = "requested")
      BY <2>4, <3>2, HoldConserves DEF Unhold
    <3> QED BY <3>1, <3>2
  <2>5. ASSUME NEW r \in Reservation, RequestRelease(r) PROVE Exact'
    <3>1. status[r] = "live" /\ r \in Charged
      BY <2>5 DEF RequestRelease, Charged
    <3>2. CASE holds[r] = 0
      BY <2>5, <3>1, <3>2, ReleaseConserves DEF RequestRelease
    <3>3. CASE holds[r] # 0
      BY <2>5, <3>1, <3>3, RequestConserves DEF RequestRelease
    <3> QED BY <3>2, <3>3
  <2>6. CASE UNCHANGED budgetVars
    BY <2>6, HoldConserves DEF budgetVars
  <2> QED BY <2>1, <2>2, <2>3, <2>4, <2>5, <2>6 DEF BudgetNext
<1> QED BY <1>1, <1>2, BudgetTypeCorrect, HoldKeepsCharge, PTL DEF BudgetSpec

\* The four configured limits bound the running totals at every moment; with
\* BudgetConserved, they bound the outstanding reservations themselves.
THEOREM LimitsHold == BudgetSpec => []WithinLimits
<1>1. BudgetInit => WithinLimits
  BY LimitsAssumption DEF BudgetInit, WithinLimits, zeroUsage
<1>2. BudgetTypeOK /\ WithinLimits /\ [BudgetNext]_budgetVars => WithinLimits'
  <2> SUFFICES ASSUME BudgetTypeOK, WithinLimits, [BudgetNext]_budgetVars PROVE WithinLimits'
    OBVIOUS
  <2>0. \A r \in Reservation : charged[r] \in Nat /\ session[r] \in Session
    BY ChargeAssumption DEF BudgetTypeOK
  <2> USE LimitsAssumption DEF BudgetTypeOK, Usage, WithinLimits
  <2>1. ASSUME NEW r \in Reservation, NEW o \in Owner, TryReserve(r, o) PROVE WithinLimits'
    BY <2>0, <2>1 DEF TryReserve, Fits, Adjust, Plus
  <2>2. ASSUME NEW r \in Reservation, NEW o \in Owner, Transfer(r, o) PROVE WithinLimits'
    BY <2>2 DEF Transfer
  <2>3. ASSUME NEW r \in Reservation, FinalizeRelease(r) PROVE WithinLimits'
    BY <2>0, <2>3 DEF FinalizeRelease, Adjust, Plus
  <2>4. ASSUME UNCHANGED <<sessionUsage, processUsage>> PROVE WithinLimits'
    BY <2>4
  <2>5. ASSUME NEW r \in Reservation, Hold(r) \/ Unhold(r) \/ RequestRelease(r)
        PROVE  WithinLimits'
    BY <2>3, <2>4, <2>5 DEF Hold, Unhold, RequestRelease
  <2>6. CASE UNCHANGED budgetVars
    BY <2>4, <2>6 DEF budgetVars
  <2> QED BY <2>1, <2>2, <2>5, <2>6 DEF BudgetNext
<1> QED BY <1>1, <1>2, BudgetTypeCorrect, PTL DEF BudgetSpec

\* After a step, a session's total is zero exactly when none of its reservations
\* is charged.
LEMMA ZeroIsEmptyNext ==
    ASSUME Exact', NEW s \in Session
    PROVE  sessionUsage'[s] = zeroUsage <=> ChargedTo(s)' = {}
<1>1. ChargedTo(s)' \subseteq Reservation
  BY DEF ChargedTo, Charged
<1>2. Cardinality(ChargedTo(s)') = 0 <=> ChargedTo(s)' = {}
  BY <1>1, FiniteReservations, FS_EmptySet
<1>3. sessionUsage'[s] = Total(charged', ChargedTo(s)')
  BY DEF Exact
<1>4. sessionUsage'[s] = zeroUsage => Cardinality(ChargedTo(s)') = 0
  BY <1>3 DEF Total, zeroUsage
<1>5. ChargedTo(s)' = {} => sessionUsage'[s] = zeroUsage
  BY <1>3, TotalEmpty
<1> QED BY <1>2, <1>4, <1>5

\* The sessions map has an entry exactly for the sessions with charged work:
\* transfer and finalizeRelease never throw "no session usage", and the entry goes
\* with the last charge.  It rests on the exactness of both totals, for the code
\* deletes the entry when the two are zero.
THEOREM SessionEntries == BudgetSpec => []SessionsExact
<1>1. BudgetInit => SessionsExact
  BY DEF BudgetInit, SessionsExact, ChargedTo, Charged
<1>2. BudgetTypeOK /\ HeldIsCharged /\ SessionsExact /\ Exact' /\ [BudgetNext]_budgetVars => SessionsExact'
  <2> SUFFICES ASSUME BudgetTypeOK, HeldIsCharged, SessionsExact, Exact', [BudgetNext]_budgetVars, NEW s \in Session
               PROVE  s \in sessions' <=> ChargedTo(s)' # {}
    BY DEF SessionsExact
  <2>0. s \in sessions <=> ChargedTo(s) # {}
    BY DEF SessionsExact
  <2>1. sessionUsage'[s] = zeroUsage <=> ChargedTo(s)' = {}
    BY ZeroIsEmptyNext
  <2>2. ASSUME NEW r \in Charged, FinalizeRelease(r) PROVE s \in sessions' <=> ChargedTo(s)' # {}
    <3>1. r \in Reservation /\ status' = [status EXCEPT ![r] = "released"] /\ session' = session
      BY <2>2 DEF FinalizeRelease, Charged
    <3>2. CASE s = session[r]
      <4>1. s \in sessions
        BY <2>0, <3>2 DEF ChargedTo
      <4> QED BY <2>1, <2>2, <3>2, <4>1 DEF FinalizeRelease
    <3>3. CASE s # session[r]
      <4>1. ChargedTo(s)' = ChargedTo(s)
        BY <3>1, <3>3 DEF ChargedTo, Charged, BudgetTypeOK
      <4>2. s \in sessions' <=> s \in sessions
        BY <2>2, <3>3 DEF FinalizeRelease
      <4> QED BY <2>0, <4>1, <4>2
    <3> QED BY <3>2, <3>3
  <2>3. ASSUME NEW r \in Reservation, NEW o \in Owner, TryReserve(r, o)
        PROVE  s \in sessions' <=> ChargedTo(s)' # {}
    <3>1. ChargedTo(s)' = IF s = session[r] THEN ChargedTo(s) \union {r} ELSE ChargedTo(s)
      BY <2>3 DEF TryReserve, ChargedTo, Charged, BudgetTypeOK
    <3> QED BY <2>0, <2>3, <3>1 DEF TryReserve
  <2>4. ASSUME UNCHANGED <<session, sessions>>, Charged' = Charged
        PROVE  s \in sessions' <=> ChargedTo(s)' # {}
    BY <2>0, <2>4 DEF ChargedTo
  <2>5. ASSUME NEW r \in Reservation, NEW o \in Owner, Transfer(r, o)
        PROVE  s \in sessions' <=> ChargedTo(s)' # {}
    BY <2>4, <2>5 DEF Transfer, Charged
  <2>6. ASSUME NEW r \in Reservation, Hold(r) PROVE s \in sessions' <=> ChargedTo(s)' # {}
    BY <2>4, <2>6 DEF Hold, Charged
  <2>7. ASSUME NEW r \in Reservation, Unhold(r) PROVE s \in sessions' <=> ChargedTo(s)' # {}
    <3>1. CASE holds[r] = 1 /\ status[r] = "requested"
      BY <2>2, <2>7, <3>1 DEF Unhold, Charged
    <3>2. CASE ~(holds[r] = 1 /\ status[r] = "requested")
      BY <2>4, <2>7, <3>2 DEF Unhold, Charged
    <3> QED BY <3>1, <3>2
  <2>8. ASSUME NEW r \in Reservation, RequestRelease(r)
        PROVE  s \in sessions' <=> ChargedTo(s)' # {}
    <3>1. CASE holds[r] = 0
      BY <2>2, <2>8, <3>1 DEF RequestRelease, Charged
    <3>2. CASE holds[r] # 0
      <4>1. Charged' = Charged
        BY <2>8, <3>2 DEF RequestRelease, Charged, BudgetTypeOK
      <4> QED BY <2>4, <2>8, <3>2, <4>1 DEF RequestRelease
    <3> QED BY <3>1, <3>2
  <2>9. CASE UNCHANGED budgetVars
    BY <2>4, <2>9 DEF budgetVars, Charged
  <2> QED BY <2>3, <2>5, <2>6, <2>7, <2>8, <2>9 DEF BudgetNext
<1> QED BY <1>1, <1>2, BudgetTypeCorrect, HoldKeepsCharge, TotalsExact, PTL DEF BudgetSpec

\* The running totals of the budget never drift from the reservations that are
\* really outstanding, in messages, in bytes and in the sessions they name.
THEOREM BudgetConserved == BudgetSpec => []Conserved
<1>1. Exact /\ SessionsExact => Conserved
  <2> SUFFICES ASSUME Exact, SessionsExact PROVE Conserved
    OBVIOUS
  <2>1. \A R : Total(charged, R).messages = Cardinality(R) /\ Total(charged, R).bytes = BytesOf(R)
    BY DEF Total, BytesOf
  <2>2. MessagesConserved
    BY <2>1 DEF Exact, MessagesConserved
  <2>3. BytesConserved
    BY <2>1 DEF Exact, BytesConserved
  <2> QED BY <2>2, <2>3 DEF Conserved
<1> QED BY <1>1, TotalsExact, SessionEntries, PTL

-----------------------------------------------------------------------------
(***************************************************************************)
(* PART 2.  The outcome store (OutcomeStore).                              *)
(***************************************************************************)

\* The call of `p' has passed the gate of its key.
Past(p) == pc[p] \in {"ready", "check", "receipt"}

\* Whoever is past a gate is at its head.
GateInv == \A p \in Op : Past(p) => OwnsGate(p)

\* No trace of outcome o for key k in any layer.
Clean(k, o) == k \notin mem[o] /\ k \notin disk[o] /\ hot[k] # o

\* Call p has just created the marker again and holds its receipt.
Recreated(p, k, o) ==
    /\ pc[p] = "receipt" /\ call[p].key = k /\ call[p].outcome = o /\ call[p].fresh
    /\ hot[k] # o

\* Where a rolled-back outcome may still be: nowhere, quarantined, behind the
\* poison latch, or under a new receipt.
Weak(k) ==
    \A o \in void[k] :
        poisoned \/ recovery[k] = o \/ Clean(k, o) \/ \E p \in Op : Recreated(p, k, o)

\* A call past the gate has already seen the quarantine and the latch, so for its
\* key these no longer count: the latch may close, on behalf of another key,
\* after the call has looked at it.
Strong(p, k) ==
    /\ recovery[k] = "none"
    /\ \A o \in void[k] : Clean(k, o) \/ Recreated(p, k, o)

VoidInv ==
    /\ \A k \in Key : Weak(k)
    /\ \A p \in Op : Past(p) => Strong(p, call[p].key)

-----------------------------------------------------------------------------
(***************************************************************************)
(* Types.                                                                  *)
(***************************************************************************)
\* The caches and the SDK layers after each of the operators that change them.
LEMMA StoreOperators ==
    ASSUME StoreTypeOK, NEW k \in Key, NEW o \in Outcome
    PROVE  /\ WithoutHot(k, o) \in [Key -> Outcome \union {"none"}]
           /\ PutHot(k, o) => hot' \in [Key -> Outcome \union {"none"}]
           /\ \A ok \in BOOLEAN : SdkForget(o, k, ok) =>
                /\ mem' \in [Outcome -> SUBSET Key] /\ disk' \in [Outcome -> SUBSET Key]
           /\ RememberFailedRollback(k, o) =>
                /\ hot' \in [Key -> Outcome \union {"none"}]
                /\ recovery' \in [Key -> Outcome \union {"none"}]
                /\ poisoned' \in BOOLEAN
<1> USE DEF StoreTypeOK
<1>1. WithoutHot(k, o) \in [Key -> Outcome \union {"none"}]
  BY DEF WithoutHot
<1>2. PutHot(k, o) => hot' \in [Key -> Outcome \union {"none"}]
  BY DEF PutHot, HotKeys
<1>3. ASSUME NEW ok \in BOOLEAN, SdkForget(o, k, ok)
      PROVE  mem' \in [Outcome -> SUBSET Key] /\ disk' \in [Outcome -> SUBSET Key]
  BY <1>3 DEF SdkForget
<1>4. RememberFailedRollback(k, o) =>
        /\ hot' \in [Key -> Outcome \union {"none"}]
        /\ recovery' \in [Key -> Outcome \union {"none"}]
        /\ poisoned' \in BOOLEAN
  BY <1>1 DEF RememberFailedRollback
<1> QED BY <1>1, <1>2, <1>3, <1>4

\* A call that returns leaves the gates and the calls well-typed.
LEMMA ReturnTypes ==
    ASSUME CallTypeOK, NEW p \in Op, pc[p] # "idle", Return(p), gate[call[p].key] # <<>>
    PROVE  CallTypeOK'
<1>1. call[p] \in Call /\ call[p].key \in Key
  BY DEF CallTypeOK, Call
<1>2. gate' \in [Key -> Seq(Op)]
  BY <1>1 DEF CallTypeOK, Return, ReleaseGate
<1> QED BY <1>1, <1>2 DEF CallTypeOK, Return, Pc

\* What a step of a call does to the calls and gates: it returns, or it advances
\* past the gate it holds.
Advance(p) ==
    /\ gate' = gate
    /\ \E x \in {"ready", "check", "receipt"} : pc' = [pc EXCEPT ![p] = x]
    /\ \/ call' = call
       \/ \E f \in BOOLEAN : call' = [call EXCEPT ![p].fresh = f]

\* Each step of a call has one of the two shapes, and its owner is at the head.
LEMMA StepShape ==
    ASSUME TypeOK, GateInv, NEW p \in Op, OpStep(p)
    PROVE  pc[p] # "idle" /\ OwnsGate(p) /\ (Return(p) \/ Advance(p))
<1> USE DEF GateInv, Past
<1>1. CASE LookupUnlocked(p)
  BY <1>1 DEF LookupUnlocked
<1>2. CASE Recover(p)
  BY <1>2 DEF Recover, Advance
<1>3. CASE Replace(p)
  BY <1>3 DEF Replace, Advance
<1>4. CASE CheckAndRecord(p)
  <2>1. \A o, k, ok : Fresh(o, k, ok) \in BOOLEAN
    BY DEF Fresh
  <2> QED BY <1>4, <2>1 DEF CheckAndRecord, Advance
<1>5. CASE Commit(p)
  BY <1>5 DEF Commit
<1>6. CASE Rollback(p)
  BY <1>6 DEF Rollback
<1>7. CASE Forget(p)
  BY <1>7 DEF Forget
<1> QED BY <1>1, <1>2, <1>3, <1>4, <1>5, <1>6, <1>7 DEF OpStep

\* The calls and gates stay well-typed, and the heads stay with their owners.
LEMMA GateStep ==
    ASSUME TypeOK, GateInv, [Next]_vars
    PROVE  CallTypeOK' /\ GateInv'
<1> USE DEF TypeOK
<1>1. ASSUME NEW p \in Op, OpStep(p) PROVE CallTypeOK' /\ GateInv'
  <2>1. pc[p] # "idle" /\ OwnsGate(p) /\ (Return(p) \/ Advance(p))
    BY <1>1, StepShape
  <2>2. call[p] \in Call /\ call[p].key \in Key /\ gate[call[p].key] # <<>>
    BY <2>1 DEF CallTypeOK, Call, OwnsGate
  <2>3. CASE Return(p)
    <3>1. CallTypeOK'
      BY <2>1, <2>2, <2>3, ReturnTypes
    <3>2. ASSUME NEW q \in Op, Past(q)' PROVE OwnsGate(q)'
      <4>1. q # p /\ Past(q) /\ OwnsGate(q) /\ call'[q] = call[q] /\ call[q].key \in Key
        BY <2>3, <3>2 DEF Return, Past, GateInv, CallTypeOK, Call
      <4>2. call[q].key # call[p].key
        BY <2>1, <4>1 DEF OwnsGate
      <4> QED BY <2>3, <4>1, <4>2 DEF Return, ReleaseGate, OwnsGate, CallTypeOK
    <3> QED BY <3>1, <3>2 DEF GateInv
  <2>4. CASE Advance(p)
    <3>1. \A q \in Op : call'[q].key = call[q].key /\ (q # p => call'[q] = call[q])
      BY <2>2, <2>4 DEF Advance, CallTypeOK, Call
    <3>2. CallTypeOK'
      <4>0. ASSUME NEW c \in Call, NEW f \in BOOLEAN PROVE [c EXCEPT !.fresh = f] \in Call
        BY DEF Call
      <4>1. call'[p] \in Call /\ \A q \in Op : q # p => call'[q] = call[q]
        <5>1. CASE call' = call
          BY <2>2, <5>1
        <5>2. CASE \E f \in BOOLEAN : call' = [call EXCEPT ![p].fresh = f]
          <6>1. PICK f \in BOOLEAN : call' = [call EXCEPT ![p].fresh = f]
            BY <5>2
          <6>2. call'[p] = [call[p] EXCEPT !.fresh = f]
            BY <6>1 DEF CallTypeOK
          <6> QED BY <2>2, <3>1, <4>0, <6>2
        <5> QED BY <2>4, <5>1, <5>2 DEF Advance
      <4>2. call' \in [Op -> Call \union {NoCall}]
        BY <2>4, <4>1 DEF Advance, CallTypeOK
      <4> QED BY <2>4, <4>1, <4>2 DEF Advance, CallTypeOK, Pc
    <3>3. GateInv'
      BY <2>1, <2>4, <3>1 DEF Advance, GateInv, Past, OwnsGate, CallTypeOK
    <3> QED BY <3>2, <3>3
  <2> QED BY <2>1, <2>3, <2>4
<1>2. ASSUME NEW p \in Op, NEW c \in Calls, Start(p, c) PROVE CallTypeOK' /\ GateInv'
  <2>1. c \in Call /\ c.key \in Key
    <3>1. \A k \in Key : Lookup(k) \in Call
      BY DEF Lookup, Call, Outcome
    <3>2. c \in Call
      BY <3>1 DEF Calls
    <3> QED BY <3>2 DEF Call
  <2>2. CallTypeOK'
    BY <1>2, <2>1 DEF Start, CallTypeOK, Pc
  <2>3. ASSUME NEW q \in Op, Past(q)' PROVE OwnsGate(q)'
    <3>1. q # p /\ Past(q) /\ OwnsGate(q) /\ call'[q] = call[q] /\ call[q].key \in Key
      BY <1>2, <2>3 DEF Start, Past, GateInv, CallTypeOK, Call
    <3>2. \A s \in Seq(Op) : s # <<>> => Append(s, p) # <<>> /\ Head(Append(s, p)) = Head(s)
      OBVIOUS
    <3> QED BY <1>2, <2>1, <3>1, <3>2 DEF Start, OwnsGate, CallTypeOK
  <2> QED BY <2>2, <2>3 DEF GateInv
<1>3. CASE Crash
  BY <1>3 DEF Crash, CallTypeOK, GateInv, Past, Pc
<1>4. CASE UNCHANGED <<gate, call, pc>>
  BY <1>4 DEF CallTypeOK, GateInv, Past, OwnsGate
<1> QED BY <1>1, <1>2, <1>3, <1>4 DEF Next, EnvStep, EvictMemory, vars

\* The store's own variables stay well-typed.
LEMMA StoreStep ==
    ASSUME TypeOK, [Next]_vars
    PROVE  StoreTypeOK'
<1> USE DEF TypeOK
<1>0. \A p \in Op : pc[p] # "idle" => call[p].key \in Key /\ call[p].outcome \in Outcome
  BY DEF CallTypeOK, Call
<1>1. ASSUME NEW p \in Op, LookupUnlocked(p) PROVE StoreTypeOK'
  <2>1. call[p].key \in Key /\ "overloaded" \in Outcome /\ "accepted" \in Outcome
    BY <1>0, <1>1 DEF LookupUnlocked, Outcome
  <2>2. hot' \in [Key -> Outcome \union {"none"}]
    BY <1>1, <2>1, StoreOperators DEF LookupUnlocked, StoreTypeOK
  <2>3. mem' \in [Outcome -> SUBSET Key] /\ disk' \in [Outcome -> SUBSET Key]
    BY <1>1, <2>1 DEF LookupUnlocked, StoreTypeOK
  <2>4. committed' \in [Key -> SUBSET Outcome] /\ found' \subseteq Key \X Outcome
    BY <1>1, <2>1 DEF LookupUnlocked, StoreTypeOK
  <2> QED BY <1>1, <2>2, <2>3, <2>4 DEF LookupUnlocked, StoreTypeOK
<1>2. ASSUME NEW p \in Op, Recover(p), found' = {} PROVE StoreTypeOK'
  <2>1. call[p].key \in Key
    BY <1>0, <1>2 DEF Recover
  <2>2. recovery[call[p].key] # "none" => recovery[call[p].key] \in Outcome
    BY <2>1 DEF StoreTypeOK
  <2>3. CASE UNCHANGED <<store, void, committed>>
    BY <1>2, <2>3 DEF StoreTypeOK, store
  <2>4. CASE recovery[call[p].key] # "none" /\ ~UNCHANGED <<store, void, committed>>
    <3>1. mem' \in [Outcome -> SUBSET Key] /\ disk' \in [Outcome -> SUBSET Key]
      BY <1>2, <2>1, <2>2, <2>4, StoreOperators DEF Recover
    <3>2. hot' \in [Key -> Outcome \union {"none"}]
      <4>1. hot' \in {hot, WithoutHot(call[p].key, recovery[call[p].key])}
        BY <1>2, <2>4 DEF Recover
      <4> QED BY <2>1, <2>2, <2>4, <4>1, StoreOperators DEF StoreTypeOK
    <3>4. recovery' \in [Key -> Outcome \union {"none"}]
      <4>1. recovery' \in {recovery, [recovery EXCEPT ![call[p].key] = "none"]}
        BY <1>2, <2>4 DEF Recover
      <4> QED BY <2>1, <4>1 DEF StoreTypeOK
    <3>3. poisoned' = poisoned /\ void' = void /\ committed' = committed
      BY <1>2, <2>4 DEF Recover
    <3> QED BY <1>2, <3>1, <3>2, <3>3, <3>4 DEF StoreTypeOK
  <2> QED BY <1>2, <2>3, <2>4 DEF Recover
<1>3. ASSUME NEW p \in Op, Replace(p), found' = {} PROVE StoreTypeOK'
  <2>1. call[p].key \in Key /\ Opposite(call[p].outcome) \in Outcome
    BY <1>0, <1>3 DEF Replace, Opposite, Outcome
  <2>2. mem' \in [Outcome -> SUBSET Key] /\ disk' \in [Outcome -> SUBSET Key]
    BY <1>3, <2>1, StoreOperators DEF Replace, StoreTypeOK
  <2>3. hot' \in [Key -> Outcome \union {"none"}]
    BY <1>3, <2>1, StoreOperators DEF Replace, StoreTypeOK
  <2>4. committed' \in [Key -> SUBSET Outcome] /\ void' \in [Key -> SUBSET Outcome]
    BY <1>3, <2>1 DEF Replace, StoreTypeOK
  <2> QED BY <1>3, <2>2, <2>3, <2>4 DEF Replace, StoreTypeOK
<1>4. ASSUME NEW p \in Op, CheckAndRecord(p), found' = {} PROVE StoreTypeOK'
  <2>1. call[p].key \in Key /\ call[p].outcome \in Outcome
    BY <1>0, <1>4 DEF CheckAndRecord
  <2>2. mem' \in [Outcome -> SUBSET Key] /\ disk' \in [Outcome -> SUBSET Key]
    <3> DEFINE o == call[p].outcome
               k == call[p].key
    <3>1. CASE \E ok \in BOOLEAN : SdkForget(o, k, ok)
      BY <2>1, <3>1, StoreOperators
    <3>2. CASE /\ mem' = [mem EXCEPT ![o] = @ \union {k}]
               /\ disk' \in {disk, [disk EXCEPT ![o] = @ \union {k}]}
      BY <2>1, <3>2 DEF StoreTypeOK
    <3> QED BY <1>4, <3>1, <3>2 DEF CheckAndRecord
  <2>3. hot' \in [Key -> Outcome \union {"none"}]
    BY <1>4, <2>1, StoreOperators DEF CheckAndRecord, StoreTypeOK
  <2>4. committed' \in [Key -> SUBSET Outcome] /\ void' \in [Key -> SUBSET Outcome]
    BY <1>4, <2>1 DEF CheckAndRecord, StoreTypeOK
  <2> QED BY <1>4, <2>2, <2>3, <2>4 DEF CheckAndRecord, StoreTypeOK
<1>5. ASSUME NEW p \in Op, Commit(p), found' = {} PROVE StoreTypeOK'
  <2>1. call[p].key \in Key /\ call[p].outcome \in Outcome
    BY <1>0, <1>5 DEF Commit
  <2>2. mem' \in [Outcome -> SUBSET Key] /\ disk' \in [Outcome -> SUBSET Key]
    BY <1>5, <2>1, StoreOperators DEF Commit, StoreTypeOK
  <2>3. hot' \in [Key -> Outcome \union {"none"}]
    BY <1>5, <2>1, StoreOperators DEF Commit, StoreTypeOK
  <2>4. committed' \in [Key -> SUBSET Outcome] /\ void' \in [Key -> SUBSET Outcome]
    BY <1>5, <2>1 DEF Commit, StoreTypeOK
  <2> QED BY <1>5, <2>2, <2>3, <2>4 DEF Commit, StoreTypeOK
<1>6. ASSUME NEW p \in Op, Rollback(p), found' = {} PROVE StoreTypeOK'
  <2>1. call[p].key \in Key /\ call[p].outcome \in Outcome
    BY <1>0, <1>6 DEF Rollback
  <2>2. mem' \in [Outcome -> SUBSET Key] /\ disk' \in [Outcome -> SUBSET Key]
    BY <1>6, <2>1, StoreOperators DEF Rollback, StoreTypeOK
  <2>3. /\ hot' \in [Key -> Outcome \union {"none"}]
        /\ recovery' \in [Key -> Outcome \union {"none"}]
        /\ poisoned' \in BOOLEAN
    BY <1>6, <2>1, StoreOperators DEF Rollback, StoreTypeOK
  <2>4. committed' \in [Key -> SUBSET Outcome] /\ void' \in [Key -> SUBSET Outcome]
    BY <1>6, <2>1 DEF Rollback, StoreTypeOK
  <2> QED BY <1>6, <2>2, <2>3, <2>4 DEF StoreTypeOK
<1>7. ASSUME NEW p \in Op, Forget(p), found' = {} PROVE StoreTypeOK'
  <2>1. call[p].key \in Key /\ call[p].outcome \in Outcome
    BY <1>0, <1>7 DEF Forget
  <2>2. mem' \in [Outcome -> SUBSET Key] /\ disk' \in [Outcome -> SUBSET Key]
    BY <1>7, <2>1, StoreOperators DEF Forget, StoreTypeOK
  <2>3. hot' \in [Key -> Outcome \union {"none"}]
    BY <1>7, <2>1, StoreOperators DEF Forget, StoreTypeOK
  <2>4. committed' \in [Key -> SUBSET Outcome] /\ void' \in [Key -> SUBSET Outcome]
    BY <1>7, <2>1 DEF Forget, StoreTypeOK
  <2> QED BY <1>7, <2>2, <2>3, <2>4 DEF Forget, StoreTypeOK
<1>8. ASSUME EnvStep PROVE StoreTypeOK'
  <2>1. ASSUME NEW p \in Op, NEW c \in Calls, Start(p, c), found' = {} PROVE StoreTypeOK'
    BY <2>1 DEF Start, store, StoreTypeOK
  <2>2. ASSUME NEW o \in Outcome, NEW k \in Key, EvictMemory(o, k), found' = {}
        PROVE  StoreTypeOK'
    BY <2>2 DEF EvictMemory, StoreTypeOK
  <2>3. ASSUME Crash, found' = {} PROVE StoreTypeOK'
    BY <2>3 DEF Crash, StoreTypeOK
  <2> QED BY <1>8, <2>1, <2>2, <2>3 DEF EnvStep
<1>9. CASE UNCHANGED vars
  BY <1>9 DEF vars, store, StoreTypeOK
<1> QED BY <1>1, <1>2, <1>3, <1>4, <1>5, <1>6, <1>7, <1>8, <1>9 DEF Next, OpStep

\* Type correctness, together with the ownership of the gates it rests on.
THEOREM TypeCorrect == Spec => [](TypeOK /\ GateInv)
<1>1. Init => TypeOK /\ GateInv
  <2> SUFFICES ASSUME Init PROVE TypeOK /\ GateInv
    OBVIOUS
  <2>1. StoreTypeOK
    BY DEF Init, StoreTypeOK
  <2>2. CallTypeOK /\ GateInv
    BY DEF Init, CallTypeOK, GateInv, Past, Pc
  <2> QED BY <2>1, <2>2 DEF TypeOK
<1>2. (TypeOK /\ GateInv) /\ [Next]_vars => (TypeOK /\ GateInv)'
  BY GateStep, StoreStep DEF TypeOK
<1> QED BY <1>1, <1>2, PTL DEF Spec

\* At most one call per key is past the gate of that key.
THEOREM GateExclusion == Spec => []GateExclusive
<1>1. TypeOK /\ GateInv => GateExclusive
  BY DEF TypeOK, CallTypeOK, Pc, GateInv, GateExclusive, Past, OwnsGate
<1> QED BY <1>1, TypeCorrect, PTL

-----------------------------------------------------------------------------
(***************************************************************************)
(* Rolled-back outcomes stay invisible.                                    *)
(***************************************************************************)
\* What a step of a call may do to a key other than its own: evict its hot
\* entry, and close the poison latch.
Frame(k) ==
    /\ \A o \in Outcome : /\ k \in mem'[o] <=> k \in mem[o]
                          /\ k \in disk'[o] <=> k \in disk[o]
    /\ hot'[k] \in {hot[k], "none"}
    /\ recovery'[k] = recovery[k]
    /\ void'[k] = void[k]
    /\ committed'[k] = committed[k]
    /\ poisoned => poisoned'

\* A step of a call touches no other key beyond that.
LEMMA OtherKeys ==
    ASSUME TypeOK, GateInv, NEW p \in Op, OpStep(p), NEW k \in Key, k # call[p].key
    PROVE  Frame(k)
<1> USE DEF TypeOK, StoreTypeOK, Frame
<1>0. pc[p] # "idle" /\ call[p].key \in Key /\ call[p].outcome \in Outcome
  BY StepShape DEF CallTypeOK, Call
<1>1. CASE LookupUnlocked(p)
  <2>1. hot'[k] \in {hot[k], "none"}
    BY <1>0, <1>1 DEF LookupUnlocked, PutHot, HotKeys
  <2>2. \A o \in Outcome : (k \in mem'[o] <=> k \in mem[o]) /\ (k \in disk'[o] <=> k \in disk[o])
    BY <1>0, <1>1 DEF LookupUnlocked, Outcome
  <2>3. committed'[k] = committed[k]
    BY <1>0, <1>1 DEF LookupUnlocked
  <2> QED BY <1>1, <2>1, <2>2, <2>3 DEF LookupUnlocked
<1>2. CASE Recover(p)
  <2>1. CASE UNCHANGED <<store, void, committed>>
    BY <2>1 DEF store
  <2>2. CASE ~UNCHANGED <<store, void, committed>>
    <3>1. \A o \in Outcome : (k \in mem'[o] <=> k \in mem[o]) /\ (k \in disk'[o] <=> k \in disk[o])
      BY <1>0, <1>2, <2>2 DEF Recover, SdkForget
    <3>2. hot'[k] \in {hot[k], "none"} /\ recovery'[k] = recovery[k]
      BY <1>0, <1>2, <2>2 DEF Recover, WithoutHot
    <3> QED BY <1>2, <2>2, <3>1, <3>2 DEF Recover
  <2> QED BY <2>1, <2>2
<1>3. CASE Replace(p)
  BY <1>0, <1>3 DEF Replace, SdkForget
<1>4. CASE CheckAndRecord(p)
  <2>1. \A o \in Outcome : (k \in mem'[o] <=> k \in mem[o]) /\ (k \in disk'[o] <=> k \in disk[o])
    BY <1>0, <1>4 DEF CheckAndRecord, SdkForget
  <2>2. hot'[k] \in {hot[k], "none"}
    BY <1>0, <1>4 DEF CheckAndRecord, WithoutHot
  <2> QED BY <1>4, <2>1, <2>2 DEF CheckAndRecord
<1>5. CASE Commit(p)
  BY <1>0, <1>5 DEF Commit, PutHot, HotKeys
<1>6. CASE Rollback(p)
  <2>1. \A o \in Outcome : (k \in mem'[o] <=> k \in mem[o]) /\ (k \in disk'[o] <=> k \in disk[o])
    BY <1>0, <1>6 DEF Rollback, SdkForget
  <2>2. /\ hot'[k] \in {hot[k], "none"} /\ recovery'[k] = recovery[k]
        /\ poisoned => poisoned'
    BY <1>0, <1>6 DEF Rollback, RememberFailedRollback, WithoutHot
  <2> QED BY <1>0, <1>6, <2>1, <2>2 DEF Rollback
<1>7. CASE Forget(p)
  BY <1>0, <1>7 DEF Forget, SdkForget, WithoutHot
<1> QED BY <1>1, <1>2, <1>3, <1>4, <1>5, <1>6, <1>7 DEF OpStep

\* For its own key, a step keeps every rolled-back outcome where VoidInv allows
\* it: gone or under p's own receipt if p goes on, otherwise also quarantined or
\* behind the latch.
LEMMA OwnKey ==
    ASSUME TypeOK, GateInv, VoidInv, NEW p \in Op, OpStep(p), NEW k \in Key, k = call[p].key
    PROVE  /\ Past(p)' => Strong(p, k)'
           /\ ~Past(p)' => \A o \in void'[k] : poisoned' \/ recovery'[k] = o \/ Clean(k, o)'
<1> USE DEF TypeOK, StoreTypeOK, Clean, Strong
<1>r. PICK r \in Outcome : r = call[p].outcome
  BY StepShape DEF CallTypeOK, Call
<1>0. pc[p] # "idle" /\ r = call[p].outcome /\ OwnsGate(p) /\ pc[p] \in Pc
  BY <1>r, StepShape DEF CallTypeOK
<1>a. \A o \in void[k] : o \in Outcome
  BY <1>0
<1>b. Past(p) => Strong(p, k)
  BY DEF VoidInv
<1>c. pc[p] \in {"ready", "check"} => \A o \in void[k] : Clean(k, o)
  BY <1>b DEF Past, Recreated
<1>1. CASE LookupUnlocked(p)
  <2>1. \A o \in void[k] : Clean(k, o)
    BY <1>c, <1>1 DEF LookupUnlocked
  <2>2. hot'[k] \notin void[k]
    <3>1. \A o \in Outcome : PutHot(k, o) => hot'[k] \in {o, "none"}
      BY DEF PutHot, HotKeys
    <3>2. \A o \in Outcome, ok \in BOOLEAN : Found(o, k, ok) => o \notin void[k]
      BY <2>1 DEF Found
    <3>3. \/ hot' = hot
          \/ \E o \in Outcome, ok \in BOOLEAN : Found(o, k, ok) /\ PutHot(k, o)
      BY <1>1 DEF LookupUnlocked, Outcome
    <3> QED BY <1>a, <2>1, <3>1, <3>2, <3>3 DEF Outcome
  <2>3. \A o \in void[k] : k \notin mem'[o] /\ k \notin disk'[o]
    BY <1>0, <1>a, <1>1, <2>1 DEF LookupUnlocked, Found, Outcome
  <2>4. ~Past(p)'
    BY <1>1 DEF LookupUnlocked, Return, Past, CallTypeOK
  <2> QED BY <1>1, <2>2, <2>3, <2>4 DEF LookupUnlocked
<1>2. CASE Recover(p)
  <2>0. pc[p] = "queued" /\ void' = void
    BY <1>2 DEF Recover
  <2>1. \A o \in void[k] : poisoned \/ recovery[k] = o \/ Clean(k, o)
    <3>1. ASSUME NEW q \in Op, NEW o \in void[k], Recreated(q, k, o) PROVE FALSE
      BY <1>0, <2>0, <3>1 DEF Recreated, GateInv, Past, OwnsGate
    <3> QED BY <1>0, <3>1 DEF VoidInv, Weak
  <2>2. CASE poisoned
    BY <1>2, <2>0, <2>1, <2>2 DEF Recover, Return, Past, store, CallTypeOK
  <2>3. CASE ~poisoned /\ recovery[k] = "none"
    <3>1. \A o \in void[k] : Clean(k, o)
      BY <1>a, <2>1, <2>3 DEF Outcome
    <3>2. UNCHANGED store
      BY <1>2, <2>3 DEF Recover
    <3> QED BY <2>0, <2>3, <3>1, <3>2 DEF store
  <2>4. CASE ~poisoned /\ recovery[k] # "none"
    <3>1. PICK ok \in BOOLEAN :
            /\ SdkForget(recovery[k], k, ok)
            /\ IF ok
               THEN /\ recovery' = [recovery EXCEPT ![k] = "none"]
                    /\ hot' = WithoutHot(k, recovery[k])
                    /\ pc' = [pc EXCEPT ![p] = "ready"]
               ELSE /\ Return(p)
                    /\ UNCHANGED <<recovery, hot>>
      BY <1>2, <2>4 DEF Recover
    <3>2. recovery[k] \in Outcome
      BY <1>0, <2>4
    <3>3. CASE ok
      <4>1. recovery' = [recovery EXCEPT ![k] = "none"] /\ hot' = WithoutHot(k, recovery[k])
        BY <3>1, <3>3
      <4>2. /\ mem' = [mem EXCEPT ![recovery[k]] = @ \ {k}]
            /\ disk' = [disk EXCEPT ![recovery[k]] = @ \ {k}]
        BY <3>1, <3>3 DEF SdkForget
      <4>3. \A o \in void[k] : o = recovery[k] \/ Clean(k, o)
        BY <2>1, <2>4
      <4>4. \A o \in void[k] : k \notin mem'[o] /\ k \notin disk'[o] /\ hot'[k] # o
        BY <1>a, <3>2, <4>1, <4>2, <4>3 DEF WithoutHot, Outcome
      <4> QED BY <2>0, <4>1, <4>4
    <3>4. CASE ~ok
      BY <1>0, <1>a, <2>0, <2>1, <2>4, <3>1, <3>2, <3>4
      DEF SdkForget, Return, Past, CallTypeOK
    <3> QED BY <3>3, <3>4
  <2> QED BY <2>2, <2>3, <2>4
<1>3. CASE Replace(p)
  <2>1. \A o \in void[k] : Clean(k, o)
    BY <1>c, <1>3 DEF Replace
  <2>2. recovery[k] = "none" /\ recovery' = recovery /\ void' = void
    BY <1>b, <1>3 DEF Replace, Past
  <2>3. Opposite(r) \in Outcome
    BY DEF Opposite, Outcome
  <2>4. \A o \in void[k] : k \notin mem'[o] /\ k \notin disk'[o]
    BY <1>0, <1>a, <1>3, <2>1, <2>3 DEF Replace, SdkForget
  <2>5. hot'[k] \in {hot[k], "none"}
    BY <1>0, <1>3 DEF Replace
  <2> QED BY <1>a, <2>1, <2>2, <2>4, <2>5 DEF Outcome
<1>4. CASE CheckAndRecord(p)
  <2>1. \A o \in void[k] : Clean(k, o)
    BY <1>c, <1>4 DEF CheckAndRecord
  <2>2. recovery[k] = "none" /\ recovery' = recovery /\ void' = void
    BY <1>b, <1>4 DEF CheckAndRecord, Past
  <2>3. CASE /\ \E ok \in BOOLEAN : SdkForget(r, k, ok)
             /\ hot' = WithoutHot(k, r)
    BY <1>0, <1>a, <2>1, <2>2, <2>3 DEF SdkForget, WithoutHot, Outcome
  <2>4. CASE \E ok \in BOOLEAN :
               /\ mem' = [mem EXCEPT ![r] = @ \union {k}]
               /\ disk' = IF DiskError(r, k, ok) \/ k \in mem[r] THEN disk
                          ELSE [disk EXCEPT ![r] = @ \union {k}]
               /\ pc' = [pc EXCEPT ![p] = "receipt"]
               /\ call' = [call EXCEPT ![p].fresh = Fresh(r, k, ok)]
               /\ hot' = hot
    <3>1. PICK ok \in BOOLEAN :
            /\ mem' = [mem EXCEPT ![r] = @ \union {k}]
            /\ disk' = IF DiskError(r, k, ok) \/ k \in mem[r] THEN disk
                       ELSE [disk EXCEPT ![r] = @ \union {k}]
            /\ pc' = [pc EXCEPT ![p] = "receipt"]
            /\ call' = [call EXCEPT ![p].fresh = Fresh(r, k, ok)]
            /\ hot' = hot
      BY <2>4
    <3>2. ASSUME NEW o \in void[k], o # r PROVE Clean(k, o)'
      BY <1>0, <1>a, <2>1, <3>1, <3>2
    <3>3. ASSUME r \in void[k] PROVE Recreated(p, k, r)'
      <4>1. Fresh(r, k, ok) = TRUE
        BY <2>1, <3>3 DEF Fresh, Found
      <4>2. call'[p].fresh /\ call'[p].key = k /\ call'[p].outcome = r
        BY <1>0, <3>1, <4>1 DEF CallTypeOK, Call
      <4> QED BY <2>1, <3>1, <3>3, <4>2 DEF Recreated, CallTypeOK
    <3> QED BY <2>2, <3>1, <3>2, <3>3 DEF Past, CallTypeOK
  <2>5. PICK ok \in BOOLEAN :
          IF DiskError(r, k, ok) /\ r = "overloaded"
          THEN \E okF \in BOOLEAN : SdkForget(r, k, okF) /\ hot' = WithoutHot(k, r)
          ELSE /\ mem' = [mem EXCEPT ![r] = @ \union {k}]
               /\ disk' = IF DiskError(r, k, ok) \/ k \in mem[r] THEN disk
                          ELSE [disk EXCEPT ![r] = @ \union {k}]
               /\ pc' = [pc EXCEPT ![p] = "receipt"]
               /\ call' = [call EXCEPT ![p].fresh = Fresh(r, k, ok)]
               /\ hot' = hot
    BY <1>0, <1>4 DEF CheckAndRecord
  <2> QED BY <2>3, <2>4, <2>5
<1>5. CASE Commit(p)
  <2>1. \A o \in void'[k] : o \in void[k] /\ o # r
    BY <1>0, <1>5 DEF Commit
  <2>2. \A o \in void'[k] : Clean(k, o)
    BY <1>b, <1>5, <2>1 DEF Commit, Past, Recreated
  <2>3. hot'[k] \in {r, "none"}
    BY <1>0, <1>5 DEF Commit, PutHot, HotKeys
  <2>4. mem' = mem /\ disk' = disk /\ ~Past(p)'
    BY <1>5 DEF Commit, Return, Past, CallTypeOK
  <2> QED BY <1>a, <2>1, <2>2, <2>3, <2>4 DEF Outcome
<1>6. CASE Rollback(p)
  <2>0. ~Past(p)' /\ pc[p] = "receipt"
    BY <1>6 DEF Rollback, Return, Past, CallTypeOK
  <2>1. recovery[k] = "none" /\ \A o \in void[k] : o # r => Clean(k, o)
    BY <1>0, <1>b, <2>0 DEF Past, Recreated
  <2>2. CASE ~call[p].fresh
    BY <1>b, <1>6, <2>0, <2>2 DEF Rollback, Past, Recreated
  <2>3. CASE call[p].fresh
    <3>1. PICK ok \in BOOLEAN :
            /\ SdkForget(r, k, ok)
            /\ IF ok THEN hot' = WithoutHot(k, r) /\ UNCHANGED <<recovery, poisoned>>
                     ELSE RememberFailedRollback(k, r)
      BY <1>0, <1>6, <2>3 DEF Rollback
    <3>2. \A o \in void'[k] : o = r \/ o \in void[k]
      BY <1>0, <1>6, <2>3 DEF Rollback
    <3>3. \A o \in void'[k] : o # r => Clean(k, o)'
      BY <1>0, <1>a, <2>1, <3>1, <3>2 DEF SdkForget, WithoutHot, RememberFailedRollback, Outcome
    <3>4. CASE ok
      BY <1>0, <2>0, <3>1, <3>3, <3>4 DEF SdkForget, WithoutHot, Outcome
    <3>5. CASE ~ok
      BY <1>0, <2>0, <2>1, <3>1, <3>3, <3>5 DEF RememberFailedRollback
    <3> QED BY <3>4, <3>5
  <2> QED BY <2>2, <2>3
<1>7. CASE Forget(p)
  <2>1. \A o \in void[k] : Clean(k, o)
    BY <1>c, <1>7 DEF Forget
  <2>2. ~Past(p)' /\ void' = void
    BY <1>7 DEF Forget, Return, Past, CallTypeOK
  <2> QED BY <1>0, <1>a, <1>7, <2>1, <2>2 DEF Forget, SdkForget, WithoutHot, Outcome
<1> QED BY <1>1, <1>2, <1>3, <1>4, <1>5, <1>6, <1>7 DEF OpStep

\* The inductive step of VoidInv: the key of the call by OwnKey, every other key
\* by OtherKeys.
LEMMA VoidStep ==
    ASSUME TypeOK, GateInv, VoidInv, [Next]_vars
    PROVE  VoidInv'
<1> USE DEF TypeOK
<1>1. ASSUME NEW p \in Op, OpStep(p) PROVE VoidInv'
  <2>1. PICK k \in Key : k = call[p].key
    BY <1>1, StepShape DEF CallTypeOK, Call
  <2>2. /\ Past(p)' => Strong(p, k)' /\ call'[p].key = k
        /\ ~Past(p)' => \A o \in void'[k] : poisoned' \/ recovery'[k] = o \/ Clean(k, o)'
    <3>1. Past(p)' => call'[p].key = k
      <4>1. Return(p) \/ Advance(p)
        BY <1>1, StepShape
      <4>2. CASE Return(p)
        BY <4>2 DEF Return, Past, CallTypeOK
      <4>3. CASE Advance(p)
        <5>1. call[p] \in Call
          BY <1>1, StepShape DEF CallTypeOK
        <5> QED BY <2>1, <4>3, <5>1 DEF Advance, CallTypeOK, Call
      <4> QED BY <4>1, <4>2, <4>3
    <3> QED BY <1>1, <2>1, <3>1, OwnKey
  <2>3. \A q \in Op : q # p => call'[q] = call[q] /\ pc'[q] = pc[q]
    BY <1>1, StepShape DEF Return, Advance, CallTypeOK
  <2>4. Weak(k)'
    BY <2>2 DEF Weak, Strong
  <2>5. ASSUME NEW j \in Key, j # k PROVE Weak(j)'
    <3>1. Frame(j)
      BY <1>1, <2>1, <2>5, OtherKeys
    <3>2. void[j] \subseteq Outcome
      BY DEF StoreTypeOK
    <3>3. ASSUME NEW o \in void'[j]
          PROVE  poisoned' \/ recovery'[j] = o \/ Clean(j, o)' \/ \E q \in Op : Recreated(q, j, o)'
      <4>1. o \in void[j] /\ o \in Outcome /\ o # "none"
        BY <3>1, <3>2, <3>3 DEF Frame, Outcome
      <4>2. CASE poisoned \/ recovery[j] = o
        BY <3>1, <4>2 DEF Frame
      <4>3. CASE Clean(j, o)
        BY <3>1, <4>1, <4>3 DEF Frame, Clean
      <4>4. ASSUME NEW q \in Op, Recreated(q, j, o) PROVE Recreated(q, j, o)'
        <5>1. q # p
          BY <2>1, <2>5, <4>4 DEF Recreated
        <5> QED BY <2>3, <3>1, <4>1, <4>4, <5>1 DEF Recreated, Frame
      <4> QED BY <4>1, <4>2, <4>3, <4>4 DEF VoidInv, Weak
    <3> QED BY <3>3 DEF Weak
  <2>6. ASSUME NEW q \in Op, Past(q)' PROVE Strong(q, call[q].key)'
    <3>1. CASE q = p
      BY <2>2, <2>6, <3>1
    <3>2. CASE q # p
      <4>1. Past(q) /\ call'[q] = call[q] /\ pc'[q] = pc[q]
        BY <2>3, <2>6, <3>2 DEF Past
      <4>2. PICK j \in Key : j = call[q].key
        BY <4>1 DEF Past, CallTypeOK, Call
      <4>3. j # k
        BY <1>1, <2>1, <3>2, <4>1, <4>2, StepShape DEF GateInv, OwnsGate
      <4>4. Frame(j)
        BY <1>1, <2>1, <4>3, OtherKeys
      <4>5. Strong(q, j)
        BY <4>1, <4>2 DEF VoidInv
      <4>6. void[j] \subseteq Outcome /\ "none" \notin Outcome
        BY DEF StoreTypeOK, Outcome
      <4>7. Strong(q, j)'
        BY <4>1, <4>4, <4>5, <4>6 DEF Strong, Frame, Clean, Recreated
      <4> QED BY <4>1, <4>2, <4>7
    <3> QED BY <3>1, <3>2
  <2> QED BY <2>4, <2>5, <2>6 DEF VoidInv
<1>2. ASSUME NEW p \in Op, NEW c \in Calls, Start(p, c) PROVE VoidInv'
  <2>1. \A q \in Op : q # p => call'[q] = call[q] /\ pc'[q] = pc[q]
    BY <1>2 DEF Start, CallTypeOK
  <2>2. ~Past(p) /\ ~Past(p)' /\ UNCHANGED <<store, void>>
    BY <1>2 DEF Start, Past, CallTypeOK
  <2>3. \A q \in Op, k \in Key, o \in Outcome : Recreated(q, k, o) => Recreated(q, k, o)'
    BY <2>1, <2>2 DEF Recreated, Past, store
  <2>4. \A k \in Key, o \in Outcome : Clean(k, o) => Clean(k, o)'
    BY <2>2 DEF Clean, store
  <2>5. \A k \in Key : void[k] \subseteq Outcome
    BY DEF StoreTypeOK
  <2>6. ASSUME NEW k \in Key PROVE Weak(k)'
    BY <2>2, <2>3, <2>4, <2>5 DEF VoidInv, Weak, store
  <2>7. ASSUME NEW q \in Op, Past(q)' PROVE Strong(q, call[q].key)'
    <3>1. q # p /\ Past(q) /\ call'[q] = call[q]
      BY <2>1, <2>2, <2>7 DEF Past
    <3>2. PICK j \in Key : j = call[q].key
      BY <3>1 DEF Past, CallTypeOK, Call
    <3>3. Strong(q, j)'
      BY <2>2, <2>3, <2>4, <2>5, <3>1, <3>2 DEF VoidInv, Strong, store
    <3> QED BY <3>1, <3>2, <3>3
  <2> QED BY <2>6, <2>7 DEF VoidInv
<1>3. ASSUME NEW o \in Outcome, NEW k \in Key, EvictMemory(o, k) PROVE VoidInv'
  <2>1. \A j \in Key, x \in Outcome : Clean(j, x) => Clean(j, x)'
    BY <1>3 DEF EvictMemory, Clean, StoreTypeOK
  <2>2. \A q \in Op, j \in Key, x \in Outcome : Recreated(q, j, x) => Recreated(q, j, x)'
    BY <1>3 DEF EvictMemory, Recreated
  <2>3. UNCHANGED <<poisoned, recovery, void, call, pc>> /\ \A j \in Key : void[j] \subseteq Outcome
    BY <1>3 DEF EvictMemory, StoreTypeOK
  <2>4. \A q \in Op : Past(q) => call[q].key \in Key
    BY DEF Past, CallTypeOK, Call
  <2>5. \A j \in Key : Weak(j)'
    BY <2>1, <2>2, <2>3 DEF VoidInv, Weak
  <2>6. \A q \in Op : Past(q)' => Strong(q, call[q].key)'
    BY <2>1, <2>2, <2>3, <2>4 DEF VoidInv, Strong, Past
  <2> QED BY <2>5, <2>6 DEF VoidInv
<1>4. CASE Crash
  BY <1>4 DEF Crash, VoidInv, Weak, Past
<1>5. CASE UNCHANGED vars
  BY <1>5 DEF vars, store, VoidInv, Weak, Strong, Past, Clean, Recreated
<1> QED BY <1>1, <1>2, <1>3, <1>4, <1>5 DEF Next, EnvStep

\* The hazard the quarantine, the latch and the gates exist for: no outcome whose
\* marker was rolled back is shown by peek or returned by lookup, in this
\* process, whatever the disk does and however small the caches are.
THEOREM RolledBackStaysInvisible == Spec => []NeverShown
<1>1. Init => VoidInv /\ NoRediscovery
  BY DEF Init, VoidInv, Weak, Past, NoRediscovery
<1>2. TypeOK /\ GateInv /\ VoidInv /\ [Next]_vars => VoidInv'
  BY VoidStep
<1>3. TypeOK /\ GateInv /\ VoidInv /\ NoRediscovery /\ [Next]_vars => NoRediscovery'
  <2> SUFFICES ASSUME TypeOK, GateInv, VoidInv, NoRediscovery, [Next]_vars PROVE NoRediscovery'
    OBVIOUS
  <2>1. ASSUME NEW p \in Op, LookupUnlocked(p) PROVE NoRediscovery'
    <3>1. PICK k \in Key : k = call[p].key
      BY <2>1 DEF LookupUnlocked, TypeOK, CallTypeOK, Call
    <3>2. \A o \in void[k] : Clean(k, o)
      BY <2>1, <3>1 DEF LookupUnlocked, VoidInv, Strong, Past, Recreated
    <3>3. \A o \in Outcome, ok \in BOOLEAN : Found(o, k, ok) => o \notin void[k]
      BY <3>2 DEF Found, Clean
    <3>4. found' = {} \/ \E o \in Outcome, ok \in BOOLEAN : Found(o, k, ok) /\ found' = {<<k, o>>}
      BY <2>1, <3>1 DEF LookupUnlocked, Outcome
    <3>5. void' = void
      BY <2>1 DEF LookupUnlocked
    <3> QED BY <3>3, <3>4, <3>5 DEF NoRediscovery
  <2>2. CASE found' = {}
    BY <2>2 DEF NoRediscovery
  <2>3. CASE UNCHANGED vars
    BY <2>3 DEF vars, NoRediscovery
  <2> QED BY <2>1, <2>2, <2>3 DEF Next, EnvStep, OpStep
<1>4. TypeOK /\ VoidInv => PeekSound
  BY DEF TypeOK, StoreTypeOK, VoidInv, Weak, PeekSound, Peek, Clean, Recreated, Outcome
<1>5. PeekSound /\ NoRediscovery => NeverShown
  BY DEF NeverShown
<1> QED BY <1>1, <1>2, <1>3, <1>4, <1>5, TypeCorrect, PTL DEF Spec

-----------------------------------------------------------------------------
(***************************************************************************)
(* What was answered stays recorded.                                       *)
(***************************************************************************)
\* For each key: an overload that the cache or the memory layer shows is on disk;
\* a committed outcome is in memory; and the quarantine, whose marker the next
\* call deletes, holds no committed outcome.
Lasting(k) ==
    /\ (hot[k] = "overloaded" \/ k \in mem["overloaded"]) => k \in disk["overloaded"]
    /\ \A o \in committed[k] : k \in mem[o]
    /\ recovery[k] \notin committed[k]

\* What an unsettled receipt vouches for: if it is committed, its overload is on
\* disk; if it is rolled back, what it deletes was never committed.
Vouched(p) ==
    pc[p] = "receipt" =>
        /\ call[p].outcome = "overloaded" => call[p].key \in disk["overloaded"]
        /\ call[p].fresh => call[p].outcome \notin committed[call[p].key]

LastInv == (\A k \in Key : Lasting(k)) /\ (\A p \in Op : Vouched(p))

\* A step of a call keeps its own key and its own receipt in order.
LEMMA OwnLast ==
    ASSUME TypeOK, GateInv, VoidInv, LastInv, NEW p \in Op, OpStep(p),
           NEW k \in Key, k = call[p].key
    PROVE  Lasting(k)' /\ Vouched(p)'
<1> USE DEF TypeOK, StoreTypeOK
<1>r. PICK r \in Outcome : r = call[p].outcome
  BY StepShape DEF CallTypeOK, Call
<1>0. pc[p] # "idle" /\ pc[p] \in Pc /\ call[p] \in Call
  BY StepShape DEF CallTypeOK
<1>a. /\ (hot[k] = "overloaded" \/ k \in mem["overloaded"]) => k \in disk["overloaded"]
      /\ \A o \in committed[k] : k \in mem[o]
      /\ recovery[k] \notin committed[k]
      /\ committed[k] \subseteq Outcome
  BY DEF LastInv, Lasting
<1>b. Past(p) => recovery[k] = "none"
  BY DEF VoidInv, Strong
<1>c. pc[p] = "receipt" => /\ r = "overloaded" => k \in disk["overloaded"]
                           /\ call[p].fresh => r \notin committed[k]
  BY <1>r DEF LastInv, Vouched
<1>d. "overloaded" \in Outcome /\ "accepted" \in Outcome /\ "none" \notin Outcome
  BY DEF Outcome
<1>e. Return(p) => Vouched(p)'
  BY DEF Return, Vouched, CallTypeOK
<1>h. \A o \in Outcome : PutHot(k, o) => hot'[k] \in {o, "none"}
  BY DEF PutHot, HotKeys
<1>1. CASE LookupUnlocked(p)
  <2>1. Return(p) /\ recovery' = recovery
    BY <1>1 DEF LookupUnlocked
  <2>2. recovery[k] = "none"
    BY <1>b, <1>1 DEF LookupUnlocked, Past
  <2>3. committed'[k] \subseteq committed[k]
    BY <1>1 DEF LookupUnlocked
  <2>4. k \in mem'["overloaded"] \/ hot'[k] = "overloaded" => k \in disk'["overloaded"]
    <3>1. k \in mem'["overloaded"] => k \in disk["overloaded"]
      BY <1>a, <1>d, <1>1 DEF LookupUnlocked, Found
    <3>2. hot'[k] = "overloaded" => k \in disk["overloaded"]
      BY <1>a, <1>d, <1>h, <1>1 DEF LookupUnlocked, Found
    <3>3. disk'["overloaded"] = disk["overloaded"]
      BY <1>d, <1>1 DEF LookupUnlocked
    <3> QED BY <3>1, <3>2, <3>3
  <2>5. \A o \in committed'[k] : k \in mem'[o]
    BY <1>a, <1>d, <1>1 DEF LookupUnlocked, Outcome
  <2> QED BY <1>a, <1>d, <1>e, <2>1, <2>2, <2>3, <2>4, <2>5 DEF Lasting
<1>2. CASE Recover(p)
  <2>1. committed' = committed /\ pc'[p] # "receipt"
    BY <1>2 DEF Recover, Return, CallTypeOK
  <2>2. CASE UNCHANGED store
    BY <1>a, <2>1, <2>2 DEF store, Lasting, Vouched
  <2>3. CASE ~UNCHANGED store
    <3>1. PICK o \in Outcome, ok \in BOOLEAN :
            /\ o = recovery[k] /\ SdkForget(o, k, ok)
            /\ IF ok
               THEN /\ recovery' = [recovery EXCEPT ![k] = "none"]
                    /\ hot' = WithoutHot(k, o)
               ELSE UNCHANGED <<recovery, hot>>
      BY <1>2, <2>3 DEF Recover
    <3>2. o \notin committed[k]
      BY <1>a, <3>1
    <3>3. \A x \in committed[k] : k \in mem'[x]
      BY <1>a, <3>1, <3>2 DEF SdkForget
    <3>4. (hot'[k] = "overloaded" \/ k \in mem'["overloaded"]) => k \in disk'["overloaded"]
      BY <1>a, <1>d, <3>1 DEF SdkForget, WithoutHot
    <3>5. recovery'[k] \notin committed[k]
      BY <1>a, <1>d, <3>1
    <3> QED BY <2>1, <3>3, <3>4, <3>5 DEF Lasting, Vouched
  <2> QED BY <2>2, <2>3
<1>3. CASE Replace(p)
  <2>1. pc'[p] # "receipt" /\ recovery' = recovery
    BY <1>3 DEF Replace, Return, CallTypeOK
  <2>2. CASE UNCHANGED <<mem, disk, hot, committed>>
    BY <1>a, <2>1, <2>2 DEF Lasting, Vouched
  <2>3. CASE ~UNCHANGED <<mem, disk, hot, committed>>
    <3>1. PICK o \in Outcome, ok \in BOOLEAN :
            /\ SdkForget(o, k, ok)
            /\ committed' = [committed EXCEPT ![k] = @ \ {o}]
            /\ hot' = IF ok THEN [hot EXCEPT ![k] = "none"] ELSE hot
      <4>1. Opposite(r) \in Outcome
        BY DEF Opposite, Outcome
      <4> QED BY <1>r, <1>3, <2>3, <4>1 DEF Replace
    <3>2. \A x \in committed'[k] : k \in mem'[x]
      BY <1>a, <3>1 DEF SdkForget
    <3>3. (hot'[k] = "overloaded" \/ k \in mem'["overloaded"]) => k \in disk'["overloaded"]
      BY <1>a, <1>d, <3>1 DEF SdkForget
    <3>4. committed'[k] \subseteq committed[k]
      BY <3>1
    <3> QED BY <1>a, <2>1, <3>2, <3>3, <3>4 DEF Lasting, Vouched
  <2> QED BY <2>2, <2>3
<1>4. CASE CheckAndRecord(p)
  <2>1. recovery' = recovery
    BY <1>4 DEF CheckAndRecord
  <2>2. PICK ok \in BOOLEAN :
          IF DiskError(r, k, ok) /\ r = "overloaded"
          THEN /\ \E okF \in BOOLEAN : SdkForget(r, k, okF)
               /\ hot' = WithoutHot(k, r)
               /\ committed' = [committed EXCEPT ![k] = @ \ {r}]
               /\ Return(p)
          ELSE /\ mem' = [mem EXCEPT ![r] = @ \union {k}]
               /\ disk' = IF DiskError(r, k, ok) \/ k \in mem[r] THEN disk
                          ELSE [disk EXCEPT ![r] = @ \union {k}]
               /\ pc' = [pc EXCEPT ![p] = "receipt"]
               /\ call' = [call EXCEPT ![p].fresh = Fresh(r, k, ok)]
               /\ hot' = hot /\ committed' = committed
    BY <1>r, <1>4 DEF CheckAndRecord
  <2>3. CASE DiskError(r, k, ok) /\ r = "overloaded"
    <3>1. \A x \in committed'[k] : k \in mem'[x]
      BY <1>a, <2>2, <2>3 DEF SdkForget
    <3>2. (hot'[k] = "overloaded" \/ k \in mem'["overloaded"]) => k \in disk'["overloaded"]
      BY <1>a, <1>d, <2>2, <2>3 DEF SdkForget, WithoutHot
    <3>3. committed'[k] \subseteq committed[k] /\ Return(p)
      BY <2>2, <2>3
    <3> QED BY <1>a, <1>e, <2>1, <3>1, <3>2, <3>3 DEF Lasting
  <2>4. CASE ~(DiskError(r, k, ok) /\ r = "overloaded")
    <3>1. \A x \in committed[k] : k \in mem'[x]
      BY <1>a, <2>2, <2>4
    <3>2. k \in mem'["overloaded"] => k \in disk'["overloaded"]
      BY <1>a, <1>d, <2>2, <2>4 DEF DiskError
    <3>3. disk["overloaded"] \subseteq disk'["overloaded"] /\ hot' = hot /\ committed' = committed
      BY <1>d, <2>2, <2>4
    <3>4. k \in mem'[r]
      BY <2>2, <2>4
    <3>5. call'[p].fresh = Fresh(r, k, ok) /\ call'[p].key = k /\ call'[p].outcome = r
      BY <1>r, <1>0, <2>2, <2>4 DEF CallTypeOK, Call
    <3>6. Fresh(r, k, ok) => r \notin committed[k]
      BY <1>a DEF Fresh, Found
    <3>7. Vouched(p)'
      BY <3>2, <3>3, <3>4, <3>5, <3>6 DEF Vouched
    <3>8. Lasting(k)'
      BY <1>a, <2>1, <3>1, <3>2, <3>3 DEF Lasting
    <3> QED BY <3>7, <3>8
  <2> QED BY <2>3, <2>4
<1>5. CASE Commit(p)
  <2>1. mem' = mem /\ disk' = disk /\ recovery' = recovery /\ Return(p) /\ PutHot(k, r)
    BY <1>r, <1>5 DEF Commit
  <2>2. recovery[k] = "none"
    BY <1>b, <1>5 DEF Commit, Past
  <2>3. committed'[k] \subseteq Outcome /\ \A o \in committed'[k] : k \in mem[o]
    BY <1>r, <1>a, <1>5 DEF Commit
  <2>4. hot'[k] = "overloaded" => k \in disk["overloaded"]
    BY <1>c, <1>d, <1>h, <1>5, <2>1 DEF Commit
  <2> QED BY <1>a, <1>d, <1>e, <2>1, <2>2, <2>3, <2>4 DEF Lasting
<1>6. CASE Rollback(p)
  <2>1. committed' = committed /\ Return(p) /\ pc[p] = "receipt"
    BY <1>6 DEF Rollback
  <2>2. CASE ~call[p].fresh
    BY <1>a, <1>e, <1>6, <2>1, <2>2 DEF Rollback, Lasting
  <2>3. CASE call[p].fresh
    <3>1. PICK ok \in BOOLEAN :
            /\ SdkForget(r, k, ok)
            /\ IF ok THEN hot' = WithoutHot(k, r) /\ UNCHANGED <<recovery, poisoned>>
                     ELSE RememberFailedRollback(k, r)
      BY <1>r, <1>6, <2>3 DEF Rollback
    <3>2. r \notin committed[k]
      BY <1>c, <2>1, <2>3
    <3>3. \A x \in committed[k] : k \in mem'[x]
      BY <1>a, <3>1, <3>2 DEF SdkForget
    <3>4. hot' = WithoutHot(k, r)
      BY <3>1 DEF RememberFailedRollback
    <3>5. (hot'[k] = "overloaded" \/ k \in mem'["overloaded"]) => k \in disk'["overloaded"]
      BY <1>a, <1>d, <3>1, <3>4 DEF SdkForget, WithoutHot
    <3>6. recovery'[k] \notin committed[k]
      BY <1>a, <3>1, <3>2 DEF RememberFailedRollback
    <3> QED BY <1>e, <2>1, <3>3, <3>5, <3>6 DEF Lasting
  <2> QED BY <2>2, <2>3
<1>7. CASE Forget(p)
  <2>1. PICK ok \in BOOLEAN : SdkForget(r, k, ok)
    BY <1>r, <1>7 DEF Forget
  <2>2. /\ hot' = WithoutHot(k, r) /\ committed' = [committed EXCEPT ![k] = @ \ {r}]
        /\ Return(p) /\ recovery' = recovery
    BY <1>r, <1>7 DEF Forget
  <2>3. \A x \in committed'[k] : k \in mem'[x]
    BY <1>a, <2>1, <2>2 DEF SdkForget
  <2>4. (hot'[k] = "overloaded" \/ k \in mem'["overloaded"]) => k \in disk'["overloaded"]
    BY <1>a, <1>d, <2>1, <2>2 DEF SdkForget, WithoutHot
  <2> QED BY <1>a, <1>e, <2>2, <2>3, <2>4 DEF Lasting
<1> QED BY <1>1, <1>2, <1>3, <1>4, <1>5, <1>6, <1>7 DEF OpStep

\* The inductive step of LastInv.
LEMMA LastStep ==
    ASSUME TypeOK, GateInv, VoidInv, LastInv, [Next]_vars
    PROVE  LastInv'
<1> USE DEF TypeOK
<1>1. ASSUME NEW p \in Op, OpStep(p) PROVE LastInv'
  <2>1. PICK k \in Key : k = call[p].key
    BY <1>1, StepShape DEF CallTypeOK, Call
  <2>2. Lasting(k)' /\ Vouched(p)'
    BY <1>1, <2>1, OwnLast
  <2>3. ASSUME NEW j \in Key, j # k PROVE Lasting(j)'
    <3>1. Frame(j) /\ Lasting(j) /\ committed[j] \subseteq Outcome /\ "overloaded" \in Outcome
      BY <1>1, <2>1, <2>3, OtherKeys DEF LastInv, StoreTypeOK, Outcome
    <3> QED BY <3>1 DEF Lasting, Frame
  <2>4. ASSUME NEW q \in Op, q # p, pc'[q] = "receipt" PROVE Vouched(q)'
    <3>1. call'[q] = call[q] /\ pc'[q] = pc[q]
      BY <1>1, <2>4, StepShape DEF Return, Advance, CallTypeOK
    <3>2. PICK j \in Key : j = call[q].key
      BY <2>4, <3>1 DEF CallTypeOK, Call
    <3>3. j # k
      BY <1>1, <2>1, <2>4, <3>1, <3>2, StepShape DEF GateInv, OwnsGate, Past
    <3>4. Frame(j) /\ Vouched(q) /\ "overloaded" \in Outcome
      BY <1>1, <2>1, <3>3, OtherKeys DEF LastInv, Outcome
    <3> QED BY <2>4, <3>1, <3>2, <3>4 DEF Vouched, Frame
  <2>5. \A q \in Op : Vouched(q)'
    BY <2>2, <2>4 DEF Vouched
  <2> QED BY <2>2, <2>3, <2>5 DEF LastInv
<1>2. ASSUME NEW p \in Op, NEW c \in Calls, Start(p, c) PROVE LastInv'
  <2>1. UNCHANGED <<store, committed>> /\ pc'[p] = "queued"
    BY <1>2 DEF Start, CallTypeOK
  <2>2. \A q \in Op : q # p => call'[q] = call[q] /\ pc'[q] = pc[q]
    BY <1>2 DEF Start, CallTypeOK
  <2>3. \A k \in Key : Lasting(k)'
    BY <2>1 DEF LastInv, Lasting, store
  <2>4. \A q \in Op : Vouched(q)'
    BY <2>1, <2>2 DEF LastInv, Vouched, store
  <2> QED BY <2>3, <2>4 DEF LastInv
<1>3. ASSUME NEW o \in Outcome, NEW k \in Key, EvictMemory(o, k) PROVE LastInv'
  <2>1. /\ mem' = [mem EXCEPT ![o] = @ \ {k}]
        /\ committed' = [committed EXCEPT ![k] = @ \ {o}]
        /\ UNCHANGED <<disk, hot, recovery, call, pc>>
    BY <1>3 DEF EvictMemory
  <2>2. "overloaded" \in Outcome /\ \A j \in Key : committed[j] \subseteq Outcome
    BY DEF Outcome, StoreTypeOK
  <2>3. \A j \in Key : committed'[j] \subseteq committed[j]
    BY <2>1 DEF StoreTypeOK
  <2>4. ASSUME NEW j \in Key PROVE Lasting(j)'
    <3>1. \A x \in committed'[j] : j \in mem'[x]
      BY <2>1, <2>2 DEF LastInv, Lasting, StoreTypeOK
    <3>2. j \in mem'["overloaded"] => j \in mem["overloaded"]
      BY <2>1, <2>2 DEF StoreTypeOK
    <3> QED BY <2>1, <2>3, <3>1, <3>2 DEF LastInv, Lasting
  <2>5. ASSUME NEW q \in Op, pc[q] = "receipt" PROVE Vouched(q)'
    <3>1. call[q].key \in Key /\ Vouched(q)
      BY <2>5 DEF LastInv, CallTypeOK, Call
    <3> QED BY <2>1, <2>3, <3>1 DEF Vouched
  <2>6. \A q \in Op : Vouched(q)'
    BY <2>1, <2>5 DEF Vouched
  <2> QED BY <2>4, <2>6 DEF LastInv
<1>4. CASE Crash
  BY <1>4 DEF Crash, LastInv, Lasting, Vouched, Outcome
<1>5. CASE UNCHANGED vars
  BY <1>5 DEF vars, store, LastInv, Lasting, Vouched
<1> QED BY <1>1, <1>2, <1>3, <1>4, <1>5 DEF Next, EnvStep

\* What was answered lasts: an overload that any reader can see is on disk, so it
\* survives a restart, and a committed outcome is taken away neither by the
\* rollback of another call for the same message nor by the clean-up of an
\* earlier failed rollback, however the disk fails in between.
THEOREM WhatWasAnsweredLasts == Spec => []AnswersLast
<1>1. Init => VoidInv /\ LastInv
  <2> SUFFICES ASSUME Init PROVE VoidInv /\ LastInv
    OBVIOUS
  <2>1. VoidInv
    BY DEF Init, VoidInv, Weak, Past
  <2>2. LastInv
    BY DEF Init, LastInv, Lasting, Vouched, Outcome
  <2> QED BY <2>1, <2>2
<1>2. TypeOK /\ GateInv /\ (VoidInv /\ LastInv) /\ [Next]_vars => (VoidInv /\ LastInv)'
  BY VoidStep, LastStep
<1>3. LastInv => AnswersLast
  BY DEF LastInv, Lasting, AnswersLast, OverloadedIsDurable, CommittedSurvives
<1> QED BY <1>1, <1>2, <1>3, TypeCorrect, PTL DEF Spec
=============================================================================
