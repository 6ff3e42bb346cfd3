--------------------------- MODULE Requests_proofs ---------------------------
(***************************************************************************)
(* Proofs about Requests: types, the trace that changes leave in the audit *)
(* log, what may be lost from the log, the accounting of requests, the     *)
(* permission matrix, and the bound the login throttle keeps.              *)
(***************************************************************************)
EXTENDS Requests, FiniteSetTheorems, WellFoundedInduction, TLAPS

USE RequestsAssumption

-------------------------------------------------------------------------------
(* Sizes of sets *)

\* What one more element does to the size of a finite set.
LEMMA OneMore ==
    ASSUME NEW S, IsFiniteSet(S), NEW x
    PROVE  /\ IsFiniteSet(S \cup {x})
           /\ Cardinality(S) \in Nat
           /\ Cardinality(S \cup {x}) \in Nat
           /\ Cardinality(S \cup {x}) <= Cardinality(S) + 1
           /\ Cardinality(S) <= Cardinality(S \cup {x})
           /\ x \notin S => Cardinality(S \cup {x}) = Cardinality(S) + 1
<1>1. IsFiniteSet(S \cup {x}) /\ Cardinality(S) \in Nat
  BY FS_AddElement, FS_CardinalityType
<1>2. Cardinality(S \cup {x}) = IF x \in S THEN Cardinality(S) ELSE Cardinality(S) + 1
  BY FS_AddElement
<1> QED
  BY <1>1, <1>2

\* What one element less does.
LEMMA OneLess ==
    ASSUME NEW S, IsFiniteSet(S), NEW x \in S
    PROVE  /\ IsFiniteSet(S \ {x})
           /\ Cardinality(S) \in Nat
           /\ Cardinality(S \ {x}) \in Nat
           /\ Cardinality(S \ {x}) = Cardinality(S) - 1
<1>1. IsFiniteSet(S \ {x}) /\ Cardinality(S \ {x}) = Cardinality(S) - 1
  BY FS_RemoveElement
<1>2. Cardinality(S) \in Nat /\ Cardinality(S \ {x}) \in Nat
  BY <1>1, FS_CardinalityType
<1> QED
  BY <1>1, <1>2

\* A part of a finite set is finite and no larger.
LEMMA Part ==
    ASSUME NEW S, IsFiniteSet(S), NEW T, T \subseteq S
    PROVE  /\ IsFiniteSet(T)
           /\ Cardinality(T) \in Nat
           /\ Cardinality(S) \in Nat
           /\ Cardinality(T) <= Cardinality(S)
<1>1. T \in SUBSET S
  OBVIOUS
<1>2. IsFiniteSet(T) /\ Cardinality(T) <= Cardinality(S)
  BY <1>1, FS_Subset
<1> QED
  BY <1>2, FS_CardinalityType

-------------------------------------------------------------------------------
(* Threads and their requests *)

\* What a request in hand looks like, by its stage.
LEMMA RequestParts ==
    ASSUME TypeOK, NEW t \in Thread, serving[t] # Idle
    PROVE  /\ serving[t] \in Request
           /\ serving[t].n \in 1..requests
           /\ At(t, "acting") => /\ serving[t].user \in User
                                 /\ serving[t].role \in Role
                                 /\ serving[t].route \in Route
           /\ (At(t, "verifying") \/ At(t, "failed") \/ At(t, "clearing"))
                 => serving[t].user \in User
<1>1. serving[t] \in Request
  BY DEF TypeOK
<1>2. serving[t].n \in 1..requests
  BY DEF TypeOK, Busy
<1>3. At(t, "acting") => /\ serving[t].user \in User
                         /\ serving[t].role \in Role
                         /\ serving[t].route \in Route
  BY <1>1 DEF At, Request
<1>4. (At(t, "verifying") \/ At(t, "failed") \/ At(t, "clearing")) => serving[t].user \in User
  BY <1>1 DEF At, Request
<1> QED
  BY <1>1, <1>2, <1>3, <1>4

\* A thread that goes on, or ends, leaves the other threads alone.
LEMMA GoesType ==
    ASSUME TypeOK, NEW t \in Thread, serving[t] # Idle,
           NEW stage \in {"entering", "recording", "reporting", "erring"}, Goes(t, stage)
    PROVE  /\ serving' \in [Thread -> Request \cup {Idle}]
           /\ \A s \in Thread : serving'[s] # Idle =>
                 serving[s] # Idle /\ serving'[s].n = serving[s].n
           /\ \A s \in Thread : serving[s] # Idle =>
                 serving'[s] # Idle /\ serving'[s].n = serving[s].n
           /\ serving'[t] = [stage |-> stage, n |-> serving[t].n]
           /\ \A s \in Thread \ {t} : serving'[s] = serving[s]
<1>1. serving[t].n \in Nat
  BY RequestParts DEF TypeOK
<1>2. [stage |-> stage, n |-> serving[t].n] \in Request
  BY <1>1 DEF Request
<1>3. serving \in [Thread -> Request \cup {Idle}]
  BY DEF TypeOK
<1>4. /\ serving'[t] = [stage |-> stage, n |-> serving[t].n]
      /\ \A s \in Thread \ {t} : serving'[s] = serving[s]
  BY <1>3 DEF Goes
<1> QED
  BY <1>2, <1>3, <1>4 DEF Goes

\* Where the thread is then.
LEMMA GoesAt ==
    ASSUME TypeOK, NEW t \in Thread, serving[t] # Idle,
           NEW stage \in {"entering", "recording", "reporting", "erring"}, Goes(t, stage)
    PROVE  /\ serving'[t] # Idle
           /\ serving'[t].stage = stage
           /\ serving'[t].n = serving[t].n
           /\ \A s \in Thread \ {t} : serving'[s] = serving[s]
<1>1. serving'[t] # Idle
  BY GoesType
<1>2. serving'[t] = [stage |-> stage, n |-> serving[t].n]
  BY GoesType
<1>3. \A s \in Thread \ {t} : serving'[s] = serving[s]
  BY GoesType
<1> QED
  BY <1>1, <1>2, <1>3

\* The same of a request that ends.
LEMMA EndsType ==
    ASSUME TypeOK, NEW t \in Thread, Ends(t)
    PROVE  /\ serving' \in [Thread -> Request \cup {Idle}]
           /\ serving'[t] = Idle
           /\ \A s \in Thread \ {t} : serving'[s] = serving[s]
BY DEF TypeOK, Ends

\* The log and the history of its entries keep their types, whatever is recorded.
LEMMA RecordType ==
    ASSUME TypeOK, Record
    PROVE  /\ log' \subseteq written'
           /\ written' \subseteq Entry
           /\ IsFiniteSet(written')
           /\ Cardinality(log') <= MaxLogs
           /\ recorded' \in Nat
<1>1. NewEntry \in Entry
  BY DEF NewEntry, Entry, TypeOK
<1>2. written' = written \cup {NewEntry} /\ recorded' = recorded + 1
  BY DEF Record, Counted
<1>3. IsFiniteSet(written')
  BY <1>2, OneMore DEF TypeOK
<1>4. IsFiniteSet(log)
  BY Part DEF TypeOK
<1>5. Cardinality(log \cup {NewEntry}) <= Cardinality(log) + 1 /\ Cardinality(log) \in Nat
  BY <1>4, OneMore
<1>6. CASE Cardinality(log) < MaxLogs
  <2>1. log' = log \cup {NewEntry}
    BY <1>6 DEF Record
  <2>2. Cardinality(log') \in Nat
    BY <1>4, <2>1, OneMore
  <2>3. Cardinality(log') <= MaxLogs
    BY <1>5, <1>6, <2>1, <2>2
  <2>4. log' \subseteq written' /\ written' \subseteq Entry /\ recorded' \in Nat
    BY <1>1, <1>2, <2>1 DEF TypeOK
  <2> QED
    BY <1>3, <2>3, <2>4
<1>7. CASE ~(Cardinality(log) < MaxLogs)
  <2>1. PICK old \in log : log' = (log \ {old}) \cup {NewEntry}
    BY <1>7 DEF Record
  <2>2. IsFiniteSet(log \ {old}) /\ Cardinality(log \ {old}) = Cardinality(log) - 1
    BY <1>4, OneLess
  <2>3. Cardinality(log') <= Cardinality(log \ {old}) + 1 /\ Cardinality(log') \in Nat
    BY <2>1, <2>2, OneMore
  <2>4. Cardinality(log') <= MaxLogs
    BY <1>5, <2>2, <2>3 DEF TypeOK
  <2>5. log' \subseteq written' /\ written' \subseteq Entry /\ recorded' \in Nat
    BY <1>1, <1>2, <2>1 DEF TypeOK
  <2> QED
    BY <1>3, <2>4, <2>5
<1> QED
  BY <1>6, <1>7

-------------------------------------------------------------------------------
(* Types *)

\* What remains to be shown of a step that keeps the accounts, the throttle and the clock.
LEMMA Kept ==
    ASSUME TypeOK, UNCHANGED <<accounts, throttle, now, faults, requests>>,
           serving' \in [Thread -> Request \cup {Idle}],
           \A t \in Thread : serving'[t] # Idle => serving'[t].n \in 1..requests,
           log' \subseteq written', written' \subseteq Entry, IsFiniteSet(written'),
           Cardinality(log') <= MaxLogs,
           recorded' \in Nat, errors' \in Nat, answered' \in Nat,
           made' \subseteq 1..requests, told' \subseteq 1..requests, cut' \subseteq 1..requests
    PROVE  TypeOK'
<1>1. UNCHANGED <<role, since, failures, until, now, faults, requests>>
  BY DEF accounts, throttle
<1>2. \A t \in Busy' : serving'[t].n \in 1..requests'
  BY <1>1 DEF Busy
<1>3. \A u \in User : \A f \in failures'[u] : f.at <= now' /\ f.n \in 1..requests'
  BY <1>1 DEF TypeOK
<1> QED
  BY <1>1, <1>2, <1>3 DEF TypeOK

\* The steps that every kind of request can take keep the types.
LEMMA TypeEndStep ==
    ASSUME TypeOK, NEW t \in Thread, EndStep(t)
    PROVE  TypeOK'
<1>1. CASE Report(t)
  <2>1. serving[t] # Idle /\ Record /\ Goes(t, "erring")
    BY <1>1 DEF Report, At
  <2>2. UNCHANGED <<accounts, throttle, now, faults, requests, errors, answered, made, told, cut>>
    BY <1>1 DEF Report, counters, changes
  <2>3. \A s \in Thread : serving'[s] # Idle => serving'[s].n \in 1..requests
    BY <2>1, GoesType, RequestParts
  <2> QED
    BY <2>1, <2>2, <2>3, GoesType, RecordType, Kept DEF TypeOK
<1>2. CASE AnswerError(t)
  <2>1. serving[t] # Idle /\ Ends(t) /\ errors' = errors + 1
    BY <1>2 DEF AnswerError, At
  <2>2. UNCHANGED <<accounts, throttle, now, faults, requests, log, written, recorded, answered,
                    made, told, cut>>
    BY <1>2 DEF AnswerError, changes, audit
  <2>3. \A s \in Thread : serving'[s] # Idle => serving'[s].n \in 1..requests
    BY <2>1, EndsType, RequestParts
  <2> QED
    BY <2>1, <2>2, <2>3, EndsType, Kept DEF TypeOK
<1>3. CASE RecordChange(t)
  <2>1. /\ serving[t] # Idle /\ Ends(t) /\ Record
        /\ answered' = answered + 1 /\ told' = told \cup {serving[t].n}
    BY <1>3 DEF RecordChange, At
  <2>2. UNCHANGED <<accounts, throttle, now, faults, requests, errors, made, cut>>
    BY <1>3 DEF RecordChange
  <2>3. /\ \A s \in Thread : serving'[s] # Idle => serving'[s].n \in 1..requests
        /\ serving[t].n \in 1..requests
    BY <2>1, EndsType, RequestParts
  <2>4. /\ made' \subseteq 1..requests /\ told' \subseteq 1..requests /\ cut' \subseteq 1..requests
        /\ errors' \in Nat /\ answered' \in Nat
    <3>1. /\ made \subseteq 1..requests /\ told \subseteq 1..requests /\ cut \subseteq 1..requests
          /\ errors \in Nat /\ answered \in Nat
      BY DEF TypeOK
    <3>2. told' = told \cup {serving[t].n} /\ answered' = answered + 1
      BY <2>1
    <3>3. made' = made /\ cut' = cut /\ errors' = errors
      BY <2>2
    <3>4. serving[t].n \in 1..requests
      BY <2>3
    <3>5. told' \subseteq 1..requests
      BY Zenon, <3>1, <3>2, <3>4
    <3>6. made' \subseteq 1..requests /\ cut' \subseteq 1..requests
      BY Zenon, <3>1, <3>3
    <3>7. errors' \in Nat /\ answered' \in Nat
      BY <3>1, <3>2, <3>3
    <3> QED
      BY <3>5, <3>6, <3>7
  <2>5. serving' \in [Thread -> Request \cup {Idle}]
    BY <2>1, EndsType
  <2>6. UNCHANGED <<accounts, throttle, now, faults, requests>>
    BY <2>2
  <2> QED
    BY <2>1, <2>3, <2>4, <2>5, <2>6, RecordType, Kept
<1> QED
  BY <1>1, <1>2, <1>3 DEF EndStep

\* So do the steps of a principal's request.
LEMMA TypePrincipalStep ==
    ASSUME TypeOK, NEW t \in Thread, PrincipalStep(t)
    PROVE  TypeOK'
<1>1. CASE Authenticate(t)
  <2>1. serving[t] # Idle
    BY <1>1 DEF Authenticate, At
  <2>2. UNCHANGED <<accounts, throttle, now, faults, requests, errors, answered, log, written,
                    recorded, made, told, cut>>
    BY <1>1 DEF Authenticate, counters, changes, audit
  <2>3. CASE Goes(t, "reporting")
    <3>1. \A s \in Thread : serving'[s] # Idle => serving'[s].n \in 1..requests
      BY <2>1, <2>3, GoesType, RequestParts
    <3> QED
      BY <2>1, <2>2, <2>3, <3>1, GoesType, Kept DEF TypeOK
  <2>4. ASSUME NEW u \in User, NEW route \in Route,
               serving' = [serving EXCEPT ![t] = [stage |-> "acting", n |-> serving[t].n,
                              user |-> u, role |-> role[u], route |-> route]]
        PROVE  TypeOK'
    <3> DEFINE q == [stage |-> "acting", n |-> serving[t].n, user |-> u, role |-> role[u],
                     route |-> route]
    <3>1. serving[t].n \in 1..requests /\ serving[t].n \in Nat /\ role[u] \in Role
      BY <2>1, RequestParts DEF TypeOK
    <3>2. q \in Request /\ q.n = serving[t].n
      BY <3>1 DEF Request
    <3> HIDE DEF q
    <3>3. /\ serving' \in [Thread -> Request \cup {Idle}]
          /\ \A s \in Thread : serving'[s] # Idle => serving'[s].n \in 1..requests
      BY <2>4, <3>1, <3>2, RequestParts DEF q, TypeOK
    <3> QED
      BY <2>2, <3>3, Kept DEF TypeOK
  <2>5. \/ Goes(t, "reporting")
        \/ \E u \in User, route \in Route :
              serving' = [serving EXCEPT ![t] = [stage |-> "acting", n |-> serving[t].n,
                             user |-> u, role |-> role[u], route |-> route]]
    BY <1>1 DEF Authenticate
  <2> QED
    BY <2>3, <2>4, <2>5
<1>2. CASE Read(t)
  <2>1. serving[t] # Idle /\ Ends(t) /\ answered' = answered + 1
    BY <1>2 DEF Read, At
  <2>2. UNCHANGED <<accounts, throttle, now, faults, requests, errors, log, written, recorded,
                    made, told, cut>>
    BY <1>2 DEF Read, changes, audit
  <2>3. \A s \in Thread : serving'[s] # Idle => serving'[s].n \in 1..requests
    BY <2>1, EndsType, RequestParts
  <2> QED
    BY <2>1, <2>2, <2>3, EndsType, Kept DEF TypeOK
<1>3. CASE Reject(t)
  <2>1. serving[t] # Idle /\ Goes(t, "reporting")
    BY <1>3 DEF Reject, At
  <2>2. UNCHANGED <<accounts, throttle, now, faults, requests, errors, answered, log, written,
                    recorded, made, told, cut>>
    BY <1>3 DEF Reject, counters, changes, audit
  <2>3. \A s \in Thread : serving'[s] # Idle => serving'[s].n \in 1..requests
    BY <2>1, GoesType, RequestParts
  <2> QED
    BY <2>1, <2>2, <2>3, GoesType, Kept DEF TypeOK
<1>4. CASE Act(t)
  <2>1. serving[t] # Idle /\ Goes(t, "recording") /\ made' = made \cup {serving[t].n}
    BY <1>4 DEF Act, At, Makes
  <2>2. UNCHANGED <<throttle, now, faults, requests, errors, answered, written, recorded, told, cut>>
    BY <1>4 DEF Act, counters
  <2>3. /\ \A s \in Thread : serving'[s] # Idle => serving'[s].n \in 1..requests
        /\ serving[t].n \in 1..requests
    BY <2>1, GoesType, RequestParts
  <2>4. log' \subseteq log
    BY <1>4 DEF Act, Cleans
  <2>5. IsFiniteSet(log) /\ Cardinality(log') <= MaxLogs
    <3>1. IsFiniteSet(log) /\ Cardinality(log) <= MaxLogs
      BY Part DEF TypeOK
    <3> QED
      BY <2>4, <3>1, Part
  <2>6. role' \in [User -> Role] /\ since' \in [User -> 0..requests']
    <3>1. CASE SetsRole
      <4>1. PICK u \in User, r \in Given : /\ role' = [role EXCEPT ![u] = r]
                                           /\ since' = [since EXCEPT ![u] = requests]
        BY <3>1 DEF SetsRole
      <4> QED
        BY <2>2, <4>1 DEF TypeOK
    <3>2. CASE UNCHANGED accounts
      BY <2>2, <3>2 DEF accounts, TypeOK
    <3> QED
      BY <1>4, <3>1, <3>2 DEF Act
  <2>7. \A s \in Busy' : serving'[s].n \in 1..requests'
    BY <2>2, <2>3 DEF Busy
  <2>8. \A u \in User : \A f \in failures'[u] : f.at <= now' /\ f.n \in 1..requests'
    BY <2>2 DEF throttle, TypeOK
  <2> QED
    BY <2>1, <2>2, <2>3, <2>4, <2>5, <2>6, <2>7, <2>8, GoesType DEF throttle, TypeOK
<1> QED
  BY <1>1, <1>2, <1>3, <1>4 DEF PrincipalStep

\* So do the steps of a login.
LEMMA TypeLoginStep ==
    ASSUME TypeOK, NEW t \in Thread, LoginStep(t)
    PROVE  TypeOK'
<1>1. /\ serving[t] # Idle /\ UNCHANGED <<accounts, audit, counters, now, faults, told, cut>>
      /\ serving[t] \in Request /\ serving[t].n \in 1..requests
  <2>1. serving[t] # Idle /\ UNCHANGED <<accounts, audit, counters, now, faults, told, cut>>
    BY DEF LoginStep, Admit, Verify, RecordFailed, ClearFailed, At, changes
  <2> QED
    BY <2>1, RequestParts
<1>2. UNCHANGED <<role, since, log, recorded, written, requests, errors, answered, now, faults,
                  told, cut>>
  BY <1>1 DEF accounts, audit, counters
<1>3. made' \subseteq 1..requests
  BY <1>1 DEF LoginStep, Admit, Verify, RecordFailed, ClearFailed, changes, Makes, TypeOK
<1>4. /\ serving' \in [Thread -> Request \cup {Idle}]
      /\ \A s \in Thread : serving'[s] # Idle => serving'[s].n \in 1..requests
  <2>1. CASE \E stage \in {"recording", "reporting"} : Goes(t, stage)
    BY <1>1, <2>1, GoesType, RequestParts
  <2>2. ASSUME NEW u \in User, NEW stage \in {"verifying", "failed", "clearing"},
               serving' = [serving EXCEPT ![t] = [stage |-> stage, n |-> serving[t].n, user |-> u]]
        PROVE  <1>4!1 /\ <1>4!2
    <3> DEFINE q == [stage |-> stage, n |-> serving[t].n, user |-> u]
    <3>1. q \in Request /\ q.n = serving[t].n
      BY <1>1 DEF Request
    <3> HIDE DEF q
    <3> QED
      BY <1>1, <2>2, <3>1, RequestParts DEF q, TypeOK
  <2>3. CASE Admit(t)
    BY <2>1, <2>2, <2>3 DEF Admit
  <2>4. CASE Verify(t)
    <3>1. serving[t].user \in User /\ DOMAIN serving[t] = {"stage", "n", "user"}
      BY <1>1, <2>4 DEF Verify, At, Request
    <3>2. serving[t] = [stage |-> "verifying", n |-> serving[t].n, user |-> serving[t].user]
      BY <1>1, <2>4 DEF Verify, At, Request
    <3>3. \A stage \in {"failed", "clearing"} :
             [serving[t] EXCEPT !.stage = stage]
                = [stage |-> stage, n |-> serving[t].n, user |-> serving[t].user]
      BY <3>2
    <3>4. \E stage \in {"failed", "clearing"} :
             serving' = [serving EXCEPT ![t] = [stage |-> stage, n |-> serving[t].n,
                                                user |-> serving[t].user]]
      BY <2>4, <3>3 DEF Verify
    <3> QED
      BY <2>2, <3>1, <3>4
  <2>5. CASE RecordFailed(t) \/ ClearFailed(t)
    BY <2>1, <2>5 DEF RecordFailed, ClearFailed
  <2> QED
    BY <2>3, <2>4, <2>5 DEF LoginStep
<1>5. /\ failures' \in [User -> SUBSET Failure]
      /\ \A u \in User : \A f \in failures'[u] : f.at <= now /\ f.n \in 1..requests
  <2>1. [at |-> now, n |-> serving[t].n] \in Failure
    BY <1>1 DEF Failure, TypeOK
  <2>2. Pruned \in [User -> SUBSET Failure] /\ failures \in [User -> SUBSET Failure]
        /\ \A u \in User : Pruned[u] = Recent(u) /\ Recent(u) \subseteq failures[u]
    BY DEF Pruned, Recent, TypeOK
  <2> HIDE DEF Pruned
  <2>3. /\ failures' \in [User -> SUBSET Failure]
        /\ \A u \in User : failures'[u] \subseteq failures[u] \cup {[at |-> now, n |-> serving[t].n]}
    <3>1. CASE failures' = Pruned \/ failures' = failures
      BY <2>2, <3>1
    <3>2. ASSUME NEW u \in User,
                 failures' = [Pruned EXCEPT ![u] = Recent(u) \cup {[at |-> now, n |-> serving[t].n]}]
          PROVE  <2>3
      BY <2>1, <2>2, <3>2
    <3>3. ASSUME NEW u \in User, failures' = [failures EXCEPT ![u] = {}]
          PROVE  <2>3
      BY <2>2, <3>3
    <3>4. CASE Admit(t) \/ Verify(t)
      BY <3>1, <3>4 DEF Admit, Verify, throttle
    <3>5. CASE RecordFailed(t)
      <4>1. serving[t].user \in User
        BY <3>5, RequestParts DEF RecordFailed, At
      <4> QED
        BY <3>2, <3>5, <4>1 DEF RecordFailed
    <3>6. CASE ClearFailed(t)
      <4>1. serving[t].user \in User
        BY <3>6, RequestParts DEF ClearFailed, At
      <4> QED
        BY <3>3, <3>6, <4>1 DEF ClearFailed
    <3> QED
      BY <3>4, <3>5, <3>6 DEF LoginStep
  <2>5. now <= now /\ [at |-> now, n |-> serving[t].n].at = now
        /\ [at |-> now, n |-> serving[t].n].n = serving[t].n
    BY DEF TypeOK
  <2> QED
    BY <1>1, <2>3, <2>5 DEF TypeOK
<1>6. until' \in [User -> Nat]
  <2>1. \A u \in User : Standing(u) \in Nat
    BY DEF Standing, TypeOK
  <2>2. now + Cooldown \in Nat
    BY DEF TypeOK
  <2>3. CASE Admit(t)
    BY <2>1, <2>3 DEF Admit
  <2>4. CASE Verify(t)
    BY <2>4 DEF Verify, throttle, TypeOK
  <2>5. CASE RecordFailed(t)
    BY <2>1, <2>2, <2>5 DEF RecordFailed
  <2>6. CASE ClearFailed(t)
    BY <2>6 DEF ClearFailed, TypeOK
  <2> QED
    BY <2>3, <2>4, <2>5, <2>6 DEF LoginStep
<1>7. \A s \in Busy' : serving'[s].n \in 1..requests'
  BY <1>2, <1>4 DEF Busy
<1> QED
  BY <1>2, <1>3, <1>4, <1>5, <1>6, <1>7 DEF TypeOK

\* So do the steps around the requests: arrivals, faults and the clock.
LEMMA TypeOtherStep ==
    ASSUME TypeOK, \/ \E t \in Thread : Arrive(t) \/ StoreFails(t)
                   \/ Restart
                   \/ Tick
                   \/ UNCHANGED vars
    PROVE  TypeOK'
<1>1. ASSUME NEW t \in Thread, Arrive(t)
      PROVE  TypeOK'
  <2>1. PICK stage \in {"entering", "erring"} :
           serving' = [serving EXCEPT ![t] = [stage |-> stage, n |-> requests + 1]]
    BY <1>1 DEF Arrive
  <2>2. /\ requests' = requests + 1
        /\ UNCHANGED <<role, since, log, recorded, written, errors, answered, failures, until, now,
                       faults, made, told, cut>>
    BY <1>1 DEF Arrive, accounts, audit, throttle, changes
  <2> DEFINE q == [stage |-> stage, n |-> requests + 1]
  <2>3. requests \in Nat /\ q \in Request /\ q.n = requests + 1
    BY DEF Request, TypeOK
  <2> HIDE DEF q
  <2>4. /\ serving' \in [Thread -> Request \cup {Idle}]
        /\ \A s \in Thread : serving'[s] # Idle => serving'[s].n \in 1..(requests + 1)
    BY <2>1, <2>3, RequestParts DEF q, TypeOK
  <2>5. /\ \A u \in User : \A f \in failures'[u] : f.at <= now' /\ f.n \in 1..requests'
        /\ since' \in [User -> 0..requests']
        /\ made' \subseteq 1..requests' /\ told' \subseteq 1..requests' /\ cut' \subseteq 1..requests'
    BY <2>2, <2>3 DEF TypeOK
  <2>6. \A s \in Busy' : serving'[s].n \in 1..requests'
    BY <2>2, <2>4 DEF Busy
  <2> QED
    BY <2>2, <2>3, <2>4, <2>5, <2>6 DEF TypeOK
<1>2. ASSUME NEW t \in Thread, StoreFails(t)
      PROVE  TypeOK'
  <2>1. serving[t] # Idle
    BY <1>2 DEF StoreFails, At
  <2>2. UNCHANGED <<accounts, throttle, now, requests, errors, answered, log, written, recorded,
                    made, told>>
    BY <1>2 DEF StoreFails, counters, changes, audit
  <2>3. /\ serving' \in [Thread -> Request \cup {Idle}]
        /\ \A s \in Thread : serving'[s] # Idle => serving'[s].n \in 1..requests
        /\ serving[t].n \in 1..requests
    <3>1. Goes(t, "erring") \/ Ends(t)
      BY <1>2 DEF StoreFails
    <3> QED
      BY <2>1, <3>1, GoesType, EndsType, RequestParts
  <2>4. cut' \subseteq 1..requests
    BY <1>2, <2>3 DEF StoreFails, TypeOK
  <2>5. faults' \in Nat
    BY <1>2 DEF StoreFails, TypeOK
  <2>6. \A s \in Busy' : serving'[s].n \in 1..requests'
    BY <2>2, <2>3 DEF Busy
  <2>7. \A u \in User : \A f \in failures'[u] : f.at <= now' /\ f.n \in 1..requests'
    BY <2>2 DEF throttle, TypeOK
  <2> QED
    BY <2>2, <2>3, <2>4, <2>5, <2>6, <2>7 DEF accounts, throttle, TypeOK
<1>3. CASE Restart
  <2>1. UNCHANGED <<role, since, log, recorded, written, requests, errors, answered, now, made, told>>
    BY <1>3 DEF Restart, accounts, audit, counters, changes
  <2>2. /\ cut' = cut \cup {serving[t].n : t \in Busy}
        /\ serving' = [t \in Thread |-> Idle]
        /\ failures' = [u \in User |-> {}]
        /\ until' = [u \in User |-> 0]
        /\ faults' = faults + 1
    BY <1>3 DEF Restart
  <2>3. cut' \subseteq 1..requests'
    BY <2>1, <2>2 DEF TypeOK
  <2>4. Busy' = {}
    BY <2>2 DEF Busy
  <2> QED
    BY <2>1, <2>2, <2>3, <2>4 DEF TypeOK
<1>4. CASE Tick
  <2>1. UNCHANGED <<role, since, log, recorded, written, requests, errors, answered, failures, until,
                    serving, faults, made, told, cut>> /\ now' = now + 1
    BY <1>4 DEF Tick, accounts, audit, counters, throttle, changes
  <2>2. Busy' = Busy
    BY <2>1 DEF Busy
  <2>3. \A u \in User : \A f \in failures'[u] : f.at <= now' /\ f.n \in 1..requests'
    BY <2>1 DEF Failure, TypeOK
  <2> QED
    BY <2>1, <2>2, <2>3 DEF TypeOK
<1>5. CASE UNCHANGED vars
  <2>1. UNCHANGED <<role, since, log, recorded, written, requests, errors, answered, failures, until,
                    serving, now, faults, made, told, cut>>
    BY <1>5 DEF vars, accounts, audit, counters, throttle, changes
  <2>2. Busy' = Busy
    BY <2>1 DEF Busy
  <2> QED
    BY <2>1, <2>2 DEF TypeOK
<1> QED
  BY <1>1, <1>2, <1>3, <1>4, <1>5

\* Every step keeps the types.
LEMMA TypeStep ==
    ASSUME TypeOK, [Next]_vars
    PROVE  TypeOK'
<1>1. CASE \E t \in Thread : Step(t)
  BY <1>1, TypeEndStep, TypeLoginStep, TypePrincipalStep DEF Step
<1>2. CASE ~(\E t \in Thread : Step(t))
  BY <1>2, TypeOtherStep DEF Next
<1> QED
  BY <1>1, <1>2

\* The first state has the types.
LEMMA TypeInit == Init => TypeOK
<1> SUFFICES ASSUME Init PROVE TypeOK
  OBVIOUS
<1>1. Busy = {} /\ serving \in [Thread -> Request \cup {Idle}]
  BY DEF Init, Busy
<1>2. /\ role \in [User -> Role]
      /\ since \in [User -> 0..requests]
      /\ failures \in [User -> SUBSET Failure]
      /\ until \in [User -> Nat]
  BY DEF Init, Role
<1>3. \A u \in User : \A f \in failures[u] : f.at <= now /\ f.n \in 1..requests
  BY DEF Init
<1>4. /\ log \subseteq written /\ written \subseteq Entry /\ IsFiniteSet(written)
      /\ Cardinality(log) <= MaxLogs
  BY FS_EmptySet DEF Init
<1> QED
  BY <1>1, <1>2, <1>3, <1>4 DEF Init, TypeOK

\* Accounts, log, throttle and requests keep their types, and the log its bound, for
\* any number of threads, accounts and faults.
THEOREM TypeCorrect == Spec => []TypeOK
<1>1. TypeOK /\ [Next]_vars => TypeOK'
  BY TypeStep
<1> QED
  BY <1>1, TypeInit, PTL DEF Spec

-------------------------------------------------------------------------------
(* Changes and their entries *)

\* A request that waits to be entered as a success has made its change.
Awaiting == {serving[t].n : t \in {s \in Thread : At(s, "clearing") \/ At(s, "recording")}}

Traced == ChangesTraced /\ Awaiting \subseteq made

\* Every step keeps the trace of the changes.
LEMMA TracedStep ==
    ASSUME TypeOK, Traced, [Next]_vars
    PROVE  Traced'
<1> DEFINE Waits(s) == At(s, "clearing") \/ At(s, "recording")
<1>1. ChangesTraced <=> told \subseteq made /\ made \subseteq told \cup cut \cup Awaiting
  BY Zenon DEF ChangesTraced, Awaiting
<1>2. ChangesTraced' <=> told' \subseteq made' /\ made' \subseteq told' \cup cut' \cup Awaiting'
  BY Zenon DEF ChangesTraced, Awaiting
<1>3. told \subseteq made /\ made \subseteq told \cup cut \cup Awaiting /\ Awaiting \subseteq made
  BY <1>1 DEF Traced
\* What a step of thread t may do to the trace, t' going out of or into waiting.
<1>4. ASSUME NEW t \in Thread, serving[t] # Idle,
             \A s \in Thread \ {t} : serving'[s] = serving[s],
             serving'[t] # Idle => serving'[t].n = serving[t].n,
             made' = made \/ (made' = made \cup {serving[t].n} /\ Waits(t)'),
             Waits(t)' => serving[t].n \in made',
             told' = told \/ (told' = told \cup {serving[t].n} /\ Waits(t)),
             cut \subseteq cut',
             Waits(t) => Waits(t)' \/ serving[t].n \in told' \cup cut'
      PROVE  Traced'
  <2>1. \A s \in Thread \ {t} : Waits(s)' <=> Waits(s)
    BY <1>4 DEF At
  <2>2. \A n : n \in Awaiting' <=> \E s \in Thread : Waits(s)' /\ n = serving'[s].n
    BY DEF Awaiting
  <2>3. \A n : n \in Awaiting <=> \E s \in Thread : Waits(s) /\ n = serving[s].n
    BY DEF Awaiting
  <2>4. Waits(t)' => serving'[t].n = serving[t].n
    BY <1>4 DEF At
  <2> HIDE DEF Waits
  <2>5. \A n \in Awaiting' : n \in Awaiting \/ (n = serving[t].n /\ Waits(t)')
    BY <1>4, <2>1, <2>2, <2>3, <2>4
  <2>6. \A n \in Awaiting : n \in Awaiting' \/ (n = serving[t].n /\ Waits(t) /\ ~Waits(t)')
    BY <1>4, <2>1, <2>2, <2>3, <2>4
  <2>7. Waits(t) => serving[t].n \in Awaiting
    BY <2>3
  <2>8. Waits(t)' => serving[t].n \in Awaiting'
    BY <2>2, <2>4
  <2>9. Awaiting' \subseteq made'
    BY <1>3, <1>4, <2>5
  <2>10. told' \subseteq made'
    BY <1>3, <1>4, <2>7
  <2>11. made' \subseteq told' \cup cut' \cup Awaiting'
    BY <1>3, <1>4, <2>6, <2>8
  <2> QED
    BY <1>2, <2>9, <2>10, <2>11 DEF Traced
<1>5. ASSUME NEW t \in Thread, Step(t)
      PROVE  Traced'
  <2>1. /\ serving[t] # Idle
        /\ serving \in [Thread -> Request \cup {Idle}]
        /\ cut' = cut
    BY <1>5 DEF Step, LoginStep, PrincipalStep, EndStep, Admit, Verify, RecordFailed, ClearFailed,
                Authenticate, Read, Reject, Act, Report, AnswerError, RecordChange, At, TypeOK
  <2>2. CASE Report(t) \/ Reject(t) \/ RecordFailed(t)
    <3>1. ~Waits(t) /\ made' = made /\ told' = told /\ \E stage \in {"erring", "reporting"} : Goes(t, stage)
      BY <2>2 DEF Report, Reject, RecordFailed, changes, At
    <3>2. ~Waits(t)'
      BY <2>1, <3>1, GoesAt DEF At
    <3> QED
      BY <1>4, <2>1, <3>1, <3>2, GoesAt
  <2>3. CASE AnswerError(t) \/ Read(t)
    <3>1. ~Waits(t) /\ made' = made /\ told' = told /\ Ends(t)
      BY <2>3 DEF AnswerError, Read, changes, At
    <3>2. serving'[t] = Idle /\ \A s \in Thread \ {t} : serving'[s] = serving[s]
      BY <3>1, EndsType
    <3>3. ~Waits(t)'
      BY <3>2 DEF At
    <3> QED
      BY <1>4, <2>1, <3>1, <3>2, <3>3
  <2>4. CASE RecordChange(t)
    <3>1. Waits(t) /\ made' = made /\ told' = told \cup {serving[t].n} /\ Ends(t)
      BY <2>4 DEF RecordChange, At
    <3>2. serving'[t] = Idle /\ \A s \in Thread \ {t} : serving'[s] = serving[s]
      BY <3>1, EndsType
    <3>3. ~Waits(t)'
      BY <3>2 DEF At
    <3> QED
      BY <1>4, <2>1, <3>1, <3>2, <3>3
  <2>5. CASE Authenticate(t) \/ Admit(t)
    <3>1. ~Waits(t) /\ made' = made /\ told' = told
      BY <2>5 DEF Authenticate, Admit, changes, At
    <3>2. \E q : /\ q.stage \in {"reporting", "acting", "verifying"} /\ q.n = serving[t].n
                 /\ serving' = [serving EXCEPT ![t] = q]
      <4>1. CASE Goes(t, "reporting")
        BY <4>1 DEF Goes
      <4>2. CASE ~Goes(t, "reporting")
        BY <2>5, <4>2 DEF Authenticate, Admit
      <4> QED
        BY <4>1, <4>2
    <3>3. /\ \A s \in Thread \ {t} : serving'[s] = serving[s]
          /\ serving'[t].n = serving[t].n
          /\ ~Waits(t)'
      BY <2>1, <3>2 DEF At
    <3> QED
      BY <1>4, <2>1, <3>1, <3>3
  <2>6. CASE Verify(t)
    <3>1. ~Waits(t) /\ told' = told /\ \A s \in Thread \ {t} : serving'[s] = serving[s]
      BY <2>1, <2>6 DEF Verify, At
    <3>2. serving[t].stage = "verifying" /\ serving[t] \in Request
      BY <2>1, <2>6 DEF Verify, At
    <3>3. serving[t] = [stage |-> "verifying", n |-> serving[t].n, user |-> serving[t].user]
      BY <3>2 DEF Request
    <3>4. CASE serving' = [serving EXCEPT ![t].stage = "failed"] /\ UNCHANGED made
      <4>1. serving'[t].n = serving[t].n /\ serving'[t].stage = "failed"
        BY <2>1, <3>3, <3>4
      <4>2. ~Waits(t)'
        BY <4>1 DEF At
      <4> QED
        BY <1>4, <2>1, <3>1, <3>4, <4>1, <4>2
    <3>5. CASE serving' = [serving EXCEPT ![t].stage = "clearing"] /\ Makes(t)
      <4>1. serving'[t].n = serving[t].n /\ serving'[t].stage = "clearing"
        BY <2>1, <3>3, <3>5
      <4>2. serving'[t] # Idle
        <5>1. serving'[t] = [stage |-> "clearing", n |-> serving[t].n, user |-> serving[t].user]
          BY <2>1, <3>3, <3>5
        <5>2. serving[t].n \in Nat /\ serving[t].user \in User
          BY <3>2 DEF Request
        <5> QED
          BY <5>1, <5>2 DEF Request
      <4>3. Waits(t)' /\ made' = made \cup {serving[t].n}
        BY <3>5, <4>1, <4>2 DEF At, Makes
      <4> QED
        BY <1>4, <2>1, <3>1, <4>1, <4>3
    <3> QED
      BY <2>6, <3>4, <3>5 DEF Verify
  <2>7. CASE ClearFailed(t)
    <3>1. Waits(t) /\ made' = made /\ told' = told /\ Goes(t, "recording")
      BY <2>7 DEF ClearFailed, changes, At
    <3>2. serving[t].n \in made
      BY <1>3, <3>1 DEF Awaiting
    <3>3. Waits(t)' /\ serving'[t].n = serving[t].n
      BY <2>1, <3>1, GoesAt DEF At
    <3> QED
      BY <1>4, <2>1, <3>1, <3>2, <3>3, GoesAt
  <2>8. CASE Act(t)
    <3>1. ~Waits(t) /\ made' = made \cup {serving[t].n} /\ told' = told /\ Goes(t, "recording")
      BY <2>8 DEF Act, Makes, At
    <3>2. Waits(t)' /\ serving'[t].n = serving[t].n
      BY <2>1, <3>1, GoesAt DEF At
    <3> QED
      BY <1>4, <2>1, <3>1, <3>2, GoesAt
  <2> QED
    BY <1>5, <2>2, <2>3, <2>4, <2>5, <2>6, <2>7, <2>8
       DEF Step, LoginStep, PrincipalStep, EndStep
<1>6. ASSUME NEW t \in Thread, StoreFails(t)
      PROVE  Traced'
  <2>1. /\ serving[t] # Idle
        /\ made' = made /\ told' = told /\ cut' = cut \cup {serving[t].n}
        /\ Goes(t, "erring") \/ Ends(t)
    BY <1>6 DEF StoreFails, At, changes
  <2>2. /\ ~Waits(t)'
        /\ serving'[t] # Idle => serving'[t].n = serving[t].n
        /\ \A s \in Thread \ {t} : serving'[s] = serving[s]
    BY <2>1, GoesAt, EndsType DEF At
  <2> QED
    BY <1>4, <2>1, <2>2
<1>7. CASE Restart
  <2>1. /\ made' = made /\ told' = told /\ cut' = cut \cup {serving[t].n : t \in Busy}
        /\ serving' = [t \in Thread |-> Idle]
    BY <1>7 DEF Restart, changes
  <2>2. Awaiting' = {}
    BY <2>1 DEF Awaiting, At
  <2>3. Awaiting \subseteq {serving[t].n : t \in Busy}
    BY DEF Awaiting, Busy, At
  <2> QED
    BY <1>2, <1>3, <2>1, <2>2, <2>3 DEF Traced
<1>8. CASE \E t \in Thread : Arrive(t)
  <2>1. PICK t \in Thread, stage \in {"entering", "erring"} :
           /\ serving[t] = Idle
           /\ serving' = [serving EXCEPT ![t] = [stage |-> stage, n |-> requests + 1]]
    BY <1>8 DEF Arrive
  <2>2. made' = made /\ told' = told /\ cut' = cut
    BY <1>8 DEF Arrive, changes
  <2>3. ~Waits(t) /\ ~Waits(t)' /\ \A s \in Thread \ {t} : serving'[s] = serving[s]
    BY <2>1 DEF At, TypeOK
  <2>4. Awaiting' = Awaiting
    BY <2>3 DEF Awaiting, At
  <2> QED
    BY <1>2, <1>3, <2>2, <2>4 DEF Traced
<1>9. CASE Tick \/ UNCHANGED vars
  <2>1. UNCHANGED <<made, told, cut, serving>>
    BY <1>9 DEF Tick, vars, changes
  <2>2. Awaiting' = Awaiting
    BY <2>1 DEF Awaiting, At
  <2> QED
    BY <1>2, <1>3, <2>1, <2>2 DEF Traced
<1> HIDE DEF Waits
<1> QED
  BY <1>5, <1>6, <1>7, <1>8, <1>9 DEF Next

\* For any number of requests in any order, and whatever fails: a change is in the
\* audit log, or about to be entered, or was hit between the change and the entry;
\* and no success is in the log of a request that changed nothing.
THEOREM ChangesAlwaysTraced == Spec => []ChangesTraced
<1>1. Init => Traced
  BY DEF Init, Traced, ChangesTraced, Awaiting, At
<1>2. TypeOK /\ Traced /\ [Next]_vars => Traced'
  BY TracedStep
<1>3. Traced => ChangesTraced
  BY DEF Traced
<1> QED
  BY <1>1, <1>2, <1>3, TypeCorrect, PTL DEF Spec

-------------------------------------------------------------------------------
(* The audit log *)

\* All that can happen to the audit log: an entry more, a cleanup, or time.
LEMMA AuditSteps ==
    ASSUME TypeOK, [Next]_vars
    PROVE  \/ Record /\ now' = now
           \/ /\ written' = written /\ recorded' = recorded
              /\ now' \in Nat /\ now <= now'
              /\ log' = log \/ (Cleans /\ now' = now)
<1>1. now \in Nat
  BY DEF TypeOK
<1>2. ASSUME NEW t \in Thread, EndStep(t)
      PROVE  (Record /\ now' = now)
                \/ (written' = written /\ recorded' = recorded /\ log' = log /\ now' = now)
  BY <1>2 DEF EndStep, Report, AnswerError, RecordChange, audit
<1>3. ASSUME NEW t \in Thread, LoginStep(t)
      PROVE  written' = written /\ recorded' = recorded /\ log' = log /\ now' = now
  BY <1>3 DEF LoginStep, Admit, Verify, RecordFailed, ClearFailed, audit
<1>4. ASSUME NEW t \in Thread, PrincipalStep(t)
      PROVE  /\ written' = written /\ recorded' = recorded /\ now' = now
             /\ log' = log \/ Cleans
  <2>1. CASE Act(t)
    BY <2>1 DEF Act
  <2>2. CASE Authenticate(t) \/ Read(t) \/ Reject(t)
    BY <2>2 DEF Authenticate, Read, Reject, audit
  <2> QED
    BY <1>4, <2>1, <2>2 DEF PrincipalStep
<1>5. ASSUME NEW t \in Thread, Arrive(t) \/ StoreFails(t)
      PROVE  written' = written /\ recorded' = recorded /\ log' = log /\ now' = now
  BY <1>5 DEF Arrive, StoreFails, audit
<1>6. CASE Restart \/ UNCHANGED vars
  BY <1>1, <1>6 DEF Restart, vars, audit
<1>7. CASE Tick
  BY <1>1, <1>7 DEF Tick, audit
<1>8. CASE \E t \in Thread : Arrive(t) \/ Step(t) \/ StoreFails(t)
  BY <1>1, <1>2, <1>3, <1>4, <1>5, <1>8 DEF Step
<1> QED
  BY <1>6, <1>7, <1>8 DEF Next

\* Entries are numbered from one on without a gap, as the clock goes.
Numbered ==
    /\ AuditIdsDistinct
    /\ \A e \in written : e.id \in 1..recorded /\ e.at <= now

\* Every step keeps the numbering.
LEMMA NumberedStep ==
    ASSUME TypeOK, Numbered, [Next]_vars
    PROVE  Numbered'
<1>1. /\ recorded \in Nat /\ now \in Nat /\ IsFiniteSet(written)
      /\ \A e \in written : e.id \in Nat /\ e.at \in Nat
      /\ Cardinality(written) = recorded
      /\ \A e, f \in written : (e.id = f.id => e = f) /\ (e.id < f.id => e.at <= f.at)
      /\ \A e \in written : e.id \in 1..recorded /\ e.at <= now
  BY DEF TypeOK, Entry, Numbered, AuditIdsDistinct
<1>2. CASE Record /\ now' = now
  <2>1. written' = written \cup {NewEntry} /\ recorded' = recorded + 1
    BY <1>2 DEF Record, Counted
  <2>2. NewEntry.id = recorded + 1 /\ NewEntry.at = now
    BY DEF NewEntry
  <2>3. NewEntry \notin written
    BY <1>1, <2>2
  <2> HIDE DEF NewEntry
  <2>4. Cardinality(written') = recorded'
    BY <1>1, <2>1, <2>3, OneMore
  <2>5. \A e, f \in written' : (e.id = f.id => e = f) /\ (e.id < f.id => e.at <= f.at)
    BY <1>1, <2>1, <2>2
  <2>6. \A e \in written' : e.id \in 1..recorded' /\ e.at <= now'
    BY <1>1, <1>2, <2>1, <2>2
  <2> QED
    BY <2>4, <2>5, <2>6 DEF Numbered, AuditIdsDistinct
<1>3. CASE written' = written /\ recorded' = recorded /\ now' \in Nat /\ now <= now'
  BY <1>1, <1>3 DEF Numbered, AuditIdsDistinct
<1> QED
  BY <1>2, <1>3, AuditSteps

\* What has gone from the log is old, or MaxLogs entries are as recent.
LEMMA LossStep ==
    ASSUME TypeOK, Numbered, LossExplained, [Next]_vars
    PROVE  LossExplained'
<1> DEFINE AsRecent(e) == {f \in written \ {e} : f.at >= e.at}
<1>1. /\ recorded \in Nat /\ now \in Nat /\ IsFiniteSet(written)
      /\ \A e \in written : e.at \in Nat /\ e.at <= now /\ e.id \in 1..recorded
      /\ log \subseteq written /\ IsFiniteSet(log)
      /\ Cardinality(log) \in Nat
    BY Part DEF TypeOK, Entry, Numbered
<1>2. \A e \in written \ log : now - e.at > AuditAge \/ Cardinality(AsRecent(e)) >= MaxLogs
  BY DEF LossExplained
\* The entries as recent as one that is lost become no fewer.
<1>3. ASSUME NEW e \in written \ log, written \subseteq written', IsFiniteSet(written'),
             now' \in Nat, now <= now'
      PROVE  now' - e.at > AuditAge \/ Cardinality(AsRecent(e)') >= MaxLogs
  <2>1. AsRecent(e) \subseteq AsRecent(e)' /\ AsRecent(e)' \subseteq written'
    BY <1>3
  <2> HIDE DEF AsRecent
  <2>2. IsFiniteSet(AsRecent(e)')
    BY <1>3, <2>1, Part
  <2>3. /\ Cardinality(AsRecent(e)) \in Nat /\ Cardinality(AsRecent(e)') \in Nat
        /\ Cardinality(AsRecent(e)) <= Cardinality(AsRecent(e)')
    BY <2>1, <2>2, Part
  <2> QED
    BY <1>1, <1>2, <1>3, <2>3
<1>4. CASE Record /\ now' = now
  <2>1. written' = written \cup {NewEntry} /\ IsFiniteSet(written')
    BY <1>4, RecordType DEF Record, Counted
  <2>2. NewEntry \notin written /\ NewEntry.at = now
    BY <1>1 DEF NewEntry
  <2> HIDE DEF NewEntry
  <2>3. CASE log' = log \cup {NewEntry}
    BY <1>1, <1>3, <1>4, <2>1, <2>3 DEF LossExplained
  <2>4. ASSUME NEW old \in log, ~(Cardinality(log) < MaxLogs),
               \A f \in log : old.at <= f.at, log' = (log \ {old}) \cup {NewEntry}
        PROVE  LossExplained'
    <3>1. written' \ log' = (written \ log) \cup {old}
      BY <1>1, <2>1, <2>2, <2>4
    <3>2. (log \ {old}) \cup {NewEntry} \subseteq AsRecent(old)' /\ AsRecent(old)' \subseteq written'
      BY <1>1, <2>1, <2>2, <2>4
    <3> HIDE DEF AsRecent
    <3>3. Cardinality((log \ {old}) \cup {NewEntry}) = Cardinality(log)
      <4>1. IsFiniteSet(log \ {old}) /\ Cardinality(log \ {old}) = Cardinality(log) - 1
        BY <1>1, <2>4, OneLess
      <4>2. NewEntry \notin log \ {old}
        BY <1>1, <2>2
      <4>3. Cardinality((log \ {old}) \cup {NewEntry}) = Cardinality(log \ {old}) + 1
        BY <4>1, <4>2, OneMore
      <4> QED
        BY <1>1, <4>1, <4>3
    <3>4. IsFiniteSet(AsRecent(old)')
      BY <2>1, <3>2, Part
    <3>5. Cardinality(AsRecent(old)') \in Nat /\ Cardinality(AsRecent(old)') >= Cardinality(log)
      BY <3>2, <3>3, <3>4, Part
    <3>6. Cardinality(AsRecent(old)') >= MaxLogs
      BY <1>1, <2>4, <3>5
    <3>7. ASSUME NEW e \in written' \ log'
          PROVE  now' - e.at > AuditAge \/ Cardinality(AsRecent(e)') >= MaxLogs
      <4>1. CASE e = old
        BY <3>6, <4>1
      <4>2. CASE e # old
        <5>1. e \in written \ log
          BY <3>1, <3>7, <4>2
        <5>2. written \subseteq written' /\ IsFiniteSet(written') /\ now' \in Nat /\ now <= now'
          BY <1>1, <1>4, <2>1
        <5> QED
          BY <1>3, <5>1, <5>2
      <4> QED
        BY <4>1, <4>2
    <3> QED
      BY <3>7 DEF AsRecent, LossExplained
  <2> QED
    BY <1>4, <2>3, <2>4 DEF Record
<1>5. CASE /\ written' = written /\ now' \in Nat /\ now <= now'
           /\ log' = log \/ (Cleans /\ now' = now)
  <2>1. \A e \in written \ log :
           now' - e.at > AuditAge \/ Cardinality(AsRecent(e)') >= MaxLogs
    BY <1>1, <1>3, <1>5
  <2>2. CASE log' = log
    BY <1>5, <2>1, <2>2 DEF LossExplained
  <2>3. CASE Cleans /\ now' = now
    <3>1. \A e \in log \ log' : now' - e.at > AuditAge
      BY <1>1, <2>3 DEF Cleans
    <3>2. \A e \in written' \ log' :
             now' - e.at > AuditAge \/ Cardinality(AsRecent(e)') >= MaxLogs
      BY <1>5, <2>1, <3>1
    <3> QED
      BY <3>2 DEF LossExplained
  <2> QED
    BY <1>5, <2>2, <2>3
<1> QED
  BY <1>4, <1>5, AuditSteps

\* For any number of requests, cuts of the log, cleanups and restarts, no two audit
\* entries have the same number, and their order is the clock's.
THEOREM AuditIdsAlwaysDistinct == Spec => []AuditIdsDistinct
<1>1. Init => Numbered
  BY FS_EmptySet DEF Init, Numbered, AuditIdsDistinct
<1>2. TypeOK /\ Numbered /\ [Next]_vars => Numbered'
  BY NumberedStep
<1>3. Numbered => AuditIdsDistinct
  BY DEF Numbered
<1> QED
  BY <1>1, <1>2, <1>3, TypeCorrect, PTL DEF Spec

\* For any cap and any age, an entry is lost only when it is too old or when the log
\* is full of entries as recent.
THEOREM LossAlwaysExplained == Spec => []LossExplained
<1>1. Init => Numbered /\ LossExplained
  BY FS_EmptySet DEF Init, Numbered, AuditIdsDistinct, LossExplained
<1>2. TypeOK /\ Numbered /\ LossExplained /\ [Next]_vars => Numbered' /\ LossExplained'
  BY NumberedStep, LossStep
<1> QED
  BY <1>1, <1>2, TypeCorrect, PTL DEF Spec

-------------------------------------------------------------------------------
(* Permissions *)

\* What can_access lets a role do is within Matrix.
LEMMA GrantsFollowMatrix ==
    ASSUME NEW r \in Role, NEW route \in Route, Allowed(r, route), route \notin Reading
    PROVE  r \in Matrix(route)
<1>1. route \in {"users", "cleanup", "groups", "refresh", "alerts", "logout"}
  BY DEF Needs, Open, Reading
<1>2. CASE route = "logout"
  BY <1>2 DEF Matrix
<1>3. CASE route \in {"users", "cleanup"}
  BY <1>3 DEF Allowed, Open, May, Grants, Needs, Role, Matrix
<1>4. CASE route \in {"groups", "refresh", "alerts"}
  BY <1>4 DEF Allowed, Open, May, Grants, Needs, Role, Matrix
<1> QED
  BY <1>1, <1>2, <1>3, <1>4

\* A role is changed by a change of its account only, which every request in hand precedes.
LEMMA RoleSteps ==
    ASSUME TypeOK, [Next]_vars, NEW u \in User
    PROVE  (role'[u] = role[u] /\ since'[u] = since[u]) \/ since'[u] = requests
<1>1. CASE UNCHANGED accounts
  BY <1>1 DEF accounts
<1>2. CASE SetsRole
  BY <1>2 DEF SetsRole, TypeOK
<1>3. CASE \E t \in Thread : Step(t)
  BY <1>1, <1>2, <1>3 DEF Step, LoginStep, PrincipalStep, EndStep, Admit, Verify, RecordFailed,
     ClearFailed, Authenticate, Read, Reject, Act, Report, AnswerError, RecordChange
<1>4. CASE Restart \/ Tick \/ UNCHANGED vars \/ \E t \in Thread : Arrive(t) \/ StoreFails(t)
  BY <1>1, <1>4 DEF Restart, Tick, vars, Arrive, StoreFails
<1> QED
  BY <1>3, <1>4 DEF Next

\* A thread that acts did so before, or its principal has just been resolved.
LEMMA ActingSteps ==
    ASSUME TypeOK, [Next]_vars, NEW s \in Thread, At(s, "acting")'
    PROVE  \/ serving'[s] = serving[s]
           \/ /\ role' = role
              /\ \E u \in User, route \in Route :
                    /\ Allowed(role[u], route)
                    /\ serving'[s] = [stage |-> "acting", n |-> serving[s].n, user |-> u,
                                      role |-> role[u], route |-> route]
<1> DEFINE Goal == \/ serving'[s] = serving[s]
                   \/ /\ role' = role
                      /\ \E u \in User, route \in Route :
                            /\ Allowed(role[u], route)
                            /\ serving'[s] = [stage |-> "acting", n |-> serving[s].n, user |-> u,
                                              role |-> role[u], route |-> route]
<1>1. serving \in [Thread -> Request \cup {Idle}] /\ serving'[s] # Idle /\ serving'[s].stage = "acting"
  BY DEF TypeOK, At
<1>2. ASSUME NEW t \in Thread, serving[t] # Idle,
             NEW stage \in {"entering", "recording", "reporting", "erring"}, Goes(t, stage)
      PROVE  Goal
  BY <1>1, <1>2, GoesAt
<1>3. ASSUME NEW t \in Thread, Ends(t)
      PROVE  Goal
  BY <1>1, <1>3, EndsType
<1>4. ASSUME NEW t \in Thread, NEW q, q.stage # "acting", serving' = [serving EXCEPT ![t] = q]
      PROVE  Goal
  BY <1>1, <1>4
<1> HIDE DEF Goal
<1>5. ASSUME NEW t \in Thread, EndStep(t)
      PROVE  Goal
  BY <1>2, <1>3, <1>5 DEF EndStep, Report, AnswerError, RecordChange, At
<1>6. ASSUME NEW t \in Thread, Read(t) \/ Reject(t) \/ Act(t)
      PROVE  Goal
  BY <1>2, <1>3, <1>6 DEF Read, Reject, Act, At
<1>7. ASSUME NEW t \in Thread, Authenticate(t)
      PROVE  Goal
  <2>1. serving[t] # Idle
    BY <1>7 DEF Authenticate, At
  <2>2. CASE Goes(t, "reporting")
    BY <1>2, <2>1, <2>2
  <2>3. CASE ~Goes(t, "reporting")
    <3>1. PICK u \in User, route \in Route :
             /\ Allowed(role[u], route)
             /\ serving' = [serving EXCEPT ![t] = [stage |-> "acting", n |-> serving[t].n,
                               user |-> u, role |-> role[u], route |-> route]]
      BY <1>7, <2>3 DEF Authenticate
    <3>2. role' = role
      BY <1>7 DEF Authenticate, accounts
    <3> QED
      BY <1>1, <3>1, <3>2 DEF Goal
  <2> QED
    BY <2>2, <2>3
<1>8. ASSUME NEW t \in Thread, Admit(t)
      PROVE  Goal
  <2>1. serving[t] # Idle
    BY <1>8 DEF Admit, At
  <2>2. CASE Goes(t, "reporting")
    BY <1>2, <2>1, <2>2
  <2>3. CASE ~Goes(t, "reporting")
    <3>1. PICK u \in Tried : serving' = [serving EXCEPT ![t] =
                                [stage |-> "verifying", n |-> serving[t].n, user |-> u]]
      BY <1>8, <2>3 DEF Admit
    <3> QED
      BY <1>4, <3>1
  <2> QED
    BY <2>2, <2>3
<1>9. ASSUME NEW t \in Thread, Verify(t)
      PROVE  Goal
  <2>1. /\ serving[t] = [stage |-> "verifying", n |-> serving[t].n, user |-> serving[t].user]
        /\ \A r \in Thread \ {t} : serving'[r] = serving[r]
    BY <1>1, <1>9 DEF Verify, At, Request
  <2>2. serving'[t].stage \in {"failed", "clearing"}
    <3>1. \/ serving' = [serving EXCEPT ![t].stage = "failed"]
          \/ serving' = [serving EXCEPT ![t].stage = "clearing"]
      BY <1>9 DEF Verify
    <3> QED
      BY <1>1, <2>1, <3>1
  <2> QED
    BY <1>1, <2>1, <2>2 DEF Goal
<1>10. ASSUME NEW t \in Thread, RecordFailed(t) \/ ClearFailed(t)
       PROVE  Goal
  BY <1>2, <1>10 DEF RecordFailed, ClearFailed, At
<1>11. ASSUME NEW t \in Thread, Arrive(t)
       PROVE  Goal
  BY <1>4, <1>11 DEF Arrive
<1>12. ASSUME NEW t \in Thread, StoreFails(t)
       PROVE  Goal
  BY <1>2, <1>3, <1>12 DEF StoreFails, At
<1>13. CASE Restart
  BY <1>1, <1>13 DEF Restart
<1>14. CASE Tick \/ UNCHANGED vars
  BY <1>14 DEF Tick, vars, Goal
<1> QED
  BY <1>5, <1>6, <1>7, <1>8, <1>9, <1>10, <1>11, <1>12, <1>13, <1>14
     DEF Next, Step, LoginStep, PrincipalStep, Goal

\* Every step keeps to Matrix.
LEMMA PermittedStep ==
    ASSUME TypeOK, ChangesPermitted, [Next]_vars
    PROVE  ChangesPermitted'
<1> SUFFICES ASSUME NEW s \in Thread, At(s, "acting")'
             PROVE  /\ serving'[s].route \notin Reading => serving'[s].role \in Matrix(serving'[s].route)
                    /\ \/ serving'[s].role = role'[serving'[s].user]
                       \/ serving'[s].n <= since'[serving'[s].user]
  BY DEF ChangesPermitted
<1>1. CASE serving'[s] = serving[s]
  <2>1. At(s, "acting")
    BY <1>1 DEF At
  <2>2. /\ serving[s].route \notin Reading => serving[s].role \in Matrix(serving[s].route)
        /\ \/ serving[s].role = role[serving[s].user]
           \/ serving[s].n <= since[serving[s].user]
    BY <2>1 DEF ChangesPermitted
  <2>3. serving[s].n \in 1..requests /\ serving[s].user \in User /\ requests \in Nat
    BY <2>1, RequestParts DEF At, TypeOK
  <2> QED
    BY <1>1, <2>2, <2>3, RoleSteps
<1>2. CASE serving'[s] # serving[s]
  <2>1. PICK u \in User, route \in Route :
           /\ role' = role
           /\ Allowed(role[u], route)
           /\ serving'[s] = [stage |-> "acting", n |-> serving[s].n, user |-> u,
                             role |-> role[u], route |-> route]
    BY <1>2, ActingSteps
  <2>2. role[u] \in Role
    BY DEF TypeOK
  <2> QED
    BY <2>1, <2>2, GrantsFollowMatrix
<1> QED
  BY <1>1, <1>2

\* For any accounts and routes, a change is made under a role that is meant for it
\* it, and one the account has lost only in requests that were there when it did.
THEOREM ChangesAlwaysPermitted == Spec => []ChangesPermitted
<1>1. Init => ChangesPermitted
  BY DEF Init, ChangesPermitted, At
<1>2. TypeOK /\ ChangesPermitted /\ [Next]_vars => ChangesPermitted'
  BY PermittedStep
<1> QED
  BY <1>1, <1>2, TypeCorrect, PTL DEF Spec

-------------------------------------------------------------------------------
(* The login throttle *)

\* Failures of u that count m seconds after the start.
Fails(u, m) == {f \in failures[u] : m - f.at < Window}

\* Threads between reading and writing the throttle for u.
Admitted(u) == {t \in Thread : (At(t, "verifying") \/ At(t, "failed")) /\ serving[t].user = u}

Finite == \A u \in User : IsFiniteSet(failures[u])

\* Whenever u may be admitted again, its failures are below the limit.
Rested == \A u \in User : \A m \in Nat : now <= m /\ until[u] <= m => Cardinality(Fails(u, m)) < Limit

\* Failures of u, and threads that may yet fail for u.
Room == \A u \in User : Cardinality(Fails(u, now)) + Cardinality(Admitted(u)) < Limit + Cardinality(Thread)

\* Fewer failures and no shorter a wait keep an account rested.
LEMMA RestedKept ==
    ASSUME TypeOK, Finite, Rested, now' \in Nat, now <= now', NEW u \in User,
           failures'[u] \subseteq failures[u],
           failures'[u] = {} \/ until'[u] = until[u] \/ until[u] <= now'
    PROVE  /\ IsFiniteSet(failures'[u])
           /\ \A m \in Nat : now' <= m /\ until'[u] <= m => Cardinality(Fails(u, m)') < Limit
<1>1. IsFiniteSet(failures[u]) /\ IsFiniteSet(failures'[u])
  BY Part DEF Finite
<1>2. ASSUME NEW m \in Nat, now' <= m, until'[u] <= m
      PROVE  Cardinality(Fails(u, m)') < Limit
  <2>1. Fails(u, m)' \subseteq Fails(u, m) /\ Fails(u, m) \subseteq failures[u]
    BY DEF Fails
  <2>2. IsFiniteSet(Fails(u, m))
    BY <1>1, <2>1, Part
  <2>3. /\ Cardinality(Fails(u, m)') \in Nat /\ Cardinality(Fails(u, m)) \in Nat
        /\ Cardinality(Fails(u, m)') <= Cardinality(Fails(u, m))
    BY <2>1, <2>2, Part
  <2>4. CASE failures'[u] = {}
    <3>1. Fails(u, m)' = {}
      BY <2>4 DEF Fails
    <3> QED
      BY <3>1, FS_EmptySet
  <2>5. CASE until'[u] = until[u] \/ until[u] <= now'
    <3>1. now <= m /\ until[u] <= m
      BY <1>2, <2>5 DEF TypeOK
    <3>2. Cardinality(Fails(u, m)) < Limit
      BY <3>1 DEF Rested
    <3> QED
      BY <2>3, <3>2
  <2> QED
    BY <2>4, <2>5
<1> QED
  BY <1>1, <1>2

\* Fewer failures and fewer threads leave more room.
LEMMA RoomKept ==
    ASSUME TypeOK, Finite, now' \in Nat, now <= now', NEW u \in User,
           failures'[u] \subseteq failures[u],
           Cardinality(Fails(u, now)) + Cardinality(Admitted(u)) < Limit + Cardinality(Thread),
           Admitted(u)' \subseteq Admitted(u)
    PROVE  Cardinality(Fails(u, now)') + Cardinality(Admitted(u)') < Limit + Cardinality(Thread)
<1>1. Fails(u, now)' \subseteq Fails(u, now) /\ Fails(u, now) \subseteq failures[u]
  BY DEF Fails, Failure, TypeOK
<1>2. Admitted(u) \subseteq Thread
  BY DEF Admitted
<1>3. IsFiniteSet(Fails(u, now)) /\ IsFiniteSet(Admitted(u))
  BY <1>1, <1>2, Part DEF Finite
<1>4. /\ Cardinality(Fails(u, now)') \in Nat /\ Cardinality(Fails(u, now)) \in Nat
      /\ Cardinality(Fails(u, now)') <= Cardinality(Fails(u, now))
  BY <1>1, <1>3, Part
<1>5. /\ Cardinality(Admitted(u)') \in Nat /\ Cardinality(Admitted(u)) \in Nat
      /\ Cardinality(Admitted(u)') <= Cardinality(Admitted(u))
  BY <1>3, Part
<1>6. Cardinality(Thread) \in Nat
  BY FS_CardinalityType
<1> QED
  BY <1>4, <1>5, <1>6

\* What the other steps do to the threads in between.
LEMMA AdmittedSteps ==
    ASSUME TypeOK, [Next]_vars, ~(\E t \in Thread : Admit(t)), NEW u \in User
    PROVE  Admitted(u)' \subseteq Admitted(u)
<1> SUFFICES ASSUME NEW s \in Thread, (At(s, "verifying") \/ At(s, "failed"))', serving'[s].user = u
             PROVE  (At(s, "verifying") \/ At(s, "failed")) /\ serving[s].user = u
  BY DEF Admitted
<1> DEFINE Goal == (At(s, "verifying") \/ At(s, "failed")) /\ serving[s].user = u
<1>1. /\ serving \in [Thread -> Request \cup {Idle}]
      /\ serving'[s] # Idle /\ serving'[s].stage \in {"verifying", "failed"}
  BY DEF TypeOK, At
<1>2. ASSUME serving'[s] = serving[s]
      PROVE  Goal
  BY <1>2 DEF At
<1>3. ASSUME NEW t \in Thread, NEW q, q.stage \notin {"verifying", "failed"},
             serving' = [serving EXCEPT ![t] = q]
      PROVE  Goal
  BY <1>1, <1>2, <1>3
<1>4. ASSUME NEW t \in Thread, NEW stage \in {"recording", "reporting", "erring"}, Goes(t, stage)
      PROVE  Goal
  BY <1>3, <1>4 DEF Goes
<1>5. ASSUME NEW t \in Thread, Ends(t)
      PROVE  Goal
  BY <1>1, <1>2, <1>5, EndsType
<1> HIDE DEF Goal
<1>6. ASSUME NEW t \in Thread, EndStep(t)
      PROVE  Goal
  BY <1>4, <1>5, <1>6 DEF EndStep, Report, AnswerError, RecordChange
<1>7. ASSUME NEW t \in Thread, Read(t) \/ Reject(t) \/ Act(t)
      PROVE  Goal
  BY <1>4, <1>5, <1>7 DEF Read, Reject, Act
<1>8. ASSUME NEW t \in Thread, Authenticate(t)
      PROVE  Goal
  <2>1. CASE Goes(t, "reporting")
    BY <1>4, <2>1
  <2>2. CASE ~Goes(t, "reporting")
    <3>1. PICK v \in User, route \in Route :
             serving' = [serving EXCEPT ![t] = [stage |-> "acting", n |-> serving[t].n,
                            user |-> v, role |-> role[v], route |-> route]]
      BY <1>8, <2>2 DEF Authenticate
    <3> QED
      BY <1>3, <3>1
  <2> QED
    BY <2>1, <2>2
<1>9. ASSUME NEW t \in Thread, Verify(t)
      PROVE  Goal
  <2>1. /\ serving[t] = [stage |-> "verifying", n |-> serving[t].n, user |-> serving[t].user]
        /\ At(t, "verifying")
        /\ \A r \in Thread \ {t} : serving'[r] = serving[r]
    BY <1>1, <1>9 DEF Verify, At, Request
  <2>2. serving'[t].user = serving[t].user
    BY <1>1, <1>9, <2>1 DEF Verify
  <2> QED
    BY <1>2, <2>1, <2>2 DEF Goal
<1>10. ASSUME NEW t \in Thread, RecordFailed(t) \/ ClearFailed(t)
       PROVE  Goal
  BY <1>4, <1>10 DEF RecordFailed, ClearFailed
<1>11. ASSUME NEW t \in Thread, Arrive(t)
       PROVE  Goal
  BY <1>3, <1>11 DEF Arrive
<1>12. ASSUME NEW t \in Thread, StoreFails(t)
       PROVE  Goal
  BY <1>4, <1>5, <1>12 DEF StoreFails
<1>13. CASE Restart
  <2>1. serving' = [t \in Thread |-> Idle]
    BY <1>13 DEF Restart
  <2>2. serving'[s] = Idle
    BY <2>1
  <2> QED
    BY <1>1, <2>2
<1>14. CASE Tick \/ UNCHANGED vars
  BY <1>2, <1>14 DEF Tick, vars, Goal
<1> QED
  BY <1>6, <1>7, <1>8, <1>9, <1>10, <1>11, <1>12, <1>13, <1>14
     DEF Next, Step, LoginStep, PrincipalStep, Goal

\* What a failed login does to the throttle of its account.
LEMMA FailedStep ==
    ASSUME TypeOK, Finite, Rested, NEW t \in Thread, RecordFailed(t), NEW u \in User,
           u = serving[t].user,
           Cardinality(Fails(u, now)) + Cardinality(Admitted(u)) < Limit + Cardinality(Thread)
    PROVE  /\ IsFiniteSet(failures'[u])
           /\ \A m \in Nat : now' <= m /\ until'[u] <= m => Cardinality(Fails(u, m)') < Limit
           /\ Cardinality(Fails(u, now)') + Cardinality(Admitted(u)') < Limit + Cardinality(Thread)
<1> DEFINE f == [at |-> now, n |-> serving[t].n]
           recent == Recent(u) \cup {f}
<1>1. /\ failures'[u] = recent
      /\ until'[u] = IF Cardinality(recent) >= Limit THEN now + Cooldown ELSE Standing(u)
      /\ now' = now /\ now \in Nat /\ until[u] \in Nat
      /\ Goes(t, "reporting") /\ At(t, "failed")
  BY DEF RecordFailed, Pruned, TypeOK
<1>2. f.at = now /\ \A g \in failures[u] : g.at \in Nat /\ g.at <= now
  BY DEF Failure, TypeOK
<1>3. IsFiniteSet(recent) /\ Recent(u) \subseteq failures[u]
  <2>1. Recent(u) \subseteq failures[u]
    BY DEF Recent
  <2>2. IsFiniteSet(Recent(u))
    BY <2>1, Part DEF Finite
  <2> QED
    BY <2>1, <2>2, OneMore
<1> HIDE DEF f, recent
<1>4. ASSUME NEW m \in Nat, now' <= m, until'[u] <= m
      PROVE  Cardinality(Fails(u, m)') < Limit
  <2>1. Fails(u, m)' \subseteq recent
    BY <1>1 DEF Fails
  <2>2. /\ Cardinality(Fails(u, m)') <= Cardinality(recent)
        /\ Cardinality(Fails(u, m)') \in Nat /\ Cardinality(recent) \in Nat
    BY <1>3, <2>1, Part
  <2>3. CASE Cardinality(recent) >= Limit
    <3>1. now + Cooldown <= m
      BY <1>1, <1>4, <2>3
    <3>2. \A g \in recent : g.at \in Nat /\ g.at <= now
      BY <1>1, <1>2, <1>3 DEF recent
    <3>3. \A g \in recent : ~(m - g.at < Window)
      BY <1>1, <3>1, <3>2
    <3>4. Fails(u, m)' = {}
      BY <1>1, <3>3 DEF Fails
    <3> QED
      BY <3>4, FS_EmptySet
  <2>4. CASE ~(Cardinality(recent) >= Limit)
    BY <2>2, <2>4
  <2> QED
    BY <2>3, <2>4
<1>5. Cardinality(Fails(u, now)') <= Cardinality(Fails(u, now)) + 1
      /\ Cardinality(Fails(u, now)') \in Nat /\ Cardinality(Fails(u, now)) \in Nat
  <2>1. Fails(u, now)' \subseteq Fails(u, now) \cup {f}
    BY <1>1, <1>3 DEF Fails, recent
  <2>2. Fails(u, now) \subseteq failures[u]
    BY DEF Fails
  <2>3. IsFiniteSet(Fails(u, now))
    BY <2>2, Part DEF Finite
  <2>4. /\ IsFiniteSet(Fails(u, now) \cup {f})
        /\ Cardinality(Fails(u, now) \cup {f}) <= Cardinality(Fails(u, now)) + 1
        /\ Cardinality(Fails(u, now) \cup {f}) \in Nat /\ Cardinality(Fails(u, now)) \in Nat
    BY <2>3, OneMore
  <2>5. /\ Cardinality(Fails(u, now)') <= Cardinality(Fails(u, now) \cup {f})
        /\ Cardinality(Fails(u, now)') \in Nat
    BY <2>1, <2>4, Part
  <2> QED
    BY <2>4, <2>5
<1>6. Cardinality(Admitted(u)') <= Cardinality(Admitted(u)) - 1
      /\ Cardinality(Admitted(u)') \in Nat /\ Cardinality(Admitted(u)) \in Nat
  <2>1. t \in Admitted(u) /\ Admitted(u) \subseteq Thread
    BY <1>1 DEF Admitted
  <2>2. Admitted(u)' \subseteq Admitted(u) \ {t}
    <3>1. serving'[t].stage = "reporting" /\ \A s \in Thread \ {t} : serving'[s] = serving[s]
      BY <1>1, GoesAt DEF At
    <3> QED
      BY <3>1 DEF Admitted, At
  <2>3. IsFiniteSet(Admitted(u))
    BY <2>1, Part
  <2>4. /\ IsFiniteSet(Admitted(u) \ {t})
        /\ Cardinality(Admitted(u) \ {t}) = Cardinality(Admitted(u)) - 1
        /\ Cardinality(Admitted(u)) \in Nat /\ Cardinality(Admitted(u) \ {t}) \in Nat
    BY <2>1, <2>3, OneLess
  <2>5. /\ Cardinality(Admitted(u)') <= Cardinality(Admitted(u) \ {t})
        /\ Cardinality(Admitted(u)') \in Nat
    BY <2>2, <2>4, Part
  <2> QED
    BY <2>4, <2>5
<1>7. Cardinality(Thread) \in Nat
  BY FS_CardinalityType
<1> QED
  BY <1>1, <1>3, <1>4, <1>5, <1>6, <1>7

\* Every step keeps the throttle's bounds.
LEMMA ThrottleStep ==
    ASSUME TypeOK, Finite, Rested, Room, [Next]_vars
    PROVE  Finite' /\ Rested' /\ Room'
<1> DEFINE Goal(u) ==
      /\ IsFiniteSet(failures'[u])
      /\ \A m \in Nat : now' <= m /\ until'[u] <= m => Cardinality(Fails(u, m)') < Limit
      /\ Cardinality(Fails(u, now)') + Cardinality(Admitted(u)') < Limit + Cardinality(Thread)
<1> SUFFICES ASSUME NEW u \in User PROVE Goal(u)
  BY DEF Finite, Rested, Room
<1>1. /\ now \in Nat /\ until[u] \in Nat
      /\ Cardinality(Fails(u, now)) + Cardinality(Admitted(u)) < Limit + Cardinality(Thread)
      /\ Pruned[u] = Recent(u) /\ Recent(u) \subseteq failures[u]
      /\ Standing(u) = until[u] \/ until[u] <= now
  BY DEF TypeOK, Room, Pruned, Recent, Standing
\* A step that leaves fewer failures, no shorter a wait, and admits no thread for u.
<1>2. ASSUME now' \in Nat, now <= now', failures'[u] \subseteq failures[u],
             failures'[u] = {} \/ until'[u] = until[u] \/ until[u] <= now',
             Admitted(u)' \subseteq Admitted(u)
      PROVE  Goal(u)
  BY <1>1, <1>2, RestedKept, RoomKept
<1>3. ASSUME NEW t \in Thread, Admit(t)
      PROVE  Goal(u)
  <2>1. /\ failures'[u] \subseteq failures[u] /\ now' = now
        /\ until'[u] = until[u] \/ until[u] <= now'
    BY <1>1, <1>3 DEF Admit
  <2>2. CASE Admitted(u)' \subseteq Admitted(u)
    BY <1>1, <1>2, <2>1, <2>2
  <2>3. CASE ~(Admitted(u)' \subseteq Admitted(u))
    <3>1. ~Limited(u)
      <4>1. serving[t] # Idle
        BY <1>3 DEF Admit, At
      <4>2. CASE Goes(t, "reporting")
        <5>1. serving'[t].stage = "reporting" /\ \A s \in Thread \ {t} : serving'[s] = serving[s]
          BY <4>1, <4>2, GoesAt
        <5> QED
          BY <2>3, <5>1 DEF Admitted, At
      <4>3. CASE ~Goes(t, "reporting")
        <5>1. PICK v \in Tried :
                 /\ ~Limited(v)
                 /\ serving' = [serving EXCEPT ![t] =
                       [stage |-> "verifying", n |-> serving[t].n, user |-> v]]
          BY <1>3, <4>3 DEF Admit
        <5>2. serving'[t].user = v /\ \A s \in Thread \ {t} : serving'[s] = serving[s]
          BY <5>1 DEF TypeOK
        <5>3. v = u
          BY <2>3, <5>2 DEF Admitted, At
        <5> QED
          BY <5>1, <5>3
      <4> QED
        BY <4>2, <4>3
    <3>2. Cardinality(Fails(u, now)) < Limit
      BY <1>1, <3>1 DEF Limited, Rested
    <3>3. Fails(u, now)' \subseteq Fails(u, now) /\ Fails(u, now) \subseteq failures[u]
      BY <2>1 DEF Fails
    <3>4. IsFiniteSet(Fails(u, now))
      BY <3>3, Part DEF Finite
    <3>5. /\ Cardinality(Fails(u, now)') <= Cardinality(Fails(u, now))
          /\ Cardinality(Fails(u, now)') \in Nat /\ Cardinality(Fails(u, now)) \in Nat
      BY <3>3, <3>4, Part
    <3>6. Admitted(u)' \subseteq Thread
      BY DEF Admitted
    <3>7. /\ Cardinality(Admitted(u)') <= Cardinality(Thread)
          /\ Cardinality(Admitted(u)') \in Nat /\ Cardinality(Thread) \in Nat
      BY <3>6, Part
    <3>8. Cardinality(Fails(u, now)') + Cardinality(Admitted(u)') < Limit + Cardinality(Thread)
      BY <3>2, <3>5, <3>7
    <3>9. now' \in Nat /\ now <= now'
      BY <1>1, <2>1
    <3> QED
      BY <2>1, <3>8, <3>9, RestedKept
  <2> QED
    BY <2>2, <2>3
<1>4. ASSUME NEW t \in Thread, RecordFailed(t)
      PROVE  Goal(u)
  <2>1. CASE u = serving[t].user
    BY <1>1, <1>4, <2>1, FailedStep
  <2>2. CASE u # serving[t].user
    <3>1. /\ failures'[u] \subseteq failures[u] /\ now' = now
          /\ until'[u] = until[u] \/ until[u] <= now'
      <4>1. Pruned \in [User -> SUBSET Failure]
        BY DEF Pruned, Recent, TypeOK
      <4> QED
        BY <1>1, <1>4, <2>2, <4>1 DEF RecordFailed
    <3>2. Admitted(u)' \subseteq Admitted(u)
      <4>1. serving[t] # Idle /\ Goes(t, "reporting")
        BY <1>4 DEF RecordFailed, At
      <4>2. serving'[t].stage = "reporting" /\ \A s \in Thread \ {t} : serving'[s] = serving[s]
        BY <4>1, GoesAt
      <4> QED
        BY <4>2 DEF Admitted, At
    <3> QED
      BY <1>1, <1>2, <3>1, <3>2
  <2> QED
    BY <2>1, <2>2
<1>5. ASSUME ~(\E t \in Thread : Admit(t) \/ RecordFailed(t))
      PROVE  Goal(u)
  <2>1. Admitted(u)' \subseteq Admitted(u)
    BY <1>5, AdmittedSteps
  <2>2. \/ failures' = failures /\ until' = until /\ (now' = now \/ now' = now + 1)
        \/ failures'[u] = {} /\ now' = now
        \/ failures'[u] = failures[u] /\ until'[u] = until[u] /\ now' = now
    <3>1. CASE \E t \in Thread : ClearFailed(t)
      BY <3>1 DEF ClearFailed, TypeOK
    <3>2. CASE \E t \in Thread : Verify(t) \/ PrincipalStep(t) \/ EndStep(t)
      BY <3>2 DEF Verify, PrincipalStep, EndStep, Authenticate, Read, Reject, Act, Report,
                  AnswerError, RecordChange, throttle
    <3>3. CASE Restart
      BY <3>3 DEF Restart
    <3>4. CASE Tick \/ UNCHANGED vars
      BY <3>4 DEF Tick, vars, throttle
    <3>5. CASE \E t \in Thread : Arrive(t) \/ StoreFails(t)
      BY <3>5 DEF Arrive, StoreFails, throttle
    <3> QED
      BY <1>5, <3>1, <3>2, <3>3, <3>4, <3>5 DEF Next, Step, LoginStep
  <2>3. now' \in Nat /\ now <= now'
    BY <1>1, <2>2
  <2> QED
    BY <1>2, <2>1, <2>2, <2>3
<1> QED
  BY <1>3, <1>4, <1>5

\* For any limit, window and number of threads, and a cooldown no shorter than the
\* window: however many logins are under way at once, no more failures than the limit
\* and one for every other thread are counted for an account within the window.
THEOREM ThrottleAlwaysBounds == Spec => []ThrottleBounds
<1>1. Init => Finite /\ Rested /\ Room
  <2> SUFFICES ASSUME Init PROVE Finite /\ Rested /\ Room
    OBVIOUS
  <2>1. /\ \A u \in User : failures[u] = {} /\ Admitted(u) = {}
        /\ \A u \in User : \A m \in Nat : Fails(u, m) = {}
        /\ now \in Nat
    BY DEF Init, Admitted, At, Fails
  <2>2. Cardinality(Thread) \in Nat /\ IsFiniteSet({}) /\ Cardinality({}) = 0
    BY FS_CardinalityType, FS_EmptySet
  <2>3. Finite
    BY <2>1, <2>2 DEF Finite
  <2>4. Rested
    BY <2>1, <2>2 DEF Rested
  <2>5. Room
    <3>1. \A u \in User : Cardinality(Fails(u, now)) = 0 /\ Cardinality(Admitted(u)) = 0
      BY <2>1, <2>2
    <3>2. 0 + 0 < Limit + Cardinality(Thread)
      BY <2>2
    <3> QED
      BY <3>1, <3>2 DEF Room
  <2> QED
    BY <2>3, <2>4, <2>5
<1>2. TypeOK /\ Finite /\ Rested /\ Room /\ [Next]_vars => Finite' /\ Rested' /\ Room'
  BY ThrottleStep
<1>3. TypeOK /\ Finite /\ Room => ThrottleBounds
  <2> SUFFICES ASSUME TypeOK, Finite, Room, NEW u \in User
               PROVE  Cardinality({f \in failures[u] : now - f.at < Window})
                         <= Limit + Cardinality(Thread) - 1
    BY DEF ThrottleBounds
  <2>1. Fails(u, now) \subseteq failures[u] /\ Admitted(u) \subseteq Thread
    BY DEF Fails, Admitted
  <2>2. /\ Cardinality(Fails(u, now)) \in Nat /\ Cardinality(Admitted(u)) \in Nat
        /\ Cardinality(Thread) \in Nat
    BY <2>1, Part DEF Finite
  <2>3. Cardinality(Fails(u, now)) <= Limit + Cardinality(Thread) - 1
    BY <2>2 DEF Room
  <2> QED
    BY <2>3 DEF Fails
<1> QED
  BY <1>1, <1>2, <1>3, TypeCorrect, PTL DEF Spec

-------------------------------------------------------------------------------
(* The accounting of requests *)

Numbers == {serving[t].n : t \in Busy}

\* Two threads never work on the same request.
Distinct == \A t, s \in Busy : serving[t].n = serving[s].n => t = s

\* A thread goes on with its request.
GoesOn(t) ==
    /\ serving'[t] # Idle
    /\ serving'[t].n = serving[t].n
    /\ \A s \in Thread \ {t} : serving'[s] = serving[s]

\* Every step of a thread goes on with the request, or counts it and ends it.
LEMMA ThreadSteps ==
    ASSUME TypeOK, NEW t \in Thread, Step(t)
    PROVE  /\ t \in Busy /\ requests' = requests /\ cut' = cut
           /\ \/ GoesOn(t) /\ answered' = answered /\ errors' = errors
              \/ Ends(t) /\ answered' = answered + 1 /\ errors' = errors
              \/ Ends(t) /\ answered' = answered /\ errors' = errors + 1
<1>1. serving[t] # Idle /\ t \in Busy /\ serving \in [Thread -> Request \cup {Idle}]
  BY DEF Step, LoginStep, PrincipalStep, EndStep, Admit, Verify, RecordFailed, ClearFailed,
         Authenticate, Read, Reject, Act, Report, AnswerError, RecordChange, At, Busy, TypeOK
<1>2. requests' = requests /\ cut' = cut
  BY DEF Step, LoginStep, PrincipalStep, EndStep, Admit, Verify, RecordFailed, ClearFailed,
         Authenticate, Read, Reject, Act, Report, AnswerError, RecordChange, counters
<1>3. serving[t].n \in Nat
  BY <1>1, RequestParts DEF TypeOK
<1>4. ASSUME NEW stage \in {"recording", "reporting", "erring"}, Goes(t, stage)
      PROVE  GoesOn(t)
  BY <1>1, <1>4, GoesAt DEF GoesOn
<1>5. ASSUME NEW q \in Request, q.n = serving[t].n, serving' = [serving EXCEPT ![t] = q]
      PROVE  GoesOn(t)
  BY <1>1, <1>5 DEF GoesOn
<1>6. CASE EndStep(t)
  BY <1>1, <1>2, <1>4, <1>6 DEF EndStep, Report, AnswerError, RecordChange, counters
<1>7. CASE Read(t)
  BY <1>1, <1>2, <1>7 DEF Read
<1>8. CASE Reject(t) \/ Act(t) \/ RecordFailed(t) \/ ClearFailed(t)
  <2>1. answered' = answered /\ errors' = errors
    BY <1>8 DEF Reject, Act, RecordFailed, ClearFailed, counters
  <2>2. GoesOn(t)
    BY <1>4, <1>8 DEF Reject, Act, RecordFailed, ClearFailed
  <2> QED
    BY <1>1, <1>2, <2>1, <2>2
<1>9. CASE Authenticate(t)
  <2>1. answered' = answered /\ errors' = errors
    BY <1>9 DEF Authenticate, counters
  <2>2. CASE Goes(t, "reporting")
    BY <1>1, <1>2, <1>4, <2>1, <2>2
  <2>3. CASE ~Goes(t, "reporting")
    <3>1. PICK u \in User, route \in Route :
             serving' = [serving EXCEPT ![t] = [stage |-> "acting", n |-> serving[t].n,
                            user |-> u, role |-> role[u], route |-> route]]
      BY <1>9, <2>3 DEF Authenticate
    <3>2. role[u] \in Role
      BY DEF TypeOK
    <3>3. [stage |-> "acting", n |-> serving[t].n, user |-> u, role |-> role[u], route |-> route]
             \in Request
      BY <1>3, <3>2 DEF Request
    <3>4. GoesOn(t)
      BY <1>5, <3>1, <3>3
    <3> QED
      BY <1>1, <1>2, <2>1, <3>4
  <2> QED
    BY <2>2, <2>3
<1>10. CASE Admit(t)
  <2>1. answered' = answered /\ errors' = errors
    BY <1>10 DEF Admit, counters
  <2>2. CASE Goes(t, "reporting")
    BY <1>1, <1>2, <1>4, <2>1, <2>2
  <2>3. CASE ~Goes(t, "reporting")
    <3>1. PICK u \in Tried : serving' = [serving EXCEPT ![t] =
                                [stage |-> "verifying", n |-> serving[t].n, user |-> u]]
      BY <1>10, <2>3 DEF Admit
    <3>2. [stage |-> "verifying", n |-> serving[t].n, user |-> u] \in Request
      BY <1>3 DEF Request
    <3>3. GoesOn(t)
      BY <1>5, <3>1, <3>2
    <3> QED
      BY <1>1, <1>2, <2>1, <3>3
  <2> QED
    BY <2>2, <2>3
<1>11. CASE Verify(t)
  <2>1. answered' = answered /\ errors' = errors
    BY <1>11 DEF Verify, counters
  <2>2. /\ serving[t] = [stage |-> "verifying", n |-> serving[t].n, user |-> serving[t].user]
        /\ serving[t].user \in User
    BY <1>1, <1>11 DEF Verify, At, Request
  <2>3. PICK stage \in {"failed", "clearing"} : serving' = [serving EXCEPT ![t].stage = stage]
    BY <1>11 DEF Verify
  <2>4. [serving[t] EXCEPT !.stage = stage]
           = [stage |-> stage, n |-> serving[t].n, user |-> serving[t].user]
    BY <2>2
  <2>5. [stage |-> stage, n |-> serving[t].n, user |-> serving[t].user] \in Request
    BY <1>3, <2>2 DEF Request
  <2>6. GoesOn(t)
    BY <1>5, <2>3, <2>4, <2>5
  <2> QED
    BY <1>1, <1>2, <2>1, <2>6
<1> QED
  BY <1>6, <1>7, <1>8, <1>9, <1>10, <1>11 DEF Step, LoginStep, PrincipalStep

\* As many requests are in hand as they have numbers.
LEMMA BusyNumbers ==
    ASSUME TypeOK, Distinct
    PROVE  /\ IsFiniteSet(Busy) /\ IsFiniteSet(Numbers)
           /\ Cardinality(Busy) \in Nat
           /\ Cardinality(Numbers) = Cardinality(Busy)
<1>1. Busy \subseteq Thread
  BY DEF Busy
<1>2. IsFiniteSet(Busy) /\ Cardinality(Busy) \in Nat
  BY <1>1, Part
<1> DEFINE f == [t \in Busy |-> serving[t].n]
<1>3. f \in Bijection(Busy, Numbers)
  BY DEF Bijection, Injection, Surjection, Numbers, Distinct, IsInjective
<1>4. ExistsBijection(Busy, Numbers)
  BY <1>3 DEF ExistsBijection
<1> QED
  BY <1>2, <1>4, FS_Bijection

\* Requests that were hit and have gone.
Hit == cut \ Numbers

Accounted ==
    /\ Distinct
    /\ answered + errors + Cardinality(Busy) <= requests
    /\ requests <= answered + errors + Cardinality(Busy) + Cardinality(Hit)

\* What was hit is finite.
LEMMA HitFinite ==
    ASSUME TypeOK
    PROVE  /\ IsFiniteSet(cut) /\ IsFiniteSet(Hit)
           /\ Cardinality(Hit) \in Nat /\ Cardinality(cut) \in Nat
           /\ Cardinality(Hit) <= Cardinality(cut)
<1>1. IsFiniteSet(1..requests) /\ cut \subseteq 1..requests
  BY FS_Interval DEF TypeOK
<1>2. IsFiniteSet(cut)
  BY <1>1, Part
<1>3. Hit \subseteq cut
  BY DEF Hit
<1> QED
  BY <1>2, <1>3, Part

\* A thread that ends frees its number.
LEMMA EndsFrees ==
    ASSUME TypeOK, Distinct, NEW t \in Busy, Ends(t)
    PROVE  /\ Busy' = Busy \ {t}
           /\ Distinct'
           /\ Numbers' = Numbers \ {serving[t].n}
           /\ Cardinality(Busy') = Cardinality(Busy) - 1
           /\ Cardinality(Busy') \in Nat /\ Cardinality(Busy) \in Nat
<1>1. serving'[t] = Idle /\ \A s \in Thread \ {t} : serving'[s] = serving[s]
  BY EndsType DEF Busy
<1>2. Busy' = Busy \ {t}
  BY <1>1 DEF Busy
<1>3. \A s \in Busy' : s # t /\ s \in Busy /\ serving'[s] = serving[s]
  BY <1>1, <1>2 DEF Busy
<1>4. Distinct'
  BY <1>3 DEF Distinct
<1>5. \A s \in Busy \ {t} : serving[s].n # serving[t].n
  BY DEF Distinct
<1>6. Numbers' = Numbers \ {serving[t].n}
  BY <1>2, <1>3, <1>5 DEF Numbers
<1>7. IsFiniteSet(Busy) /\ Cardinality(Busy) \in Nat
  BY BusyNumbers
<1>8. Cardinality(Busy \ {t}) = Cardinality(Busy) - 1 /\ Cardinality(Busy \ {t}) \in Nat
  BY <1>7, OneLess
<1> QED
  BY <1>2, <1>4, <1>6, <1>7, <1>8

\* A thread that goes on keeps it.
LEMMA GoesOnKeeps ==
    ASSUME TypeOK, Distinct, NEW t \in Busy, GoesOn(t)
    PROVE  Busy' = Busy /\ Numbers' = Numbers /\ Distinct'
<1>1. \A s \in Thread : (serving'[s] # Idle <=> serving[s] # Idle)
                        /\ (serving[s] # Idle => serving'[s].n = serving[s].n)
  BY DEF GoesOn, Busy
<1>2. Busy' = Busy
  BY <1>1 DEF Busy
<1>3. \A s \in Busy : serving'[s].n = serving[s].n
  BY <1>1 DEF Busy
<1> QED
  BY <1>2, <1>3 DEF Numbers, Distinct

\* Every step keeps the account.
LEMMA AccountedStep ==
    ASSUME TypeOK, TypeOK', Accounted, [Next]_vars
    PROVE  Accounted'
<1>1. /\ Distinct
      /\ answered \in Nat /\ errors \in Nat /\ requests \in Nat
      /\ Cardinality(Busy) \in Nat /\ Cardinality(Hit) \in Nat /\ Cardinality(Hit') \in Nat
      /\ IsFiniteSet(Hit) /\ IsFiniteSet(Hit')
      /\ answered + errors + Cardinality(Busy) <= requests
      /\ requests <= answered + errors + Cardinality(Busy) + Cardinality(Hit)
  <2>1. IsFiniteSet(Hit') /\ Cardinality(Hit') \in Nat
    <3>1. IsFiniteSet(1..requests') /\ cut' \subseteq 1..requests'
      BY FS_Interval DEF TypeOK
    <3>2. Hit' \subseteq 1..requests'
      BY <3>1 DEF Hit
    <3> QED
      BY <3>1, <3>2, Part
  <2> QED
    BY <2>1, HitFinite, BusyNumbers DEF TypeOK, Accounted
\* Fewer threads, with as many requests counted as threads ended, or lost.
<1>2. ASSUME Distinct', requests' = requests, answered' \in Nat, errors' \in Nat,
             NEW k \in Nat, Cardinality(Busy') \in Nat,
             answered' + errors' + Cardinality(Busy') + k = answered + errors + Cardinality(Busy),
             Cardinality(Hit) + k <= Cardinality(Hit')
      PROVE  Accounted'
  <2>1. Cardinality(Hit') \in Nat
    BY <1>1
  <2> HIDE DEF Hit
  <2> QED
    BY <1>1, <1>2, <2>1 DEF Accounted
<1>3. ASSUME Hit \subseteq Hit'
      PROVE  Cardinality(Hit) <= Cardinality(Hit')
  BY <1>1, <1>3, Part
<1>4. ASSUME NEW t \in Thread, Step(t)
      PROVE  Accounted'
  <2>1. t \in Busy /\ requests' = requests /\ cut' = cut
    BY <1>4, ThreadSteps
  <2>2. CASE GoesOn(t) /\ answered' = answered /\ errors' = errors
    <3>1. Busy' = Busy /\ Hit' = Hit /\ Distinct'
      BY <1>1, <2>1, <2>2, GoesOnKeeps DEF Hit
    <3> QED
      BY <1>1, <1>2, <1>3, <2>1, <2>2, <3>1
  <2>3. ASSUME Ends(t)
        PROVE  /\ Cardinality(Busy') = Cardinality(Busy) - 1 /\ Cardinality(Busy') \in Nat
               /\ Cardinality(Hit) + 0 <= Cardinality(Hit') /\ Distinct'
    <3>1. /\ Cardinality(Busy') = Cardinality(Busy) - 1 /\ Cardinality(Busy') \in Nat
          /\ Hit \subseteq Hit' /\ Distinct'
      BY <1>1, <2>1, <2>3, EndsFrees DEF Hit
    <3> QED
      BY <1>1, <1>3, <3>1
  <2>4. CASE Ends(t) /\ answered' = answered + 1 /\ errors' = errors
    BY <1>1, <1>2, <2>1, <2>3, <2>4
  <2>5. CASE Ends(t) /\ answered' = answered /\ errors' = errors + 1
    BY <1>1, <1>2, <2>1, <2>3, <2>5
  <2> QED
    BY <1>4, <2>2, <2>4, <2>5, ThreadSteps
<1>5. ASSUME NEW t \in Thread, StoreFails(t)
      PROVE  Accounted'
  <2>1. /\ t \in Busy /\ requests' = requests /\ answered' = answered /\ errors' = errors
        /\ cut' = cut \cup {serving[t].n}
        /\ Goes(t, "erring") \/ Ends(t)
    BY <1>5 DEF StoreFails, At, Busy, counters
  <2>2. CASE Goes(t, "erring")
    <3>1. GoesOn(t)
      BY <2>1, <2>2, GoesAt DEF GoesOn, Busy
    <3>2. Busy' = Busy /\ Numbers' = Numbers /\ Distinct'
      BY <1>1, <2>1, <3>1, GoesOnKeeps
    <3>3. Hit \subseteq Hit'
      BY <2>1, <3>2 DEF Hit
    <3> QED
      BY <1>1, <1>2, <1>3, <2>1, <3>2, <3>3
  <2>3. CASE Ends(t)
    <3>1. /\ Cardinality(Busy') = Cardinality(Busy) - 1 /\ Cardinality(Busy') \in Nat
          /\ Numbers' = Numbers \ {serving[t].n} /\ Distinct'
      BY <1>1, <2>1, <2>3, EndsFrees
    <3>2. Hit \cup {serving[t].n} \subseteq Hit' /\ serving[t].n \notin Hit
      BY <2>1, <3>1 DEF Hit, Numbers
    <3>3. IsFiniteSet(Hit \cup {serving[t].n})
          /\ Cardinality(Hit \cup {serving[t].n}) = Cardinality(Hit) + 1
      BY <1>1, <3>2, OneMore
    <3>4. Cardinality(Hit) + 1 <= Cardinality(Hit')
      BY <1>1, <3>2, <3>3, Part
    <3> QED
      BY <1>1, <1>2, <2>1, <3>1, <3>4
  <2> QED
    BY <2>1, <2>2, <2>3
<1>6. CASE Restart
  <2>1. /\ requests' = requests /\ answered' = answered /\ errors' = errors
        /\ cut' = cut \cup Numbers /\ serving' = [t \in Thread |-> Idle]
    BY <1>6 DEF Restart, counters, Numbers
  <2>2. Busy' = {} /\ Numbers' = {}
    BY <2>1 DEF Busy, Numbers
  <2>3. Distinct' /\ Cardinality(Busy') = 0
    BY <2>2, FS_EmptySet DEF Distinct
  <2>4. Hit' = Hit \cup Numbers /\ Hit \cap Numbers = {}
    BY <2>1, <2>2 DEF Hit
  <2>5. /\ IsFiniteSet(Numbers) /\ Cardinality(Numbers) = Cardinality(Busy)
    BY <1>1, BusyNumbers
  <2>6. Cardinality(Hit') = Cardinality(Hit) + Cardinality(Numbers) - Cardinality(Hit \cap Numbers)
    BY <1>1, <2>4, <2>5, FS_Union
  <2>7. Cardinality(Hit \cap Numbers) = 0
    BY <2>4, FS_EmptySet
  <2>8. Cardinality(Hit) + Cardinality(Busy) <= Cardinality(Hit')
    BY <1>1, <2>5, <2>6, <2>7
  <2> QED
    BY <1>1, <1>2, <2>1, <2>3, <2>8
<1>7. ASSUME NEW t \in Thread, Arrive(t)
      PROVE  Accounted'
  <2>1. PICK stage \in {"entering", "erring"} :
           serving' = [serving EXCEPT ![t] = [stage |-> stage, n |-> requests + 1]]
    BY <1>7 DEF Arrive
  <2>2. /\ serving[t] = Idle /\ requests' = requests + 1 /\ answered' = answered
        /\ errors' = errors /\ cut' = cut /\ t \notin Busy
    BY <1>7 DEF Arrive, Busy
  <2>3. serving'[t] = [stage |-> stage, n |-> requests + 1]
        /\ \A s \in Thread \ {t} : serving'[s] = serving[s]
    BY <2>1 DEF TypeOK
  <2>4. serving'[t] # Idle /\ serving'[t].n = requests + 1
    <3>1. [stage |-> stage, n |-> requests + 1] \in Request
      BY <1>1 DEF Request
    <3> QED
      BY <2>3, <3>1
  <2>5. Busy' = Busy \cup {t}
    BY <2>2, <2>3, <2>4 DEF Busy
  <2>6. \A s \in Busy : s \in Thread /\ s # t /\ serving'[s] = serving[s] /\ serving[s].n \in 1..requests
    BY <2>2, <2>3 DEF Busy, TypeOK
  <2>7. Distinct'
    BY <1>1, <2>4, <2>5, <2>6 DEF Distinct
  <2>8. Numbers' = Numbers \cup {requests + 1}
    BY <2>4, <2>5, <2>6 DEF Numbers
  <2>9. Hit' = Hit
    <3>1. requests + 1 \notin cut
      BY <1>1 DEF TypeOK
    <3> QED
      BY <2>2, <2>8, <3>1 DEF Hit
  <2>10. Cardinality(Busy') = Cardinality(Busy) + 1
    BY <1>1, <2>2, <2>5, BusyNumbers, OneMore
  <2> QED
    BY <1>1, <2>2, <2>7, <2>9, <2>10 DEF Accounted
<1>8. CASE Tick \/ UNCHANGED vars
  <2>1. UNCHANGED <<requests, answered, errors, cut, serving>>
    BY <1>8 DEF Tick, vars, counters
  <2>2. Busy' = Busy /\ Hit' = Hit /\ Distinct'
    BY <1>1, <2>1 DEF Busy, Hit, Numbers, Distinct
  <2> QED
    BY <2>1, <2>2 DEF Accounted
<1> QED
  BY <1>4, <1>5, <1>6, <1>7, <1>8 DEF Next

\* For any number of threads and faults: every request is in hand, answered or counted
\* as an error, once, and the others were hit by a fault.
THEOREM RequestsAlwaysAccounted == Spec => []RequestsAccounted
<1>1. Init => Accounted
  <2> SUFFICES ASSUME Init PROVE Accounted
    OBVIOUS
  <2>1. Busy = {} /\ Cardinality(Busy) = 0
    BY FS_EmptySet DEF Init, Busy
  <2>2. TypeOK
    BY TypeInit
  <2>3. Cardinality(Hit) \in Nat
    BY <2>2, HitFinite
  <2>4. requests = 0 /\ answered = 0 /\ errors = 0
    BY DEF Init
  <2> QED
    BY <2>1, <2>3, <2>4 DEF Accounted, Distinct
<1>2. TypeOK /\ TypeOK' /\ Accounted /\ [Next]_vars => Accounted'
  BY AccountedStep
<1>3. TypeOK /\ Accounted => RequestsAccounted
  <2> SUFFICES ASSUME TypeOK, Accounted PROVE RequestsAccounted
    OBVIOUS
  <2>1. /\ Cardinality(Hit) \in Nat /\ Cardinality(cut) \in Nat
        /\ Cardinality(Hit) <= Cardinality(cut)
        /\ Cardinality(Busy) \in Nat /\ answered \in Nat /\ errors \in Nat /\ requests \in Nat
    BY HitFinite, BusyNumbers DEF Accounted, TypeOK
  <2> QED
    BY <2>1 DEF Accounted, RequestsAccounted
<1> QED
  BY <1>1, <1>2, <1>3, TypeCorrect, PTL DEF Spec

-------------------------------------------------------------------------------
(* A thread always has a step *)

\* There is an oldest entry.
LEMMA OldestEntry ==
    ASSUME NEW S, S \subseteq Entry, S # {}
    PROVE  \E old \in S : \A f \in S : old.at <= f.at
<1> DEFINE T == {e.at : e \in S}  R == OpToRel(<, Nat)
<1>1. T \subseteq Nat /\ T # {}
  BY DEF Entry
<1>2. \E x \in T : \A y \in T : <<y, x>> \notin R
  <2>1. IsWellFoundedOn(R, Nat)
    BY NatLessThanWellFounded
  <2> HIDE DEF T, R
  <2> QED
    BY <1>1, <2>1, WFMin
<1>3. PICK x \in T : \A y \in T : ~(y < x)
  BY <1>1, <1>2 DEF OpToRel
<1>4. PICK old \in S : old.at = x
  OBVIOUS
<1>5. ASSUME NEW f \in S PROVE old.at <= f.at
  <2>1. f.at \in T
    OBVIOUS
  <2> HIDE DEF T
  <2>2. f.at \in Nat /\ x \in Nat /\ ~(f.at < x)
    BY <1>1, <1>3, <2>1
  <2> QED
    BY <1>4, <2>2
<1> QED
  BY <1>5

\* The guards on the way of a request: a new entry finds room in the log or an oldest
\* entry to take the place of; elsewhere a thread can at least give its request up.
Ready(t) ==
    \/ \E stage \in {"entering", "verifying", "failed", "clearing", "acting", "erring"} :
          At(t, stage)
    \/ /\ At(t, "reporting") \/ At(t, "recording")
       /\ \/ Cardinality(log) < MaxLogs
          \/ \E old \in log : \A f \in log : old.at <= f.at

LEMMA AlwaysReady ==
    ASSUME TypeOK, NEW t \in Busy
    PROVE  Ready(t)
<1>1. serving[t] \in Request
  BY DEF Busy, TypeOK
<1>2. Cardinality(log) < MaxLogs \/ \E old \in log : \A f \in log : old.at <= f.at
  <2>1. log \subseteq Entry /\ Cardinality(log) \in Nat /\ Cardinality(log) <= MaxLogs
    BY Part DEF TypeOK
  <2>2. CASE log = {}
    BY <2>2, FS_EmptySet
  <2>3. CASE log # {}
    BY <2>1, <2>3, OldestEntry
  <2> QED
    BY <2>2, <2>3
<1> QED
  BY <1>1, <1>2 DEF Ready, At, Request, Busy

\* Such a guard is all that a step needs: the meaning of ENABLED for Step, which the
\* provers cannot derive.
GuardsSuffice ==
    \A t \in Thread : TypeOK /\ Ready(t) => ENABLED <<Step(t)>>_vars

-------------------------------------------------------------------------------
(* Requests end *)

Stages ==
    {"entering", "verifying", "acting", "failed", "clearing", "recording", "reporting", "erring"}

\* Steps that a thread is from the end of its request, at most.
Rank ==
    [s \in Stages |->
        CASE s = "entering" -> 5
          [] s \in {"verifying", "acting"} -> 4
          [] s \in {"failed", "clearing"} -> 3
          [] s \in {"recording", "reporting"} -> 2
          [] s = "erring" -> 1]

Left(t) == IF serving[t] = Idle THEN 0 ELSE Rank[serving[t].stage]

LEMMA LeftType ==
    ASSUME TypeOK, NEW t \in Thread
    PROVE  Left(t) \in 0..5 /\ (Left(t) = 0 <=> serving[t] = Idle)
<1>1. serving[t] # Idle => serving[t].stage \in Stages
  BY DEF TypeOK, Request, Stages
<1>2. \A s \in Stages : Rank[s] \in 1..5
  BY DEF Rank, Stages
<1> QED
  BY <1>1, <1>2 DEF Left

\* A thread that takes up another stage.
LEMMA LeftGoes ==
    ASSUME TypeOK, NEW t \in Thread, serving[t] # Idle,
           NEW stage \in {"entering", "recording", "reporting", "erring"}, Goes(t, stage)
    PROVE  Left(t)' = Rank[stage] /\ \A s \in Thread \ {t} : Left(s)' = Left(s)
BY GoesAt DEF Left

\* Every step of a thread brings its request nearer to its end, and no other's further.
LEMMA StepNearer ==
    ASSUME TypeOK, NEW t \in Thread, Step(t)
    PROVE  Left(t)' \in 0..Left(t) - 1 /\ \A s \in Thread \ {t} : Left(s)' = Left(s)
<1>1. serving[t] # Idle /\ serving \in [Thread -> Request \cup {Idle}]
  BY DEF Step, LoginStep, PrincipalStep, EndStep, Admit, Verify, RecordFailed, ClearFailed,
         Authenticate, Read, Reject, Act, Report, AnswerError, RecordChange, At, TypeOK
<1>2. Left(t) = Rank[serving[t].stage]
  BY <1>1 DEF Left
<1>3. /\ Rank["entering"] = 5 /\ Rank["verifying"] = 4 /\ Rank["acting"] = 4
      /\ Rank["failed"] = 3 /\ Rank["clearing"] = 3
      /\ Rank["recording"] = 2 /\ Rank["reporting"] = 2 /\ Rank["erring"] = 1
  BY DEF Rank, Stages
<1>4. serving[t].n \in Nat
  BY <1>1, RequestParts DEF TypeOK
<1>5. ASSUME NEW q \in Request, q.stage \in Stages, Rank[q.stage] < Left(t),
             Rank[q.stage] \in 1..5, serving' = [serving EXCEPT ![t] = q]
      PROVE  Left(t)' \in 0..Left(t) - 1 /\ \A s \in Thread \ {t} : Left(s)' = Left(s)
  <2>1. serving'[t] = q /\ \A s \in Thread \ {t} : serving'[s] = serving[s]
    BY <1>1, <1>5
  <2>2. q # Idle
    OBVIOUS
  <2>3. Left(t)' = Rank[q.stage]
    BY <2>1, <2>2 DEF Left
  <2>4. \A s \in Thread \ {t} : Left(s)' = Left(s)
    BY <2>1 DEF Left
  <2>5. Left(t) \in 0..5
    BY LeftType
  <2> QED
    BY <1>5, <2>3, <2>4, <2>5
<1>6. ASSUME Ends(t)
      PROVE  Left(t)' \in 0..Left(t) - 1 /\ \A s \in Thread \ {t} : Left(s)' = Left(s)
  <2>1. serving'[t] = Idle /\ \A s \in Thread \ {t} : serving'[s] = serving[s]
    BY <1>6, EndsType
  <2>2. Left(t)' = 0
    BY <2>1 DEF Left
  <2>3. \A s \in Thread \ {t} : Left(s)' = Left(s)
    BY <2>1 DEF Left
  <2>4. Left(t) \in 1..5
    BY <1>1, LeftType
  <2> QED
    BY <2>2, <2>3, <2>4
<1>7. ASSUME NEW stage \in {"recording", "reporting", "erring"}, Goes(t, stage),
             Rank[stage] < Left(t)
      PROVE  Left(t)' \in 0..Left(t) - 1 /\ \A s \in Thread \ {t} : Left(s)' = Left(s)
  <2>1. Left(t)' = Rank[stage] /\ \A s \in Thread \ {t} : Left(s)' = Left(s)
    BY <1>1, <1>7, LeftGoes
  <2>2. Rank[stage] \in 1..2 /\ Left(t) \in 0..5
    BY <1>3, LeftType
  <2> QED
    BY <1>7, <2>1, <2>2
<1>8. CASE Read(t) \/ AnswerError(t) \/ RecordChange(t)
  BY <1>6, <1>8 DEF Read, AnswerError, RecordChange
<1>9. CASE Reject(t) \/ Act(t)
  BY <1>2, <1>3, <1>7, <1>9 DEF Reject, Act, At
<1>10. CASE RecordFailed(t) \/ ClearFailed(t)
  BY <1>2, <1>3, <1>7, <1>10 DEF RecordFailed, ClearFailed, At
<1>11. CASE Report(t)
  BY <1>2, <1>3, <1>7, <1>11 DEF Report, At
<1>12. CASE Authenticate(t)
  <2>1. Left(t) = 5
    BY <1>2, <1>3, <1>12 DEF Authenticate, At
  <2>2. CASE Goes(t, "reporting")
    BY <1>3, <1>7, <2>1, <2>2
  <2>3. CASE ~Goes(t, "reporting")
    <3>1. PICK u \in User, route \in Route :
             serving' = [serving EXCEPT ![t] = [stage |-> "acting", n |-> serving[t].n,
                            user |-> u, role |-> role[u], route |-> route]]
      BY <1>12, <2>3 DEF Authenticate
    <3> DEFINE q == [stage |-> "acting", n |-> serving[t].n, user |-> u, role |-> role[u],
                     route |-> route]
    <3>2. role[u] \in Role
      BY DEF TypeOK
    <3>3. q \in Request /\ q.stage = "acting"
      BY <1>4, <3>2 DEF Request
    <3> HIDE DEF q
    <3>4. q.stage \in Stages /\ Rank[q.stage] \in 1..5 /\ Rank[q.stage] < Left(t)
      BY <1>3, <2>1, <3>3 DEF Stages
    <3>5. serving' = [serving EXCEPT ![t] = q]
      BY <3>1 DEF q
    <3> QED
      BY <1>5, <3>3, <3>4, <3>5
  <2> QED
    BY <2>2, <2>3
<1>13. CASE Admit(t)
  <2>1. Left(t) = 5
    BY <1>2, <1>3, <1>13 DEF Admit, At
  <2>2. CASE Goes(t, "reporting")
    BY <1>3, <1>7, <2>1, <2>2
  <2>3. CASE ~Goes(t, "reporting")
    <3>1. PICK u \in Tried : serving' = [serving EXCEPT ![t] =
                                [stage |-> "verifying", n |-> serving[t].n, user |-> u]]
      BY <1>13, <2>3 DEF Admit
    <3> DEFINE q == [stage |-> "verifying", n |-> serving[t].n, user |-> u]
    <3>2. q \in Request /\ q.stage = "verifying"
      BY <1>4 DEF Request
    <3> HIDE DEF q
    <3>3. q.stage \in Stages /\ Rank[q.stage] \in 1..5 /\ Rank[q.stage] < Left(t)
      BY <1>3, <2>1, <3>2 DEF Stages
    <3>4. serving' = [serving EXCEPT ![t] = q]
      BY <3>1 DEF q
    <3> QED
      BY <1>5, <3>2, <3>3, <3>4
  <2> QED
    BY <2>2, <2>3
<1>14. CASE Verify(t)
  <2>1. Left(t) = 4
    BY <1>2, <1>3, <1>14 DEF Verify, At
  <2>2. /\ serving[t] = [stage |-> "verifying", n |-> serving[t].n, user |-> serving[t].user]
        /\ serving[t].user \in User
    BY <1>1, <1>14 DEF Verify, At, Request
  <2>3. PICK stage \in {"failed", "clearing"} : serving' = [serving EXCEPT ![t].stage = stage]
    BY <1>14 DEF Verify
  <2> DEFINE q == [stage |-> stage, n |-> serving[t].n, user |-> serving[t].user]
  <2>4. [serving[t] EXCEPT !.stage = stage] = q
    BY <2>2
  <2>5. q \in Request /\ q.stage = stage
    BY <1>4, <2>2 DEF Request
  <2> HIDE DEF q
  <2>6. q.stage \in Stages /\ Rank[q.stage] \in 1..5 /\ Rank[q.stage] < Left(t)
    BY <1>3, <2>1, <2>5 DEF Stages
  <2>7. serving' = [serving EXCEPT ![t] = q]
    BY <2>3, <2>4
  <2> QED
    BY <1>5, <2>5, <2>6, <2>7
<1> QED
  BY <1>8, <1>9, <1>10, <1>11, <1>12, <1>13, <1>14
     DEF Step, LoginStep, PrincipalStep, EndStep

\* No step takes a request that is in hand further from its end.
LEMMA NeverFurther ==
    ASSUME TypeOK, [Next]_vars, NEW t \in Thread, Left(t) # 0
    PROVE  Left(t)' \in 0..Left(t)
<1>1. Left(t) \in 1..5 /\ serving[t] # Idle
  BY LeftType
<1>2. CASE serving' = serving
  BY <1>1, <1>2 DEF Left
<1>3. ASSUME NEW s \in Thread, Step(s)
      PROVE  Left(t)' \in 0..Left(t)
  BY <1>1, <1>3, StepNearer
<1>4. ASSUME NEW s \in Thread, Arrive(s)
      PROVE  Left(t)' \in 0..Left(t)
  <2>1. serving'[t] = serving[t]
    BY <1>1, <1>4 DEF Arrive, TypeOK
  <2> QED
    BY <1>1, <2>1 DEF Left
<1>5. ASSUME NEW s \in Thread, StoreFails(s)
      PROVE  Left(t)' \in 0..Left(t)
  <2>1. serving[s] # Idle
    BY <1>5 DEF StoreFails, At
  <2>2. CASE Goes(s, "erring")
    <3>1. Left(s)' = Rank["erring"] /\ \A r \in Thread \ {s} : Left(r)' = Left(r)
      BY <2>1, <2>2, LeftGoes
    <3>2. Rank["erring"] = 1
      BY DEF Rank, Stages
    <3> QED
      BY <1>1, <3>1, <3>2
  <2>3. CASE Ends(s)
    <3>1. serving'[s] = Idle /\ \A r \in Thread \ {s} : serving'[r] = serving[r]
      BY <2>3, EndsType
    <3>2. Left(s)' = 0 /\ \A r \in Thread \ {s} : Left(r)' = Left(r)
      BY <3>1 DEF Left
    <3> QED
      BY <1>1, <3>2
  <2> QED
    BY <1>5, <2>2, <2>3 DEF StoreFails
<1>6. CASE Restart
  <2>1. serving'[t] = Idle
    BY <1>6 DEF Restart
  <2> QED
    BY <1>1, <2>1 DEF Left
<1>7. CASE Tick
  BY <1>2, <1>7 DEF Tick
<1> QED
  BY <1>2, <1>3, <1>4, <1>5, <1>6, <1>7 DEF Next, vars

Falls(t, k) == (Left(t) = k) ~> (Left(t) < k)

\* Where a thread has a step to take, its request comes nearer to its end.
LEMMA Descent ==
    ASSUME NEW t \in Thread, NEW k \in 1..5
    PROVE  Spec /\ []GuardsSuffice => Falls(t, k)
<1>1. Spec => [][Next]_vars /\ WF_vars(Step(t))
  <2>1. Spec => [][Next]_vars /\ Fairness
    BY PTL DEF Spec
  <2>2. Fairness => Fair(t)
    BY Zenon DEF Fairness
  <2> QED
    BY <2>1, <2>2, PTL DEF Fair
<1>2. TypeOK /\ Left(t) = k /\ [Next]_vars => (Left(t) = k)' \/ (Left(t) < k)'
  BY NeverFurther
<1>3. TypeOK /\ Left(t) = k /\ <<Step(t)>>_vars => (Left(t) < k)'
  BY StepNearer
<1>4. TypeOK /\ GuardsSuffice /\ Left(t) = k => ENABLED <<Step(t)>>_vars
  BY LeftType, AlwaysReady DEF GuardsSuffice, Busy
<1> QED
  BY <1>1, <1>2, <1>3, <1>4, TypeCorrect, PTL DEF Falls

\* Whatever fails, no request keeps its thread for ever: at most five steps of the
\* thread end it, and it always has one to take.
THEOREM EveryRequestComesToItsEnd == Spec /\ []GuardsSuffice => EveryRequestEnds
<1> SUFFICES ASSUME NEW t \in Thread
             PROVE  Spec /\ []GuardsSuffice => ((serving[t] # Idle) ~> (serving[t] = Idle))
  BY DEF EveryRequestEnds
<1>1. /\ Spec /\ []GuardsSuffice => Falls(t, 1)
      /\ Spec /\ []GuardsSuffice => Falls(t, 2)
      /\ Spec /\ []GuardsSuffice => Falls(t, 3)
      /\ Spec /\ []GuardsSuffice => Falls(t, 4)
      /\ Spec /\ []GuardsSuffice => Falls(t, 5)
  BY Descent
<1>2. TypeOK => /\ Left(t) = 5 \/ Left(t) < 5
                /\ Left(t) < 5 => Left(t) = 4 \/ Left(t) < 4
                /\ Left(t) < 4 => Left(t) = 3 \/ Left(t) < 3
                /\ Left(t) < 3 => Left(t) = 2 \/ Left(t) < 2
                /\ Left(t) < 2 => Left(t) = 1 \/ Left(t) < 1
                /\ Left(t) < 1 => serving[t] = Idle
  BY LeftType
<1> QED
  BY <1>1, <1>2, TypeCorrect, PTL DEF Falls

===============================================================================
