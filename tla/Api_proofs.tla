------------------------------ MODULE Api_proofs ------------------------------
(***************************************************************************)
(* Proofs about Api: the rate limit, the request counts and the keys, for  *)
(* any number of requests, keys, faults and revocations and any clock skew *)
(* up to the window.                                                       *)
(***************************************************************************)
EXTENDS Api, FiniteSetTheorems, TLAPS

\* Past verify_api_key, in the session that read the row.
Used == {"verified", "allowed", "commit"}

\* A request past verify_api_key has a key, whose bucket it is.
KeysKnown == \A r \in Request : at[r] \in Used => header[r] \in Bucket

TypeInv == TypeOK /\ KeysKnown

LEMMA EndKeepsTypes ==
  ASSUME TypeInv, NEW r \in Request, NEW from \in Waiting, NEW status \in Status,
         End(r, from, status), UNCHANGED header
  PROVE  /\ at' \in [Request -> {"none"} \cup Waiting \cup Status]
         /\ header' \in [Request -> Bucket \cup {Invalid}]
         /\ read' \in [Request -> Nat]
         /\ lock' \in [Key -> Request \cup {NoRequest}]
         /\ KeysKnown'
  BY DEF TypeInv, TypeOK, KeysKnown, End, Go, Status, Used

\* The variables have their types, and requests in use their keys.
THEOREM TypesInvariant == Spec => []TypeInv
  <1>. USE DEF TypeInv
  <1>1. Init => TypeInv
    BY DEF Init, TypeOK, KeysKnown, Used
  <1>2. TypeInv /\ [Next]_vars => TypeInv'
    <2>. SUFFICES ASSUME TypeInv, [Next]_vars PROVE TypeInv'
      OBVIOUS
    <2>. USE DEF TypeOK, KeysKnown, Go, database, history
    <2>1. ASSUME NEW r \in Request, Send(r) PROVE TypeInv'
      BY <2>1 DEF Send, Used, Waiting
    <2>2. ASSUME NEW r \in Request, AcceptMaster(r) PROVE TypeInv'
      BY <2>2 DEF AcceptMaster, Used, Waiting, Bucket
    <2>3. ASSUME NEW r \in Request, Verify(r) PROVE TypeInv'
      BY <2>3 DEF Verify, Used, Waiting, Bucket
    <2>4. ASSUME NEW r \in Request, Unauthorized(r) PROVE TypeInv'
      BY <2>4, EndKeepsTypes DEF Unauthorized, Status, Waiting
    <2>5. ASSUME NEW r \in Request, Grant(r) PROVE TypeInv'
      <3>1. PICK now \in Stamp, tag \in Tag :
              /\ Go(r, "verified", "allowed")
              /\ bucket' = [bucket EXCEPT ![header[r]] =
                   InWindow(header[r], now) \cup {[score |-> now, tag |-> tag]}]
              /\ grants' = grants \cup
                   {[key |-> header[r], time |-> clock, member |-> [score |-> now, tag |-> tag]]}
              /\ UNCHANGED <<header, deleting, read, database, clock, faults, overlapped, late>>
        BY <2>5 DEF Grant
      <3>2. header[r] \in Bucket
        BY <3>1 DEF Used
      <3>3. [score |-> now, tag |-> tag] \in Member
        BY <3>1, LimitAssumption DEF Stamp, Member
      <3>4. InWindow(header[r], now) \in SUBSET Member
        BY <3>2 DEF InWindow
      <3>5. bucket' \in [Bucket -> SUBSET Member]
        BY <3>1, <3>3, <3>4
      <3>6. grants' \subseteq [key : Bucket, time : Nat, member : Member]
        BY <3>1, <3>2, <3>3
      <3>7. KeysKnown' /\ at' \in [Request -> {"none"} \cup Waiting \cup Status]
        BY <3>1 DEF Used, Waiting
      <3>. QED
        BY <3>1, <3>5, <3>6, <3>7
    <2>6. ASSUME NEW r \in Request, Refuse(r) PROVE TypeInv'
      <3>1. PICK now \in Stamp :
              /\ End(r, "verified", "429")
              /\ bucket' = [bucket EXCEPT ![header[r]] = InWindow(header[r], now)]
              /\ UNCHANGED <<header, deleting, row, stored, clock, faults, history>>
        BY <2>6 DEF Refuse
      <3>2. header[r] \in Bucket
        BY <3>1 DEF Used, End
      <3>3. InWindow(header[r], now) \in SUBSET Member
        BY <3>2 DEF InWindow
      <3>. QED
        BY <3>1, <3>3, EndKeepsTypes DEF Status, Waiting
    <2>7. ASSUME NEW r \in Request, Answer(r) \/ Delete(r) PROVE TypeInv'
      BY <2>7 DEF Answer, Delete, Used, Waiting
    <2>8. ASSUME NEW r \in Request, NotFound(r) \/ HandlerRaises(r) PROVE TypeInv'
      BY <2>8, EndKeepsTypes DEF NotFound, HandlerRaises, Status, Waiting
    <2>9. ASSUME NEW r \in Request, Commit(r) PROVE TypeInv'
      BY <2>9, EndKeepsTypes DEF Commit, Status, Waiting
    <2>10. ASSUME NEW r \in Request, DeleteRaises(r) PROVE TypeInv'
      BY <2>10, EndKeepsTypes DEF DeleteRaises, Status, Waiting
    <2>11. ASSUME NEW r \in Request, Fails(r) PROVE TypeInv'
      BY <2>11, EndKeepsTypes DEF Fails, Status
    <2>12. ASSUME NEW k \in Key, Revoke(k) PROVE TypeInv'
      BY <2>12 DEF Revoke
    <2>13. CASE StoreAudit
      BY <2>13 DEF StoreAudit
    <2>14. CASE Tick
      BY <2>14, BoundAssumption DEF Tick
    <2>15. CASE UNCHANGED vars
      BY <2>15 DEF vars
    <2>. QED
      BY <2>1, <2>2, <2>3, <2>4, <2>5, <2>6, <2>7, <2>8, <2>9, <2>10, <2>11, <2>12, <2>13, <2>14,
         <2>15 DEF Next, Serve
  <1>. QED
    BY <1>1, <1>2, PTL DEF Spec

\* The variables keep their types.
THEOREM TypeCorrect == Spec => []TypeOK
  BY TypesInvariant, PTL DEF TypeInv

-----------------------------------------------------------------------------
(* The rate limit *)

\* A bucket never holds more members than the limit.
BucketBounded == \A b \in Bucket : IsFiniteSet(bucket[b]) /\ Cardinality(bucket[b]) <= RATE_LIMIT_RPM

\* What passed within the window, less the skew, is still in its bucket.
Remembered ==
  \A g \in grants :
    /\ g.time <= clock /\ g.time <= g.member.score
    /\ g.time > clock - (Window - Skew) => g.member \in bucket[g.key]

\* What is in a bucket has passed, at its score but for the skew.
Earned ==
  \A b \in Bucket : \A m \in bucket[b] :
    \E g \in grants : g.key = b /\ g.member = m /\ m.score <= g.time + Skew

FiniteGrants == IsFiniteSet({g.member : g \in grants})

LimitInv == TypeInv /\ BucketBounded /\ Remembered /\ Earned /\ FiniteGrants

\* Steps that the rate limit does not take.
LEMMA LimitAside ==
  LimitInv /\ TypeInv' /\ UNCHANGED <<bucket, clock, grants>> => LimitInv'
  BY DEF LimitInv, BucketBounded, Remembered, Earned, FiniteGrants

LEMMA LimitInitially == Init => LimitInv
  <1>. SUFFICES ASSUME Init PROVE LimitInv
    OBVIOUS
  <1>1. TypeInv
    BY DEF Init, TypeInv, TypeOK, KeysKnown, Used
  <1>2. BucketBounded
    BY FS_EmptySet, LimitAssumption DEF Init, BucketBounded
  <1>3. {g.member : g \in grants} = {}
    BY DEF Init
  <1>4. FiniteGrants
    BY <1>3, FS_EmptySet DEF FiniteGrants
  <1>. QED
    BY <1>1, <1>2, <1>4 DEF Init, LimitInv, Remembered, Earned

\* The script: what is left in the window, and one more if there is room.
LEMMA GrantKeepsLimit ==
  ASSUME LimitInv, TypeInv', NEW r \in Request, Grant(r)
  PROVE  LimitInv'
  <1>1. PICK now \in Stamp, tag \in Tag :
          /\ at[r] = "verified"
          /\ Cardinality(InWindow(header[r], now)) < RATE_LIMIT_RPM
          /\ bucket' = [bucket EXCEPT ![header[r]] =
               InWindow(header[r], now) \cup {[score |-> now, tag |-> tag]}]
          /\ grants' = grants \cup
               {[key |-> header[r], time |-> clock, member |-> [score |-> now, tag |-> tag]]}
          /\ clock' = clock
    BY DEF Grant, Go
  <1>. DEFINE b == header[r]
              m == [score |-> now, tag |-> tag]
              g0 == [key |-> b, time |-> clock, member |-> m]
              W == InWindow(b, now)
  <1>2. b \in Bucket /\ bucket \in [Bucket -> SUBSET Member] /\ clock \in Nat /\ now \in Nat
        /\ clock <= now /\ now <= clock + Skew
    BY <1>1, LimitAssumption DEF LimitInv, TypeInv, TypeOK, KeysKnown, Used, Stamp
  <1>3. W \subseteq bucket[b] /\ \A x \in bucket[b] : x \in W <=> x.score > now - Window
    BY DEF InWindow
  <1>4. \A g \in grants : g.time \in Nat /\ g.key \in Bucket /\ g.member \in Member
    BY DEF LimitInv, TypeInv, TypeOK
  <1>5. BucketBounded'
    <2>1. IsFiniteSet(W) /\ Cardinality(W) \in Nat
      BY <1>2, <1>3, FS_Subset, FS_CardinalityType DEF LimitInv, BucketBounded
    <2>2. IsFiniteSet(W \cup {m}) /\ Cardinality(W \cup {m}) <= RATE_LIMIT_RPM
      <3>. HIDE DEF W, m
      <3>1. IsFiniteSet(W \cup {m}) /\ Cardinality(W \cup {m}) \in {Cardinality(W), Cardinality(W) + 1}
        BY <2>1, FS_AddElement
      <3>2. Cardinality(W) < RATE_LIMIT_RPM
        BY <1>1 DEF W
      <3>. QED
        BY <2>1, <3>1, <3>2, LimitAssumption
    <2>. QED
      BY <2>2, <1>1, <1>2 DEF BucketBounded, LimitInv
  <1>6. Remembered'
    <2>. SUFFICES ASSUME NEW g \in grants'
                  PROVE  /\ g.time <= clock /\ g.time <= g.member.score
                         /\ g.time > clock - (Window - Skew) => g.member \in bucket'[g.key]
      BY <1>1 DEF Remembered
    <2>1. CASE g = g0
      BY <2>1, <1>1, <1>2
    <2>2. CASE g \in grants
      <3>1. /\ g.time <= clock /\ g.time <= g.member.score
            /\ g.time > clock - (Window - Skew) => g.member \in bucket[g.key]
        BY <2>2 DEF LimitInv, Remembered
      <3>2. ASSUME g.time > clock - (Window - Skew), g.key = b PROVE g.member \in W
        BY <3>1, <3>2, <2>2, <1>2, <1>3, <1>4, LimitAssumption DEF Member
      <3>. QED
        BY <3>1, <3>2, <2>2, <1>1, <1>2, <1>4
    <2>. QED
      BY <2>1, <2>2, <1>1
  <1>7. Earned'
    <2>. SUFFICES ASSUME NEW c \in Bucket, NEW x \in bucket'[c]
                  PROVE  \E g \in grants' : g.key = c /\ g.member = x /\ x.score <= g.time + Skew
      BY DEF Earned
    <2>1. CASE x \in bucket[c]
      BY <2>1, <1>1 DEF LimitInv, Earned
    <2>2. CASE x \notin bucket[c]
      <3>1. c = b /\ x = m
        BY <2>2, <1>1, <1>2, <1>3
      <3>2. g0 \in grants' /\ g0.key = c /\ g0.member = x /\ x.score <= g0.time + Skew
        BY <3>1, <1>1, <1>2
      <3>. QED
        BY <3>2
    <2>. QED
      BY <2>1, <2>2
  <1>8. FiniteGrants'
    <2>1. {g.member : g \in grants'} = {g.member : g \in grants} \cup {m}
      <3>1. grants' = grants \cup {g0} /\ g0.member = m
        BY <1>1
      <3>. HIDE DEF g0, m
      <3>. QED
        BY <3>1, Zenon
    <2>. QED
      BY <2>1, FS_AddElement DEF LimitInv, FiniteGrants
  <1>. QED
    BY <1>5, <1>6, <1>7, <1>8 DEF LimitInv

LEMMA RefuseKeepsLimit ==
  ASSUME LimitInv, TypeInv', NEW r \in Request, Refuse(r)
  PROVE  LimitInv'
  <1>1. PICK now \in Stamp :
          /\ at[r] = "verified"
          /\ bucket' = [bucket EXCEPT ![header[r]] = InWindow(header[r], now)]
          /\ grants' = grants /\ clock' = clock
    BY DEF Refuse, End, Go, history
  <1>. DEFINE b == header[r]
              W == InWindow(b, now)
  <1>2. b \in Bucket /\ bucket \in [Bucket -> SUBSET Member] /\ clock \in Nat /\ now \in Nat
        /\ clock <= now /\ now <= clock + Skew
    BY <1>1, LimitAssumption DEF LimitInv, TypeInv, TypeOK, KeysKnown, Used, Stamp
  <1>3. W \subseteq bucket[b] /\ \A x \in bucket[b] : x \in W <=> x.score > now - Window
    BY DEF InWindow
  <1>4. \A g \in grants : g.time \in Nat /\ g.key \in Bucket /\ g.member \in Member
    BY DEF LimitInv, TypeInv, TypeOK
  <1>5. BucketBounded'
    <2>1. IsFiniteSet(bucket[b]) /\ Cardinality(bucket[b]) \in Nat
          /\ Cardinality(bucket[b]) <= RATE_LIMIT_RPM
      BY <1>2, FS_CardinalityType DEF LimitInv, BucketBounded
    <2>2. IsFiniteSet(W) /\ Cardinality(W) <= Cardinality(bucket[b]) /\ Cardinality(W) \in Nat
      BY <2>1, <1>3, FS_Subset, FS_CardinalityType
    <2>3. IsFiniteSet(W) /\ Cardinality(W) <= RATE_LIMIT_RPM
      BY <2>1, <2>2, LimitAssumption
    <2>. QED
      BY <2>3, <1>1, <1>2 DEF BucketBounded, LimitInv
  <1>6. Remembered'
    <2>. SUFFICES ASSUME NEW g \in grants
                  PROVE  /\ g.time <= clock /\ g.time <= g.member.score
                         /\ g.time > clock - (Window - Skew) => g.member \in bucket'[g.key]
      BY <1>1 DEF Remembered
    <2>1. /\ g.time <= clock /\ g.time <= g.member.score
          /\ g.time > clock - (Window - Skew) => g.member \in bucket[g.key]
      BY DEF LimitInv, Remembered
    <2>2. ASSUME g.time > clock - (Window - Skew), g.key = b PROVE g.member \in W
      BY <2>1, <2>2, <1>2, <1>3, <1>4, LimitAssumption DEF Member
    <2>. QED
      BY <2>1, <2>2, <1>1, <1>2, <1>4
  <1>7. Earned'
    BY <1>1, <1>2, <1>3 DEF LimitInv, Earned
  <1>8. FiniteGrants'
    BY <1>1 DEF LimitInv, FiniteGrants
  <1>. QED
    BY <1>5, <1>6, <1>7, <1>8 DEF LimitInv

LEMMA LimitStep == LimitInv /\ TypeInv' /\ [Next]_vars => LimitInv'
  <1>. SUFFICES ASSUME LimitInv, TypeInv', [Next]_vars PROVE LimitInv'
    OBVIOUS
  <1>1. CASE UNCHANGED <<bucket, clock, grants>>
    BY <1>1, LimitAside
  <1>2. ASSUME NEW r \in Request, Grant(r) PROVE LimitInv'
    BY <1>2, GrantKeepsLimit
  <1>3. ASSUME NEW r \in Request, Refuse(r) PROVE LimitInv'
    BY <1>3, RefuseKeepsLimit
  <1>4. CASE Tick
    <2>1. BucketBounded' /\ Earned' /\ FiniteGrants'
      BY <1>4 DEF Tick, history, LimitInv, BucketBounded, Earned, FiniteGrants
    <2>2. Remembered'
      <3>1. clock' = clock + 1 /\ clock \in Nat /\ UNCHANGED <<grants, bucket>>
            /\ \A g \in grants : g.time \in Nat
        BY <1>4 DEF Tick, history, LimitInv, TypeInv, TypeOK
      <3>. QED
        BY <3>1, LimitAssumption DEF LimitInv, Remembered
    <2>. QED
      BY <2>1, <2>2 DEF LimitInv
  <1>5. ASSUME NEW r \in Request, Send(r) \/ Fails(r) PROVE UNCHANGED <<bucket, clock, grants>>
    BY <1>5 DEF Send, Fails, history
  <1>6. ASSUME NEW r \in Request, Serve(r), ~Grant(r), ~Refuse(r) PROVE UNCHANGED <<bucket, clock, grants>>
    BY <1>6 DEF Serve, AcceptMaster, Verify, Unauthorized, Answer, Delete, NotFound,
            HandlerRaises, Commit, DeleteRaises, history
  <1>7. ASSUME NEW k \in Key, Revoke(k) PROVE UNCHANGED <<bucket, clock, grants>>
    BY <1>7 DEF Revoke, history
  <1>8. CASE StoreAudit \/ UNCHANGED vars
    BY <1>8, LimitAside DEF StoreAudit, history, vars
  <1>. QED
    BY <1>1, <1>2, <1>3, <1>4, <1>5, <1>6, <1>7, <1>8 DEF Next

\* The inductive invariant of the rate limit.
THEOREM LimitInvariant == Spec => []LimitInv
  BY TypesInvariant, LimitInitially, LimitStep, PTL DEF Spec

\* In any stretch of a window, less the skew, no more members pass than the limit.
THEOREM AtMostTheLimit == Spec => []WithinLimit
  <1>1. LimitInv => WithinLimit
    <2>. SUFFICES ASSUME LimitInv, NEW b \in Bucket
                  PROVE  LET recent == {g \in grants : g.key = b /\ g.time > clock - (Window - Skew)}
                         IN  Cardinality({g.member : g \in recent}) <= RATE_LIMIT_RPM
      BY DEF WithinLimit
    <2>. DEFINE recent == {g \in grants : g.key = b /\ g.time > clock - (Window - Skew)}
                passed == {g.member : g \in recent}
    <2>1. passed \subseteq bucket[b]
      BY DEF LimitInv, Remembered
    <2>2. IsFiniteSet(bucket[b]) /\ Cardinality(bucket[b]) \in Nat
          /\ Cardinality(bucket[b]) <= RATE_LIMIT_RPM
      BY FS_CardinalityType DEF LimitInv, BucketBounded
    <2>3. Cardinality(passed) <= Cardinality(bucket[b]) /\ Cardinality(passed) \in Nat
      BY <2>1, <2>2, FS_Subset, FS_CardinalityType
    <2>. QED
      BY <2>2, <2>3, LimitAssumption
  <1>. QED
    BY <1>1, LimitInvariant, PTL

\* A request is refused only where as many as the limit have passed.
THEOREM RefusalsAreEarned == Spec => RefusedMeansFull
  <1>. DEFINE Full(r) ==
         LET recent == {g \in grants : g.key = header[r] /\ g.time > clock - Window - Skew}
         IN  Cardinality({g.member : g \in recent}) >= RATE_LIMIT_RPM
  <1>1. ASSUME LimitInv, [Next]_vars, NEW r \in Request, at[r] # "429", at'[r] = "429"
        PROVE  Refuse(r)
    <2>. USE <1>1 DEF Go, End
    <2>0. at \in [Request -> {"none"} \cup Waiting \cup Status]
      BY DEF LimitInv, TypeInv, TypeOK
    <2>1. ASSUME NEW q \in Request, Send(q) \/ Serve(q) \/ Fails(q) PROVE Refuse(r)
      BY <2>0, <2>1 DEF Send, Serve, Fails, AcceptMaster, Verify, Unauthorized, Grant, Answer, Delete,
              NotFound, HandlerRaises, Commit, DeleteRaises, Refuse
    <2>. QED
      BY <2>1 DEF Next, Revoke, StoreAudit, Tick, vars
  <1>2. ASSUME LimitInv, NEW r \in Request, Refuse(r) PROVE Full(r)
    <2>1. PICK now \in Stamp :
            at[r] = "verified" /\ Cardinality(InWindow(header[r], now)) >= RATE_LIMIT_RPM
      BY <1>2 DEF Refuse, End, Go
    <2>. DEFINE recent == {g \in grants : g.key = header[r] /\ g.time > clock - Window - Skew}
                passed == {g.member : g \in recent}
                W == InWindow(header[r], now)
    <2>2. /\ header[r] \in Bucket /\ clock \in Nat /\ now \in Nat /\ clock <= now
          /\ bucket[header[r]] \subseteq Member
          /\ \A g \in grants : g.time \in Nat
      BY <1>2, <2>1, LimitAssumption DEF LimitInv, TypeInv, TypeOK, KeysKnown, Used, Stamp
    <2>3. W \subseteq passed
      <3>. SUFFICES ASSUME NEW x \in W PROVE \E g \in recent : g.member = x
        OBVIOUS
      <3>1. x \in bucket[header[r]] /\ x.score > now - Window /\ x.score \in Nat
        BY <2>2 DEF InWindow, Member
      <3>2. PICK g \in grants : g.key = header[r] /\ g.member = x /\ x.score <= g.time + Skew
        BY <1>2, <2>2, <3>1 DEF LimitInv, Earned
      <3>3. g.time > clock - Window - Skew
        BY <2>2, <3>1, <3>2, LimitAssumption
      <3>. QED
        BY <3>2, <3>3
    <2>4. IsFiniteSet(passed)
      <3>1. passed \subseteq {g.member : g \in grants}
        OBVIOUS
      <3>. QED
        BY <1>2, <3>1, FS_Subset DEF LimitInv, FiniteGrants
    <2>5. Cardinality(W) <= Cardinality(passed) /\ Cardinality(W) \in Nat /\ Cardinality(passed) \in Nat
      BY <2>3, <2>4, FS_Subset, FS_CardinalityType
    <2>. QED
      BY <2>1, <2>5, LimitAssumption
  <1>3. LimitInv /\ [Next]_vars => [\A r \in Request : at[r] # "429" /\ at'[r] = "429" => Full(r)]_vars
    BY <1>1, <1>2
  <1>. QED
    BY <1>3, LimitInvariant, PTL DEF Spec, RefusedMeansFull

-----------------------------------------------------------------------------
(* The keys *)

\* A request sent with a revoked key gets no further than verify_api_key.
RevokedInv ==
  \A r \in late : header[r] \in Key /\ ~row[header[r]].is_active /\ at[r] \in {"sent", "401", "500"}

\* No write of a row makes its key active again.
LEMMA StillRevoked ==
  ASSUME TypeInv, [Next]_vars, NEW k \in Key, ~row[k].is_active
  PROVE  ~row'[k].is_active
  <1>. USE DEF TypeInv, TypeOK, database
  <1>1. ASSUME NEW r \in Request, Send(r) \/ Serve(r) \/ Fails(r) PROVE ~row'[k].is_active
    BY <1>1 DEF Send, Serve, Fails, AcceptMaster, Verify, Unauthorized, Grant, Refuse, Answer,
            Delete, NotFound, HandlerRaises, Commit, DeleteRaises
  <1>2. ASSUME NEW q \in Key, Revoke(q) PROVE ~row'[k].is_active
    BY <1>2 DEF Revoke
  <1>. QED
    BY <1>1, <1>2 DEF Next, StoreAudit, Tick, vars

\* No request sent with a revoked key is served, whatever writes its row.
THEOREM RevokedKeysStayOut == Spec => []RevokedStaysOut
  <1>1. Init => RevokedInv
    BY DEF Init, RevokedInv
  <1>2. TypeInv /\ RevokedInv /\ [Next]_vars => RevokedInv'
    <2>. SUFFICES ASSUME TypeInv, RevokedInv, [Next]_vars, NEW r \in late'
                  PROVE  header'[r] \in Key /\ ~row'[header'[r]].is_active
                         /\ at'[r] \in {"sent", "401", "500"}
      BY DEF RevokedInv
    <2>. USE DEF TypeInv, TypeOK, Go, database, history
    <2>1. CASE r \in late /\ header'[r] = header[r] /\ at'[r] \in {"sent", "401", "500"}
      BY <2>1, StillRevoked DEF RevokedInv
    <2>2. ASSUME NEW q \in Request, Send(q)
          PROVE  header'[r] \in Key /\ ~row'[header'[r]].is_active /\ at'[r] \in {"sent", "401", "500"}
      <3>1. CASE q = r
        BY <2>2, <3>1 DEF Send, RevokedInv
      <3>2. CASE q # r
        BY <2>2, <3>2, <2>1 DEF Send, RevokedInv
      <3>. QED
        BY <3>1, <3>2
    <2>3. ASSUME NEW q \in Request, Serve(q) \/ Fails(q)
          PROVE  r \in late /\ header'[r] = header[r] /\ at'[r] \in {"sent", "401", "500"}
      <3>1. r \in late /\ r \in Request /\ header'[r] = header[r]
        BY <2>3 DEF Serve, Fails, AcceptMaster, Verify, Unauthorized, Grant, Refuse, Answer, Delete,
                NotFound, HandlerRaises, Commit, DeleteRaises, End
      <3>2. CASE q # r
        BY <2>3, <3>1, <3>2 DEF RevokedInv, Serve, Fails, AcceptMaster, Verify, Unauthorized, Grant,
                Refuse, Answer, Delete, NotFound, HandlerRaises, Commit, DeleteRaises, End
      <3>3. CASE q = r
        BY <2>3, <3>1, <3>3, KeyAssumption DEF RevokedInv, Serve, Fails, AcceptMaster, Verify, Unauthorized, Grant,
                Refuse, Answer, Delete, NotFound, HandlerRaises, Commit, DeleteRaises, End
      <3>. QED
        BY <3>1, <3>2, <3>3
    <2>. QED
      BY <2>1, <2>2, <2>3 DEF Next, RevokedInv, Revoke, StoreAudit, Tick, vars
  <1>3. RevokedInv => RevokedStaysOut
    BY DEF RevokedInv, RevokedStaysOut
  <1>. QED
    BY <1>1, <1>2, <1>3, TypesInvariant, PTL DEF Spec

-----------------------------------------------------------------------------
(* The counts *)

\* An uncommitted UPDATE is one of a request about to end, with the row's key.
LocksHeld ==
  \A r \in Request, k \in Key : lock[k] = r <=> at[r] = "commit" /\ header[r] = k

\* A request read no larger count than there are served requests of its key,
\* and without overlap it read the count that is still there.
ReadsCurrent ==
  \A r \in Request, k \in Key :
    header[r] = k /\ at[r] \in Used =>
      /\ read[r] <= Cardinality(Served(k))
      /\ k \notin overlapped => read[r] = row[k].request_count

\* Without overlap at most one request uses the key.
OneAtATime ==
  \A r, q \in Request, k \in Key :
    /\ header[r] = k /\ at[r] \in Used
    /\ header[q] = k /\ at[q] \in Used
    /\ k \notin overlapped
    => r = q

CountInv == TypeInv /\ LocksHeld /\ ReadsCurrent /\ OneAtATime /\ CountsServed

\* The requests served are finitely many.
LEMMA ServedFinite ==
  ASSUME NEW k
  PROVE  IsFiniteSet(Served(k)) /\ Cardinality(Served(k)) \in Nat
  BY BoundAssumption, FS_Subset, FS_CardinalityType DEF Served

\* A step that serves no request, changes no count, releases at most its own
\* lock and ends or goes on with a request that has read the row.
LEMMA QuietKeeps ==
  ASSUME CountInv, TypeInv', LocksHeld',
         UNCHANGED <<header, overlapped>>,
         \A k \in Key : row'[k].request_count = row[k].request_count,
         \A r \in Request : at'[r] = "ok" <=> at[r] = "ok",
         \A r \in Request : at'[r] \in Used => at[r] \in Used /\ read'[r] = read[r]
  PROVE  CountInv'
  <1>1. \A k : Served(k)' = Served(k)
    BY DEF Served
  <1>2. ReadsCurrent'
    BY <1>1 DEF CountInv, ReadsCurrent
  <1>3. OneAtATime'
    BY DEF CountInv, OneAtATime
  <1>4. CountsServed'
    BY <1>1 DEF CountInv, CountsServed
  <1>. QED
    BY <1>2, <1>3, <1>4 DEF CountInv

LEMMA LocksStep == TypeInv /\ LocksHeld /\ [Next]_vars => LocksHeld'
  <1>. SUFFICES ASSUME TypeInv, LocksHeld, [Next]_vars PROVE LocksHeld'
    OBVIOUS
  <1>. USE KeyAssumption DEF TypeInv, TypeOK, LocksHeld, Go, database, history
  <1>1. ASSUME NEW r \in Request, Send(r) PROVE LocksHeld'
    BY <1>1 DEF Send
  <1>2. ASSUME NEW r \in Request, AcceptMaster(r) \/ Verify(r) \/ Grant(r) PROVE LocksHeld'
    BY <1>2 DEF AcceptMaster, Verify, Grant
  <1>3. ASSUME NEW r \in Request, NEW from \in Waiting, NEW status \in Status,
               End(r, from, status), UNCHANGED header
        PROVE  LocksHeld'
    BY <1>3 DEF End, Status
  <1>4. ASSUME NEW r \in Request, Unauthorized(r) \/ Refuse(r) PROVE LocksHeld'
    BY <1>4, <1>3 DEF Unauthorized, Refuse, Waiting, Status
  <1>5. ASSUME NEW r \in Request, Answer(r) \/ Delete(r) PROVE LocksHeld'
    BY <1>5 DEF Answer, Delete, Flushed
  <1>6. ASSUME NEW r \in Request, NotFound(r) \/ HandlerRaises(r) PROVE LocksHeld'
    BY <1>6, <1>3 DEF NotFound, HandlerRaises, Waiting, Status
  <1>7. ASSUME NEW r \in Request, Commit(r) \/ DeleteRaises(r) \/ Fails(r) PROVE LocksHeld'
    BY <1>7, <1>3 DEF Commit, DeleteRaises, Fails, Waiting, Status
  <1>. QED
    BY <1>1, <1>2, <1>4, <1>5, <1>6, <1>7 DEF Next, Serve, Revoke, StoreAudit, Tick, vars

\* The count that was read plus one is written over whatever is there now.
LEMMA CommitKeepsCounts ==
  ASSUME CountInv, TypeInv', LocksHeld', NEW r \in Request, Commit(r)
  PROVE  CountInv'
  <1>. USE DEF TypeInv, TypeOK
  <1>1. /\ at[r] = "commit" /\ at' = [at EXCEPT ![r] = "ok"]
        /\ read' = [read EXCEPT ![r] = 0]
        /\ UNCHANGED <<header, overlapped>>
    BY DEF Commit, End, Go, history
  <1>2. \A k \in Key : row'[k].request_count = IF header[r] = k THEN read[r] + 1 ELSE row[k].request_count
    BY <1>1 DEF Commit, CountInv, LocksHeld
  <1>3. ASSUME NEW k \in Key, header[r] = k
        PROVE  /\ Served(k)' = Served(k) \cup {r}
               /\ Cardinality(Served(k)') = Cardinality(Served(k)) + 1
    <2>1. Served(k)' = Served(k) \cup {r} /\ r \notin Served(k)
      BY <1>1, <1>3 DEF Served, CountInv
    <2>. QED
      BY <2>1, ServedFinite, FS_AddElement
  <1>4. ASSUME NEW k \in Key, header[r] # k PROVE Served(k)' = Served(k)
    BY <1>1, <1>4 DEF Served, CountInv
  <1>5. ASSUME NEW k \in Key, header[r] = k
        PROVE  /\ read[r] \in Nat /\ read[r] <= Cardinality(Served(k))
               /\ k \notin overlapped => read[r] = row[k].request_count
               /\ k \notin overlapped => row[k].request_count = Cardinality(Served(k))
    BY <1>1, <1>5 DEF CountInv, ReadsCurrent, CountsServed, Used
  <1>6. ASSUME NEW k \in Key
        PROVE  /\ Cardinality(Served(k)) \in Nat /\ Cardinality(Served(k)') \in Nat
               /\ Cardinality(Served(k)) <= Cardinality(Served(k)')
    BY <1>3, <1>4, ServedFinite
  <1>7. OneAtATime'
    BY <1>1 DEF CountInv, OneAtATime, Used
  <1>8. CountsServed'
    <2>. SUFFICES ASSUME NEW k \in Key
                  PROVE  /\ row'[k].request_count <= Cardinality(Served(k)')
                         /\ k \notin overlapped => row'[k].request_count = Cardinality(Served(k)')
      BY <1>1 DEF CountsServed
    <2>1. CASE header[r] = k
      BY <2>1, <1>2, <1>3, <1>5, ServedFinite
    <2>2. CASE header[r] # k
      BY <2>2, <1>2, <1>4 DEF CountInv, CountsServed
    <2>. QED
      BY <2>1, <2>2
  <1>9. ReadsCurrent'
    <2>. SUFFICES ASSUME NEW q \in Request, NEW k \in Key, header[q] = k, at'[q] \in Used
                  PROVE  /\ read'[q] <= Cardinality(Served(k)')
                         /\ k \notin overlapped => read'[q] = row'[k].request_count
      BY <1>1 DEF ReadsCurrent
    <2>1. q # r /\ at[q] \in Used /\ read'[q] = read[q] /\ read[q] \in Nat
      BY <1>1 DEF Used, CountInv
    <2>2. /\ read[q] <= Cardinality(Served(k))
          /\ k \notin overlapped => read[q] = row[k].request_count
      BY <2>1 DEF CountInv, ReadsCurrent
    <2>3. k \notin overlapped => header[r] # k
      BY <2>1, <1>1 DEF CountInv, OneAtATime, Used
    <2>4. read'[q] <= Cardinality(Served(k)')
      BY <2>1, <2>2, <1>6
    <2>5. k \notin overlapped => read'[q] = row'[k].request_count
      BY <2>1, <2>2, <2>3, <1>2
    <2>. QED
      BY <2>4, <2>5
  <1>. QED
    BY <1>7, <1>8, <1>9 DEF CountInv

\* The count that is there is read, and overlap with another reader is noted.
LEMMA VerifyKeepsCounts ==
  ASSUME CountInv, TypeInv', LocksHeld', NEW r \in Request, Verify(r)
  PROVE  CountInv'
  <1>. USE DEF TypeInv, TypeOK
  <1>1. PICK k \in Key :
          /\ header[r] = k
          /\ at[r] = "sent" /\ at' = [at EXCEPT ![r] = "verified"]
          /\ read' = [read EXCEPT ![r] = row[k].request_count]
          /\ overlapped' = IF InUse(r, k) THEN overlapped \cup {k} ELSE overlapped
          /\ UNCHANGED <<header, row>>
    BY DEF Verify, Go, database
  <1>2. \A x : Served(x)' = Served(x)
    BY <1>1 DEF Served, CountInv
  <1>3. CountsServed'
    BY <1>1, <1>2 DEF CountInv, CountsServed
  <1>4. ReadsCurrent'
    BY <1>1, <1>2 DEF CountInv, ReadsCurrent, CountsServed, Used
  <1>5. OneAtATime'
    BY <1>1 DEF CountInv, OneAtATime, Used, InUse, Waiting
  <1>. QED
    BY <1>3, <1>4, <1>5 DEF CountInv

LEMMA CountStep == CountInv /\ TypeInv' /\ [Next]_vars => CountInv'
  <1>. SUFFICES ASSUME CountInv, TypeInv', [Next]_vars PROVE CountInv'
    OBVIOUS
  <1>. USE DEF TypeInv, TypeOK, Go, database, history
  <1>0. LocksHeld' /\ TypeInv
    BY LocksStep DEF CountInv
  <1>1. ASSUME NEW r \in Request, Send(r) PROVE CountInv'
    <2>1. \A x : Served(x)' = Served(x)
      BY <1>0, <1>1 DEF Send, Served
    <2>. QED
      BY <1>0, <1>1, <2>1 DEF Send, CountInv, ReadsCurrent, OneAtATime, CountsServed, Used
  <1>2. ASSUME NEW r \in Request, AcceptMaster(r) PROVE CountInv'
    <2>1. \A x : Served(x)' = Served(x)
      BY <1>0, <1>2 DEF AcceptMaster, Served
    <2>. QED
      BY <1>0, <1>2, <2>1, KeyAssumption
         DEF AcceptMaster, CountInv, ReadsCurrent, OneAtATime, CountsServed, Used
  <1>3. ASSUME NEW r \in Request, Verify(r) PROVE CountInv'
    BY <1>0, <1>3, VerifyKeepsCounts
  <1>4. ASSUME NEW r \in Request, Commit(r) PROVE CountInv'
    BY <1>0, <1>4, CommitKeepsCounts
  <1>5. ASSUME NEW r \in Request, Grant(r) \/ Answer(r) \/ Delete(r) PROVE CountInv'
    BY <1>0, <1>5, QuietKeeps DEF Grant, Answer, Delete, Used
  <1>6. ASSUME NEW r \in Request, Unauthorized(r) \/ Refuse(r) \/ NotFound(r) \/ HandlerRaises(r)
                                  \/ DeleteRaises(r)
        PROVE  CountInv'
    BY <1>0, <1>6, QuietKeeps DEF Unauthorized, Refuse, NotFound, HandlerRaises, DeleteRaises, End, Used
  <1>7. ASSUME NEW r \in Request, Fails(r) PROVE CountInv'
    BY <1>0, <1>7, QuietKeeps DEF Fails, End, Used, Waiting
  <1>8. ASSUME NEW k \in Key, Revoke(k) PROVE CountInv'
    BY <1>0, <1>8, QuietKeeps DEF Revoke
  <1>9. CASE StoreAudit \/ Tick \/ UNCHANGED vars
    BY <1>0, <1>9, QuietKeeps DEF StoreAudit, Tick, vars
  <1>. QED
    BY <1>1, <1>2, <1>3, <1>4, <1>5, <1>6, <1>7, <1>8, <1>9 DEF Next, Serve

\* A key's count is never more than its served requests, and without overlap it
\* is their number.
THEOREM CountsAreServed == Spec => []CountsServed
  <1>1. Init => CountInv
    <2>. SUFFICES ASSUME Init PROVE CountInv
      OBVIOUS
    <2>1. \A k \in Key : Cardinality(Served(k)) = 0
      <3>1. \A k \in Key : Served(k) = {}
        BY DEF Init, Served
      <3>. QED
        BY <3>1, FS_EmptySet
    <2>2. CountsServed
      BY <2>1 DEF Init, CountsServed
    <2>3. TypeInv
      BY DEF Init, TypeInv, TypeOK, KeysKnown, Used
    <2>. QED
      BY <2>2, <2>3, KeyAssumption DEF Init, CountInv, LocksHeld, ReadsCurrent, OneAtATime, Used
  <1>2. CountInv => CountsServed
    BY DEF CountInv
  <1>. QED
    BY <1>1, <1>2, CountStep, TypesInvariant, PTL DEF Spec
=============================================================================
